------------------------------ MODULE MCAccess ------------------------------
(* Small instances of Access for TLC. *)
EXTENDS Access, TLC

CONSTANTS r1, r2, r3, r4, old

SignedUp(role, location, totp) ==
    [role |-> role, location |-> location, password |-> Nothing, failed |-> 0,
     lockedUntil |-> 0, totp |-> totp, secret |-> IF totp THEN old ELSE Nothing, gone |-> FALSE]

Rows == {SignedUp("STAFF", "l1", TRUE), SignedUp("SUPER_ADMIN", Nothing, FALSE)}

(* The operations that work on the same columns. *)
Scenarios ==
    {{"refresh", "logout"}, {"login", "forgotPassword", "resetPassword"},
     {"refresh", "switchTenant", "forgotPassword", "resetPassword"},
     {"switchTenant", "refresh", "deleteUser"},
     {"setup2fa", "enable2fa", "disable2fa"}, {"createUser", "updateUser", "deleteUser"},
     {"requestLink", "verifyLink", "paymentLink"},
     {"createKey", "revokeKey", "callWithKey"}, {"callByIp"}}

Callers == Permutations(Requests)
=============================================================================
