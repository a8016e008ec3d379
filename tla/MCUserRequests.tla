---- MODULE MCUserRequests ----
(* Instances of UserRequests: who asks for what on which user. *)
EXTENDS UserRequests

CONSTANTS r1, r2, r3, alice, bob

OneUser  == [r \in Requests |-> alice]
TwoUsers == [r \in Requests |-> IF r = r3 THEN bob ELSE alice]

MCNames == {"ana", "bia"}
MCRoles == {"OPERATOR", "ADMIN"}
MCPasswords == {"old", "new"}
MCInitialRow == [name |-> "ana", role |-> "OPERATOR", isActive |-> TRUE,
                 password |-> "old"]

Rename   == [kind |-> "edit", name |-> "bia"]
KeepName == [kind |-> "edit", name |-> "ana"]
ToAdmin  == [kind |-> "role", role |-> "ADMIN"]
Toggle   == [kind |-> "status"]
Change   == [kind |-> "password", current |-> "old", new |-> "new"]
Reset    == [kind |-> "reset", new |-> "new"]
Login    == [kind |-> "login", current |-> "old"]
Logout   == [kind |-> "logout"]
Forgot   == [kind |-> "forgot"]
ReadUser == [kind |-> "read"]

OneOfEach     == {ToAdmin, KeepName, Login, Forgot, ReadUser}
AllInputs     == {Rename, KeepName, ToAdmin, Toggle, Change, Reset,
                  Login, Logout, Forgot, ReadUser}
TwoEdits      == {ToAdmin, Toggle}
EditAndRead   == {ToAdmin, ReadUser}
====
