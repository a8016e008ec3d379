------------------------------ MODULE Permissions ------------------------------
(***************************************************************************)
(* Who may do what: the CASL rules of each role and the way CASL decides   *)
(* by them.  A rule allows or denies an action on a type of subject, for   *)
(* all subjects or only for the user's own; of the rules that match, the   *)
(* last one decides.                                                       *)
(***************************************************************************)
EXTENDS Naturals, Sequences

CONSTANT AnyTarget  \* a question about the type of subject, not about one

Roles == {"ADMIN", "MANAGER", "SUPERVISOR", "OPERATOR"}

Can(action, subject)    == [allows |-> TRUE, action |-> action,
                            subject |-> subject, self |-> FALSE]
CanSelf(action)         == [allows |-> TRUE, action |-> action,
                            subject |-> "User", self |-> TRUE]
Cannot(action, subject) == [allows |-> FALSE, action |-> action,
                            subject |-> subject, self |-> FALSE]

permissions ==
    [ADMIN      |-> <<Can("manage", "all"), Cannot("update", "User"),
                      CanSelf("update")>>,
     MANAGER    |-> <<Can("read", "User"), Can("list", "User"),
                      Can("create", "User"), Can("activate", "User"),
                      Can("deactivate", "User"), Can("update-role", "User"),
                      CanSelf("update"), Can("manage", "Avatar")>>,
     SUPERVISOR |-> <<Can("read", "User"), Can("list", "User"),
                      CanSelf("update"), Can("manage", "Avatar")>>,
     OPERATOR   |-> <<Cannot("read", "User"), Cannot("list", "User"),
                      CanSelf("read"), CanSelf("update"),
                      Can("manage", "Avatar")>>]

\* A rule with a condition matches a question about the type.
Matches(rule, sub, action, subject, target) ==
    /\ rule.action \in {action, "manage"}
    /\ rule.subject \in {subject, "all"}
    /\ rule.self => target \in {sub, AnyTarget}

\* Mutant: the first rule that matches decides.
FirstMatchAllows(role, sub, action, subject, target) ==
    \E i \in DOMAIN permissions[role] :
       /\ permissions[role][i].allows
       /\ Matches(permissions[role][i], sub, action, subject, target)
       /\ \A j \in 1..(i - 1) :
             ~Matches(permissions[role][j], sub, action, subject, target)

Allows(role, sub, action, subject, target) ==
    LET rules == permissions[role]
        hits  == {i \in DOMAIN rules :
                     Matches(rules[i], sub, action, subject, target)}
    IN  \E i \in hits : rules[i].allows /\ \A j \in hits : j <= i
===============================================================================
