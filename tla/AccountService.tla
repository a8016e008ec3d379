---------------------------- MODULE AccountService ----------------------------
(***************************************************************************)
(* What a client of the user routes would like to rely on: every edit is   *)
(* applied to the user's CURRENT row, and the audit trail tells, edit by   *)
(* edit and without gaps, how the row came to be what it is.               *)
(***************************************************************************)
EXTENDS UserRow, Naturals, Sequences

CONSTANTS Users, Inputs, InitialRow

VARIABLES account,  \* account[u]: the row of user u, or NoRow
          owed,     \* owed[u]: the edit of u not yet in the trail, at most one
          trail     \* entries handed to the audit log, oldest first

serviceVars == <<account, owed, trail>>

Entry(u, in, before, after) ==
    [user |-> u, input |-> in, before |-> before, after |-> after]

Init == /\ account \in [Users -> {InitialRow, NoRow}]
        /\ owed = [u \in Users |-> {}]
        /\ trail = <<>>

Edit(u, in) ==
    /\ account[u] # NoRow /\ owed[u] = {}
    /\ Permitted(account[u], in)
    /\ account' = [account EXCEPT ![u] = Edited(@, in)]
    /\ owed' = [owed EXCEPT ![u] =
                  IF Raises(account[u], in)
                  THEN {Entry(u, in, account[u], Edited(account[u], in))}
                  ELSE {}]
    /\ UNCHANGED trail

Record(u) ==
    /\ \E entry \in owed[u] : trail' = Append(trail, entry)
    /\ owed' = [owed EXCEPT ![u] = {}]
    /\ UNCHANGED account

\* A login, logout or forgotten password leaves a note and edits nothing.
Note(u, in) ==
    /\ account[u] # NoRow /\ owed[u] = {}
    /\ Permitted(account[u], in)
    /\ trail' = Append(trail, Entry(u, in, account[u], account[u]))
    /\ UNCHANGED <<account, owed>>

Next == \E u \in Users :
           \/ \E in \in Inputs \intersect EditInput : Edit(u, in)
           \/ \E in \in Inputs \intersect NoteInput : Note(u, in)
           \/ Record(u)

Spec == Init /\ [][Next]_serviceVars

-----------------------------------------------------------------------------
\* The first n entries of a trail leave u with this row.
Leaves(told, u, n, row) ==
    \/ \E i \in 1..n : /\ told[i].user = u /\ told[i].after = row
                      /\ \A j \in i+1..n : told[j].user # u
    \/ row = InitialRow /\ \A i \in 1..n : told[i].user # u

\* An entry says what its input made of a row that permitted it.
Truthful(entry) ==
    /\ Permitted(entry.before, entry.input)
    /\ entry.after = IF entry.input \in EditInput
                     THEN Edited(entry.before, entry.input) ELSE entry.before

\* A trail tells how u came to have this row; the last entry may still be due.
Tells(told, u, row, due) ==
    \/ due = {} /\ (row = NoRow \/ Leaves(told, u, Len(told), row))
    \/ \E entry \in due :
          /\ due = {entry} /\ entry.user = u /\ Truthful(entry)
          /\ Leaves(told, u, Len(told), entry.before) /\ entry.after = row

\* The trail explains every account, entry by entry and without gaps.
TrailTellsAccounts ==
    /\ \A i \in 1..Len(trail) :
          /\ Truthful(trail[i])
          /\ Leaves(trail, trail[i].user, i - 1, trail[i].before)
    /\ \A u \in Users : Tells(trail, u, account[u], owed[u])
=============================================================================
