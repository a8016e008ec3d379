--------------------------- MODULE UserDetailsProofs ---------------------------
(***************************************************************************)
(* UserDetails, proved for any number of requests, e-mails and places.     *)
(***************************************************************************)
EXTENDS UserDetails, FiniteSetTheorems, WellFoundedInduction, TLAPS

\* Which use case awaits which call.
Routes ==
    \A r \in Requests :
       /\ ask[r].kind = "create" => ask[r].user = r
       /\ pc[r] \in {"findByEmail", "insert"} => ask[r].kind = "create"
       /\ pc[r] \in {"findById", "findMany", "save"} => ask[r].kind # "create"
       /\ pc[r] \in {"findMany", "delete", "lock", "commit"} => ask[r].kind # "rename"

\* Whoever wrote rows has committed.
Written(rows) ==
    \A a \in rows : /\ a \in ListOf(a.by)
                    /\ pc[a.by] \in {"save", "done", "failed"}

\* Rows that were written together.
Whole(rows) == \A a \in rows : ListOf(a.by) \subseteq rows

\* The rows r's transaction deletes.
Taken(r) == deletes[r] \union locked[r]

BeforeDelete == {"idle", "findByEmail", "insert", "findById", "findMany", "delete"}

\* A transaction takes whole lists of its user, the ones that stood among them.
Ours(r) ==
    /\ pc[r] # "lock" => deletes[r] = {}
    /\ pc[r] \notin {"lock", "commit"} => locked[r] = {}
    /\ \A a \in Taken(r) : /\ a.user = ask[r].user
                           /\ ListOf(a.by) \intersect address \subseteq Taken(r)
    /\ Written(Taken(r)) /\ Written(stood[r])
    /\ locked[r] \subseteq address
    /\ pc[r] \in BeforeDelete => stood[r] = {}
    /\ pc[r] \in {"lock", "commit"} => stood[r] \intersect address \subseteq Taken(r)
    /\ pc[r] \in {"save", "done"} => stood[r] \intersect address = {}

\* No row is deleted by two transactions.
Apart == \A q, r \in Requests : q # r => locked[q] \intersect locked[r] = {}

\* A creation that got past its insert has its row, under an e-mail of its own.
Created ==
    /\ \A x, y \in users : x.email = y.email => x = y
    /\ \A r \in Requests :
          (ask[r].kind = "create" /\ pc[r] \in {"delete", "lock", "commit", "done"}) =>
             [id |-> r, email |-> EmailOf[r]] \in users

IInv == /\ TypeOK /\ Routes /\ Written(address) /\ Whole(address)
        /\ (\A r \in Requests : Ours(r)) /\ Apart
        /\ Created /\ CreationIsComplete

Steps(r) == \/ Arrive(r)
            \/ FindByEmail(r) \/ Insert(r)
            \/ FindById(r) \/ FindMany(r) \/ Save(r)
            \/ Delete(r) \/ Locking(r) \/ Commit(r)
            \/ Fail(r)

Labels == Awaiting \union {"idle", "done", "refused", "failed"}

-----------------------------------------------------------------------------
LEMMA InitIInv == Init => IInv
<1> SUFFICES ASSUME Init PROVE IInv
  OBVIOUS
<1>1. TypeOK
  BY DEF Init, TypeOK
<1>2. Routes /\ Written(address) /\ Whole(address) /\ Apart /\ Created
  BY DEF Init, Routes, Written, Whole, Apart, Created
<1>3. \A r \in Requests : Ours(r)
  BY DEF Init, Ours, Taken, Written
<1>4. CreationIsComplete
  BY DEF Init, CreationIsComplete
<1> QED BY <1>1, <1>2, <1>3, <1>4 DEF IInv

\* The rows of ListOf(r) are r's.
LEMMA ListRows ==
    ASSUME TypeOK, NEW r \in Requests, NEW a \in ListOf(r)
    PROVE  a \in Address /\ a.by = r /\ a.user = ask[r].user
BY DetailsAssumption DEF TypeOK, ListOf, Address, Ask

\* Every step is one request's, which leaves the others where they are.
LEMMA OneAtATime ==
    ASSUME TypeOK, NEW r \in Requests, Steps(r)
    PROVE  /\ TypeOK' /\ UNCHANGED ask
           /\ \A q \in Requests \ {r} :
                 /\ pc'[q] = pc[q] /\ deletes'[q] = deletes[q]
                 /\ locked'[q] = locked[q] /\ stood'[q] = stood[q]
<1> DEFINE Moves(f, set) == /\ f' \in [Requests -> set]
                            /\ \A q \in Requests \ {r} : f'[q] = f[q]
<1>1. /\ pc \in [Requests -> Labels] /\ deletes \in [Requests -> SUBSET Address]
      /\ locked \in [Requests -> SUBSET Address]
      /\ stood \in [Requests -> SUBSET Address]
      /\ address \subseteq Address /\ users \subseteq Row
  BY DEF TypeOK, Labels
<1>2. UNCHANGED ask
  BY DEF Steps, Locking, Arrive, FindByEmail, Insert, FindById, FindMany, Save, Delete,
         DeleteRow, EndDelete, DetectDeadlock, Commit, Fail
<1>3. Moves(pc, Labels)
  <2>1. \A label \in Labels : Goto(r, label) => Moves(pc, Labels)
    BY <1>1 DEF Goto
  <2>2. (\E label \in Labels : Goto(r, label)) \/ UNCHANGED pc
    BY DEF Steps, Locking, Arrive, FindByEmail, Insert, FindById, FindMany, Save, Delete,
           DeleteRow, EndDelete, DetectDeadlock, Commit, Fail, Labels, Awaiting
  <2> QED BY <1>1, <2>1, <2>2
<1>4. \/ UNCHANGED <<deletes, locked>> \/ End(r)
      \/ UNCHANGED locked /\ deletes' = [deletes EXCEPT ![r] = ToDelete(r)]
      \/ \E a \in deletes[r] :
            /\ deletes' = [deletes EXCEPT ![r] = @ \ {a}]
            /\ \/ UNCHANGED locked
               \/ locked' = [locked EXCEPT ![r] = @ \union {a}]
  BY DEF Steps, Locking, Arrive, FindByEmail, Insert, FindById, FindMany, Save, Delete,
         DeleteRow, Pass, EndDelete, DetectDeadlock, Commit, Fail, Replace
<1>5. Moves(deletes, SUBSET Address)
  BY <1>1, <1>4 DEF End, ToDelete, AddressesOf
<1>6. Moves(locked, SUBSET Address)
  BY <1>1, <1>4 DEF End
<1>7. Moves(stood, SUBSET Address)
  <2>1. \/ UNCHANGED stood
        \/ stood' = [stood EXCEPT ![r] = AddressesOf(ask[r].user)]
    BY DEF Steps, Locking, Arrive, FindByEmail, Insert, FindById, FindMany, Save, Delete,
           DeleteRow, EndDelete, DetectDeadlock, Commit, Fail
  <2> QED BY <1>1, <2>1 DEF AddressesOf
<1>8. address' \subseteq Address
  <2>1. UNCHANGED address \/ Replace(r)
    BY DEF Steps, Locking, Arrive, FindByEmail, Insert, FindById, FindMany, Save, Delete,
           DeleteRow, EndDelete, DetectDeadlock, Commit, Fail
  <2>2. ListOf(r) \subseteq Address
    BY ListRows
  <2> QED BY <1>1, <2>1, <2>2 DEF Replace
<1>9. users' \subseteq Row
  <2>1. UNCHANGED users \/ InsertRow(r)
    BY DEF Steps, Locking, Arrive, FindByEmail, Insert, FindById, FindMany, Save, Delete,
           DeleteRow, EndDelete, DetectDeadlock, Commit, Fail
  <2> QED BY <1>1, <2>1, DetailsAssumption DEF InsertRow, Row
<1> QED BY <1>2, <1>3, <1>5, <1>6, <1>7, <1>8, <1>9 DEF TypeOK, Labels

\* A request goes on and writes no address; it may write its row.
LEMMA Going ==
    ASSUME IInv, NEW r \in Requests, Steps(r), UNCHANGED address,
           Ours(r)', \A q \in Requests \ {r} : locked'[r] \intersect locked[q] = {},
           \/ UNCHANGED users
           \/ (InsertRow(r) /\ ~EmailTaken(r)),
           pc'[r] \in {"findByEmail", "insert"} => ask[r].kind = "create",
           pc'[r] \in {"findById", "findMany", "save"} => ask[r].kind # "create",
           pc'[r] \in {"findMany", "delete", "lock", "commit"} => ask[r].kind # "rename",
           pc'[r] = "done" => ask[r].kind # "create",
           (ask[r].kind = "create" /\ pc'[r] \in {"delete", "lock", "commit"}) =>
              [id |-> r, email |-> EmailOf[r]] \in users',
           pc[r] \notin {"done", "failed"},
           pc[r] = "save" => pc'[r] \in {"done", "failed"}
    PROVE  IInv'
<1>1. /\ TypeOK' /\ UNCHANGED ask
      /\ \A q \in Requests \ {r} :
            /\ pc'[q] = pc[q] /\ deletes'[q] = deletes[q]
            /\ locked'[q] = locked[q] /\ stood'[q] = stood[q]
  BY OneAtATime DEF IInv
<1>2. /\ deletes \in [Requests -> SUBSET Address] /\ address \subseteq Address
      /\ locked \in [Requests -> SUBSET Address]
      /\ stood \in [Requests -> SUBSET Address]
  BY DEF IInv, TypeOK
<1>3. \A q : ListOf(q)' = ListOf(q)
  BY <1>1 DEF ListOf
<1>4. users \subseteq users'
  BY DEF InsertRow
<1>5. Routes'
  BY <1>1 DEF IInv, Routes
<1>6. \A q \in Requests : pc[q] \in {"save", "done", "failed"} =>
                            pc'[q] \in {"save", "done", "failed"}
  BY <1>1
<1>7. \A rows \in SUBSET Address : Written(rows) => Written(rows)'
  BY <1>3, <1>6 DEF Written, Address
<1>8. Written(address)' /\ Whole(address)'
  BY <1>7, <1>2, <1>3 DEF IInv, Written, Whole
<1>9. \A q \in Requests : Ours(q)'
  <2> SUFFICES ASSUME NEW q \in Requests \ {r} PROVE Ours(q)'
    OBVIOUS
  <2>1. Ours(q) /\ deletes[q] \subseteq Address /\ locked[q] \subseteq Address
        /\ stood[q] \subseteq Address
    BY <1>2 DEF IInv
  <2>2. Taken(q)' = Taken(q) /\ Taken(q) \subseteq Address
    BY <1>1, <2>1 DEF Taken
  <2>3. Written(Taken(q)) /\ Written(stood[q])
    BY <2>1 DEF Ours
  <2>4. Written(Taken(q))' /\ Written(stood[q])'
    <3>1. \A a \in Taken(q) \union stood[q] : /\ a \in ListOf(a.by)'
                                       /\ pc'[a.by] \in {"save", "done", "failed"}
      BY <1>3, <1>6, <2>1, <2>2, <2>3 DEF Written, Address
    <3> QED BY <1>1, <2>2, <3>1 DEF Written
  <2> QED BY <1>1, <1>3, <2>1, <2>2, <2>4 DEF Ours
<1>10. Apart'
  BY <1>1 DEF IInv, Apart
<1>11. Created'
  <2>1. \A x, y \in users' : x.email = y.email => x = y
    BY DEF IInv, Created, InsertRow, EmailTaken
  <2>2. ASSUME NEW q \in Requests, ask[q].kind = "create",
               pc'[q] \in {"delete", "lock", "commit", "done"}
        PROVE  [id |-> q, email |-> EmailOf[q]] \in users'
    BY <2>2, <1>1, <1>4 DEF IInv, Created
  <2> QED BY <1>1, <2>1, <2>2 DEF Created
<1>12. CreationIsComplete'
  <2> SUFFICES ASSUME NEW q \in Requests, ask[q].kind = "create", pc'[q] = "done"
               PROVE  /\ \E x \in users' : x.id = q
                      /\ \/ ListOf(q) \subseteq address
                         \/ \E p \in Requests :
                               /\ ask[p].kind = "edit" /\ ask[p].user = q
                               /\ pc'[p] \in {"save", "done", "failed"}
    BY <1>1, <1>3 DEF CreationIsComplete
  <2>1. q # r /\ pc[q] = "done"
    BY <1>1
  <2>2. /\ \E x \in users : x.id = q
        /\ \/ ListOf(q) \subseteq address
           \/ \E p \in Requests :
                 /\ ask[p].kind = "edit" /\ ask[p].user = q
                 /\ pc[p] \in {"save", "done", "failed"}
    BY <2>1 DEF IInv, CreationIsComplete
  <2> QED BY <2>2, <1>4, <1>6
<1> QED BY <1>1, <1>5, <1>8, <1>9, <1>10, <1>11, <1>12 DEF IInv

\* A list is replaced as a whole.
LEMMA Replacing ==
    ASSUME IInv, NEW r \in Requests, pc[r] = "commit", Replace(r),
           UNCHANGED users, Steps(r), pc'[r] \in {"done", "save", "failed"},
           pc'[r] = "done" => ask[r].kind = "create",
           pc'[r] = "save" => ask[r].kind = "edit",
           UNCHANGED stood
    PROVE  IInv'
<1>1. /\ TypeOK' /\ UNCHANGED ask
      /\ \A q \in Requests \ {r} :
            /\ pc'[q] = pc[q] /\ deletes'[q] = deletes[q]
            /\ locked'[q] = locked[q] /\ stood'[q] = stood[q]
  BY OneAtATime DEF IInv
<1>2. /\ deletes \in [Requests -> SUBSET Address] /\ address \subseteq Address
      /\ locked \in [Requests -> SUBSET Address]
      /\ stood \in [Requests -> SUBSET Address]
  BY DEF IInv, TypeOK
<1>3. \A q : ListOf(q)' = ListOf(q)
  BY <1>1 DEF ListOf
<1>4. /\ address' = (address \ locked[r]) \union ListOf(r)
      /\ deletes'[r] = {} /\ locked'[r] = {} /\ stood'[r] = stood[r]
  BY <1>2 DEF Replace, End
<1>5. /\ Ours(r) /\ Taken(r) = locked[r] /\ locked[r] \subseteq address
      /\ \A a \in locked[r] : ListOf(a.by) \intersect address \subseteq locked[r]
  BY DEF IInv, Ours, Taken
<1>6. \A q \in Requests : pc[q] \in {"save", "done", "failed"} =>
                            pc'[q] \in {"save", "done", "failed"}
  BY <1>1
<1>7. \A rows \in SUBSET Address : Written(rows) => Written(rows)'
  BY <1>3, <1>6 DEF Written, Address
<1>8. Routes'
  BY <1>1 DEF IInv, Routes
<1>9. Written(address)'
  <2> SUFFICES ASSUME NEW a \in address'
               PROVE  a \in ListOf(a.by) /\ pc'[a.by] \in {"save", "done", "failed"}
    BY <1>3 DEF Written
  <2>1. CASE a \in ListOf(r)
    BY <2>1, ListRows DEF IInv
  <2>2. CASE a \in address
    BY <2>2, <1>2, <1>6 DEF IInv, Written, Address
  <2> QED BY <2>1, <2>2, <1>4
<1>10. Whole(address)'
  <2> SUFFICES ASSUME NEW a \in address', NEW b \in ListOf(a.by)
               PROVE  b \in address'
    BY <1>3 DEF Whole
  <2>1. CASE a \in ListOf(r)
    BY <2>1, <1>4, ListRows DEF IInv
  <2>2. CASE a \in address \ locked[r]
    <3>1. a.by \in Requests /\ a \in ListOf(a.by) /\ b \in address
      BY <2>2, <1>2 DEF IInv, Written, Whole, Address
    <3>2. b.by = a.by
      BY <3>1, ListRows DEF IInv
    <3>3. b \in locked[r] => a \in locked[r]
      BY <3>1, <3>2, <2>2, <1>5
    <3> QED BY <3>1, <3>3, <2>2, <1>4
  <2> QED BY <2>1, <2>2, <1>4
<1>11. \A q \in Requests : Ours(q)'
  <2>1. ASSUME NEW q \in Requests, NEW a \in Address, NEW rows \in SUBSET Address,
               Written(rows), a \in rows
        PROVE  ListOf(a.by) \intersect ListOf(r) = {} /\ a \notin ListOf(r)
    <3>1. a.by \in Requests /\ a.by # r
      BY <2>1 DEF Written, Address
    <3> QED BY <3>1, ListRows DEF IInv
  <2>2. Ours(r)'
    <3>1. Taken(r)' = {} /\ Written({})'
      BY <1>4 DEF Taken, Written
    <3>2. Written(stood[r])'
      <4>1. \A a \in stood[r] : /\ a \in ListOf(a.by)'
                                 /\ pc'[a.by] \in {"save", "done", "failed"}
        BY <1>2, <1>3, <1>5, <1>6 DEF Ours, Written, Address
      <4> QED BY <1>4, <4>1 DEF Written
    <3>3. stood[r] \intersect address' = {}
      <4>1. stood[r] \intersect address \subseteq locked[r]
        BY <1>5 DEF Ours
      <4>2. stood[r] \intersect ListOf(r) = {}
        BY <1>2, <1>5, <2>1 DEF Ours
      <4> QED BY <1>4, <4>1, <4>2
    <3> QED BY <1>1, <1>4, <3>1, <3>2, <3>3 DEF Ours, BeforeDelete, Written
  <2>3. ASSUME NEW q \in Requests \ {r} PROVE Ours(q)'
    <3>1. Ours(q) /\ deletes[q] \subseteq Address /\ locked[q] \subseteq Address
          /\ stood[q] \subseteq Address
      BY <1>2 DEF IInv
    <3>2. Taken(q)' = Taken(q) /\ Taken(q) \subseteq Address
      BY <1>1, <3>1 DEF Taken
    <3>3. Written(Taken(q)) /\ Written(stood[q])
      BY <3>1 DEF Ours
    <3>4. Written(Taken(q))' /\ Written(stood[q])'
      <4>1. \A a \in Taken(q) \union stood[q] : /\ a \in ListOf(a.by)'
                                         /\ pc'[a.by] \in {"save", "done", "failed"}
        BY <1>3, <1>6, <3>1, <3>2, <3>3 DEF Written, Address
      <4> QED BY <1>1, <3>2, <4>1 DEF Written
    <3>5. \A a \in Taken(q) : ListOf(a.by) \intersect address' \subseteq Taken(q)
      BY <1>4, <2>1, <3>1, <3>2, <3>3 DEF Ours
    <3>6. locked[q] \subseteq address'
      BY <1>4, <3>1 DEF Ours, IInv, Apart
    <3>7. stood[q] \intersect address' = stood[q] \intersect (address \ locked[r])
      BY <1>4, <2>1, <3>1, <3>3
    <3> QED BY <1>1, <1>3, <3>1, <3>2, <3>4, <3>5, <3>6, <3>7 DEF Ours
  <2> QED BY <2>2, <2>3
<1>12. Apart'
  BY <1>1, <1>4 DEF IInv, Apart
<1>13. Created'
  BY <1>1 DEF IInv, Created
<1>14. CreationIsComplete'
  <2> SUFFICES ASSUME NEW q \in Requests, ask[q].kind = "create", pc'[q] = "done"
               PROVE  /\ \E x \in users : x.id = q
                      /\ \/ ListOf(q) \subseteq address'
                         \/ \E p \in Requests :
                               /\ ask[p].kind = "edit" /\ ask[p].user = q
                               /\ pc'[p] \in {"save", "done", "failed"}
    BY <1>1, <1>3 DEF CreationIsComplete
  <2>1. CASE q = r
    BY <2>1, <1>4 DEF IInv, Created
  <2>2. CASE q # r
    <3>1. \E x \in users : x.id = q
      BY <2>2, <1>1 DEF IInv, CreationIsComplete
    <3>2. CASE \E p \in Requests : /\ ask[p].kind = "edit" /\ ask[p].user = q
                                   /\ pc[p] \in {"save", "done", "failed"}
      BY <3>1, <3>2, <1>6
    <3>3. CASE ListOf(q) \subseteq address /\ ListOf(q) \intersect locked[r] = {}
      BY <3>1, <3>3, <1>4
    <3>4. CASE ListOf(q) \intersect locked[r] # {}
      <4>1. PICK a \in ListOf(q) : a \in locked[r]
        BY <3>4
      <4>2. a.user = ask[q].user /\ a.user = ask[r].user
        BY <4>1, <1>5, ListRows DEF IInv, Ours
      <4>3. ask[r].user = q /\ ask[r].kind \notin {"create", "rename"}
        BY <4>2, <2>2 DEF IInv, Routes
      <4>4. ask[r].kind = "edit"
        BY <4>3, DetailsAssumption DEF IInv, TypeOK, Ask
      <4> QED BY <3>1, <4>3, <4>4, <1>1
    <3> QED BY <3>2, <3>3, <3>4, <2>2, <1>1 DEF IInv, CreationIsComplete
  <2> QED BY <2>1, <2>2
<1> QED BY <1>1, <1>8, <1>9, <1>10, <1>11, <1>12, <1>13, <1>14 DEF IInv

-----------------------------------------------------------------------------
\* A request that deletes nothing is as Ours has it.
LEMMA NothingTaken ==
    ASSUME IInv, NEW r \in Requests, Steps(r),
           deletes'[r] = {}, locked'[r] = {}, stood'[r] = stood[r], UNCHANGED address,
           pc'[r] \notin {"lock", "commit"}, pc[r] \notin {"done", "failed"},
           pc[r] = "save" => pc'[r] \in {"done", "failed"},
           pc'[r] \in BeforeDelete => stood[r] = {},
           pc'[r] \in {"save", "done"} => stood[r] \intersect address = {}
    PROVE  Ours(r)' /\ \A q \in Requests \ {r} : locked'[r] \intersect locked[q] = {}
<1>1. /\ UNCHANGED ask /\ \A q \in Requests \ {r} : pc'[q] = pc[q]
      /\ stood[r] \subseteq Address
  BY OneAtATime DEF IInv, TypeOK
<1>2. \A a \in stood[r] : /\ a \in ListOf(a.by)'
                           /\ pc'[a.by] \in {"save", "done", "failed"}
  <2>1. \A a \in stood[r] : /\ a \in ListOf(a.by) /\ a.by \in Requests
                             /\ pc[a.by] \in {"save", "done", "failed"}
    BY <1>1 DEF IInv, Ours, Written, Address
  <2> QED BY <1>1, <2>1 DEF ListOf
<1>3. Written(stood[r])' /\ Written(Taken(r))' /\ Taken(r)' = {}
  BY <1>2 DEF Written, Taken
<1> QED BY <1>1, <1>3 DEF Ours

\* The rows a delete begins with are whole lists of its user.
LEMMA DeleteKeeps == ASSUME IInv, NEW r \in Requests, Delete(r) PROVE IInv'
<1>1. /\ deletes \in [Requests -> SUBSET Address] /\ pc \in [Requests -> Labels]
      /\ locked \in [Requests -> SUBSET Address] /\ address \subseteq Address
      /\ stood \in [Requests -> SUBSET Address]
  BY DEF IInv, TypeOK, Labels
<1>2. /\ pc[r] = "delete" /\ pc'[r] = "lock" /\ UNCHANGED <<users, address, ask, locked>>
      /\ \A q \in Requests \ {r} : pc'[q] = pc[q]
      /\ deletes'[r] = AddressesOf(ask[r].user) /\ stood'[r] = AddressesOf(ask[r].user)
  BY <1>1 DEF Delete, Goto, ToDelete
<1>3. locked[r] = {} /\ Taken(r)' = AddressesOf(ask[r].user)
  BY <1>2 DEF IInv, Ours, Taken
<1>4. Written(AddressesOf(ask[r].user))'
  <2>1. \A a \in address : /\ a \in ListOf(a.by)'
                           /\ pc'[a.by] \in {"save", "done", "failed"}
    BY <1>1, <1>2 DEF IInv, Written, ListOf, Address
  <2> QED BY <1>2, <2>1 DEF Written, AddressesOf
<1>5. \A a \in AddressesOf(ask[r].user) :
         /\ a.user = ask[r].user
         /\ ListOf(a.by) \subseteq AddressesOf(ask[r].user)
  <2> SUFFICES ASSUME NEW a \in AddressesOf(ask[r].user)
               PROVE  /\ a.user = ask[r].user
                      /\ \A b \in ListOf(a.by) : b \in AddressesOf(ask[r].user)
    OBVIOUS
  <2>1. a \in address /\ a.user = ask[r].user /\ a.by \in Requests
    BY <1>1 DEF AddressesOf, Address
  <2>2. \A b \in ListOf(a.by) : b \in address /\ b.user = a.user
    BY <2>1, ListRows DEF IInv, Whole, Written
  <2> QED BY <2>1, <2>2 DEF AddressesOf
<1>6. Ours(r)'
  <2>1. Written(Taken(r))' /\ Written(stood[r])'
    BY <1>2, <1>3, <1>4 DEF Written, AddressesOf, ListOf
  <2>2. \A a \in AddressesOf(ask[r].user) :
           /\ a.user = ask'[r].user
           /\ ListOf(a.by)' \intersect address' \subseteq AddressesOf(ask[r].user)
    BY <1>2, <1>5 DEF ListOf
  <2> QED BY <1>2, <1>3, <2>1, <2>2 DEF Ours, BeforeDelete
<1>7. /\ ask[r].kind # "rename"
      /\ ask[r].kind = "create" => [id |-> r, email |-> EmailOf[r]] \in users
  BY <1>2 DEF IInv, Routes, Created
<1> QED BY <1>2, <1>3, <1>6, <1>7, Going DEF Steps

\* What it takes is there and nobody else's; what it passes over is gone.
LEMMA DeleteRowKeeps ==
    ASSUME IInv, NEW r \in Requests, NEW a \in deletes[r], DeleteRow(r, a)
    PROVE  IInv'
<1>1. /\ deletes \in [Requests -> SUBSET Address] /\ pc \in [Requests -> Labels]
      /\ locked \in [Requests -> SUBSET Address] /\ address \subseteq Address
  BY DEF IInv, TypeOK, Labels
<1>2. /\ pc[r] = "lock" /\ UNCHANGED <<users, address, pc, ask, stood>>
      /\ deletes'[r] = deletes[r] \ {a} /\ \A q \in Requests \ {r} : a \notin locked[q]
      /\ locked'[r] = IF a \in address THEN locked[r] \union {a} ELSE locked[r]
  BY <1>1 DEF DeleteRow, Pass, LockedByAnother
<1>3. Ours(r)
  BY DEF IInv
<1>4. \A rows : Written(rows) => \A b \in rows : /\ b \in ListOf(b.by)'
                                                  /\ pc'[b.by] \in {"save", "done", "failed"}
  BY <1>2 DEF Written, ListOf
<1>5. /\ Taken(r)' \subseteq Taken(r)
      /\ Taken(r) \intersect address \subseteq Taken(r)'
  BY <1>2 DEF Taken
<1>6. Written(Taken(r))' /\ Written(stood[r])'
  BY <1>2, <1>3, <1>4, <1>5 DEF Ours, Written
<1>7. \A b \in Taken(r)' : /\ b.user = ask'[r].user
                           /\ ListOf(b.by)' \intersect address' \subseteq Taken(r)'
  <2>1. \A b \in Taken(r) : /\ b.user = ask[r].user
                            /\ ListOf(b.by) \intersect address \subseteq Taken(r)
    BY <1>3 DEF Ours
  <2> QED BY <1>2, <1>5, <2>1 DEF ListOf
<1>8. Ours(r)'
  BY <1>2, <1>3, <1>5, <1>6, <1>7 DEF Ours, BeforeDelete
<1>9. \A q \in Requests \ {r} : locked'[r] \intersect locked[q] = {}
  BY <1>2 DEF IInv, Apart
<1>10. /\ ask[r].kind # "rename"
       /\ ask[r].kind = "create" => [id |-> r, email |-> EmailOf[r]] \in users
  BY <1>2 DEF IInv, Routes, Created
<1>11. Steps(r)
  BY DEF Steps, Locking
<1> QED BY <1>2, <1>8, <1>9, <1>10, <1>11, Going

\* At its end all that is left of its rows is locked.
LEMMA EndDeleteKeeps ==
    ASSUME IInv, NEW r \in Requests, EndDelete(r)
    PROVE  IInv'
<1>1. /\ pc[r] = "lock" /\ pc'[r] = "commit" /\ deletes[r] = {}
      /\ UNCHANGED <<users, address, ask, deletes, locked, stood>>
      /\ \A q \in Requests \ {r} : pc'[q] = pc[q]
  BY DEF EndDelete, Goto, IInv, TypeOK
<1>2. Ours(r) /\ locked[r] \subseteq Address /\ deletes[r] \subseteq Address
      /\ stood[r] \subseteq Address
  BY DEF IInv, TypeOK
<1>3. Taken(r)' = Taken(r) /\ Taken(r) \subseteq Address
  BY <1>1, <1>2 DEF Taken
<1>4. \A b \in Taken(r) \union stood[r] : /\ b \in ListOf(b.by)'
                                           /\ pc'[b.by] \in {"save", "done", "failed"}
  BY <1>1, <1>2, <1>3 DEF Ours, Written, ListOf, Address
<1>5. Written(Taken(r))' /\ Written(stood[r])'
  BY <1>1, <1>3, <1>4 DEF Written
<1>6. Ours(r)'
  BY <1>1, <1>2, <1>3, <1>5 DEF Ours, BeforeDelete, ListOf
<1>7. \A q \in Requests \ {r} : locked'[r] \intersect locked[q] = {}
  BY <1>1 DEF IInv, Apart
<1>8. /\ ask[r].kind # "rename"
      /\ ask[r].kind = "create" => [id |-> r, email |-> EmailOf[r]] \in users
  BY <1>1 DEF IInv, Routes, Created
<1>9. Steps(r)
  BY DEF Steps, Locking
<1> QED BY <1>1, <1>6, <1>7, <1>8, <1>9, Going

\* Before its delete begins a request has nothing to do with addresses.
LEMMA EarlySteps ==
    ASSUME IInv, NEW r \in Requests, Steps(r), pc[r] \in BeforeDelete,
           UNCHANGED <<address, stood>>, pc'[r] \notin {"lock", "commit"},
           UNCHANGED <<deletes, locked>> \/ End(r)
    PROVE  Ours(r)' /\ \A q \in Requests \ {r} : locked'[r] \intersect locked[q] = {}
<1>1. deletes[r] = {} /\ locked[r] = {} /\ stood[r] = {}
  BY DEF IInv, Ours, BeforeDelete
<1>2. deletes'[r] = {} /\ locked'[r] = {} /\ stood'[r] = {}
  BY <1>1 DEF End, IInv, TypeOK
<1> QED BY <1>1, <1>2, NothingTaken DEF BeforeDelete

\* A transaction that fails gives its rows back.
LEMMA Giving ==
    ASSUME IInv, NEW r \in Requests, Steps(r), End(r), pc'[r] = "failed",
           pc[r] \in Awaiting, UNCHANGED <<users, address, stood>>
    PROVE  IInv'
<1>1. deletes'[r] = {} /\ locked'[r] = {} /\ stood'[r] = stood[r]
  BY DEF End, IInv, TypeOK
<1>2. Ours(r)' /\ \A q \in Requests \ {r} : locked'[r] \intersect locked[q] = {}
  BY <1>1, NothingTaken DEF BeforeDelete, Awaiting
<1> QED BY <1>2, Going DEF Awaiting

\* Every step keeps the invariant.
LEMMA StepIInv == IInv /\ [Next]_vars => IInv'
<1> SUFFICES ASSUME IInv, [Next]_vars PROVE IInv'
  OBVIOUS
<1>0. pc \in [Requests -> Labels] /\ ask \in [Requests -> Ask]
  BY DEF IInv, TypeOK, Labels
<1>1. ASSUME NEW r \in Requests, Arrive(r) PROVE IInv'
  <2>1. /\ pc[r] = "idle" /\ UNCHANGED <<users, address, deletes, locked, stood>>
        /\ pc'[r] = IF ask[r].kind = "create" THEN "findByEmail" ELSE "findById"
    BY <1>0, <1>1 DEF Arrive, Goto
  <2>2. Ours(r)' /\ \A q \in Requests \ {r} : locked'[r] \intersect locked[q] = {}
    BY <1>1, <2>1, EarlySteps DEF Steps, BeforeDelete
  <2> QED BY <1>1, <2>1, <2>2, Going DEF Steps
<1>2. ASSUME NEW r \in Requests, FindByEmail(r) PROVE IInv'
  <2>1. /\ pc[r] = "findByEmail" /\ UNCHANGED <<users, address, deletes, locked, stood>>
        /\ pc'[r] \in {"refused", "insert"} /\ ask[r].kind = "create"
    BY <1>0, <1>2 DEF FindByEmail, Goto, IInv, Routes
  <2>2. Ours(r)' /\ \A q \in Requests \ {r} : locked'[r] \intersect locked[q] = {}
    BY <1>2, <2>1, EarlySteps DEF Steps, BeforeDelete
  <2> QED BY <1>2, <2>1, <2>2, Going DEF Steps
<1>3. ASSUME NEW r \in Requests, Insert(r) PROVE IInv'
  <2>1. /\ pc[r] = "insert" /\ UNCHANGED <<address, deletes, locked, stood>>
        /\ ask[r].kind = "create"
        /\ \/ pc'[r] = "failed" /\ UNCHANGED users
           \/ pc'[r] = "delete" /\ InsertRow(r) /\ ~EmailTaken(r)
    BY <1>0, <1>3 DEF Insert, Goto, IInv, Routes
  <2>2. Ours(r)' /\ \A q \in Requests \ {r} : locked'[r] \intersect locked[q] = {}
    BY <1>3, <2>1, EarlySteps DEF Steps, BeforeDelete
  <2>3. pc'[r] = "delete" => [id |-> r, email |-> EmailOf[r]] \in users'
    BY <2>1 DEF InsertRow
  <2> QED BY <1>3, <2>1, <2>2, <2>3, Going DEF Steps
<1>4. ASSUME NEW r \in Requests, FindById(r) PROVE IInv'
  <2>1. /\ pc[r] = "findById" /\ UNCHANGED <<users, address, deletes, locked, stood>>
        /\ ask[r].kind # "create"
    BY <1>4 DEF FindById, IInv, Routes
  <2>2. /\ pc'[r] \in {"refused", "save", "findMany"}
        /\ pc'[r] = "findMany" => ask[r].kind # "rename"
    BY <1>0, <1>4 DEF FindById, Goto
  <2>3. Ours(r)' /\ \A q \in Requests \ {r} : locked'[r] \intersect locked[q] = {}
    BY <1>4, <2>1, <2>2, EarlySteps DEF Steps, BeforeDelete
  <2> QED BY <1>4, <2>1, <2>2, <2>3, Going DEF Steps
<1>5. ASSUME NEW r \in Requests, FindMany(r) PROVE IInv'
  <2>1. /\ pc[r] = "findMany" /\ UNCHANGED <<users, address, deletes, locked, stood>>
        /\ ask[r].kind \notin {"create", "rename"}
    BY <1>5 DEF FindMany, IInv, Routes
  <2>2. pc'[r] \in {"delete", "save"}
    BY <1>0, <1>5 DEF FindMany, Goto
  <2>3. Ours(r)' /\ \A q \in Requests \ {r} : locked'[r] \intersect locked[q] = {}
    BY <1>5, <2>1, <2>2, EarlySteps DEF Steps, BeforeDelete
  <2> QED BY <1>5, <2>1, <2>2, <2>3, Going DEF Steps
<1>6. ASSUME NEW r \in Requests, Save(r) PROVE IInv'
  <2>1. /\ pc[r] = "save" /\ UNCHANGED <<users, address, deletes, locked, stood>>
        /\ pc'[r] = "done" /\ ask[r].kind # "create"
    BY <1>0, <1>6 DEF Save, Goto, IInv, Routes
  <2>2. deletes[r] = {} /\ locked[r] = {} /\ stood[r] \intersect address = {}
    BY <2>1 DEF IInv, Ours
  <2>3. Ours(r)' /\ \A q \in Requests \ {r} : locked'[r] \intersect locked[q] = {}
    BY <1>6, <2>1, <2>2, NothingTaken DEF Steps, BeforeDelete
  <2> QED BY <1>6, <2>1, <2>3, Going DEF Steps
<1>7. ASSUME NEW r \in Requests, Locking(r) PROVE IInv'
  <2>1. CASE \E a \in deletes[r] : DeleteRow(r, a)
    BY <2>1, DeleteRowKeeps
  <2>2. CASE EndDelete(r)
    BY <2>2, EndDeleteKeeps
  <2>3. CASE DetectDeadlock(r)
    <3>1. pc[r] = "lock"
      BY <2>3 DEF DetectDeadlock, Deadlock, WaitsFor
    <3>2. pc'[r] = "failed" /\ End(r) /\ UNCHANGED <<users, address, stood>>
      BY <1>0, <2>3 DEF DetectDeadlock, Goto
    <3> QED BY <1>7, <3>1, <3>2, Giving DEF Steps, Awaiting
  <2> QED BY <1>7, <2>1, <2>2, <2>3 DEF Locking
<1>8. ASSUME NEW r \in Requests, Commit(r) PROVE IInv'
  <2>1. /\ ask[r].kind \in {"create", "edit"} /\ pc[r] = "commit" /\ Replace(r)
        /\ UNCHANGED <<users, stood>>
        /\ pc'[r] = IF ask[r].kind = "create" THEN "done" ELSE "save"
    BY <1>0, <1>8, DetailsAssumption DEF Commit, Goto, IInv, Routes, Ask
  <2> QED BY <1>8, <2>1, Replacing DEF Steps
<1>9. ASSUME NEW r \in Requests, Fail(r) PROVE IInv'
  <2>1. pc[r] \in Awaiting /\ pc'[r] = "failed" /\ UNCHANGED stood /\ Steps(r)
    BY <1>0, <1>9 DEF Fail, Goto, Steps
  <2>2. CASE UNCHANGED <<users, address>> /\ End(r)
    BY <2>1, <2>2, Giving
  <2>3. CASE /\ pc[r] = "insert" /\ ~EmailTaken(r) /\ InsertRow(r)
             /\ UNCHANGED <<address, deletes, locked>>
    <3>1. Ours(r)' /\ \A q \in Requests \ {r} : locked'[r] \intersect locked[q] = {}
      BY <2>1, <2>3, EarlySteps DEF BeforeDelete
    <3> QED BY <2>1, <2>3, <3>1, Going
  <2>4. CASE pc[r] = "commit" /\ Replace(r) /\ UNCHANGED users
    BY <2>1, <2>4, Replacing
  <2> QED BY <1>9, <2>2, <2>3, <2>4 DEF Fail
<1>10. CASE UNCHANGED vars
  <2>1. TypeOK' /\ Routes' /\ Created' /\ CreationIsComplete' /\ Apart'
    BY <1>10 DEF vars, IInv, TypeOK, Routes, Created, CreationIsComplete, Apart, ListOf
  <2>2. Written(address)' /\ Whole(address)' /\ \A r \in Requests : Ours(r)'
    BY <1>10 DEF vars, IInv, Written, Whole, Ours, Taken, ListOf
  <2> QED BY <2>1, <2>2 DEF IInv
<1> QED BY <1>1, <1>2, <1>3, <1>4, <1>5, <1>6, <1>7, <1>8, <1>9, <1>10, DeleteKeeps
        DEF Next

LEMMA Invariant == Spec => []IInv
BY InitIInv, StepIInv, PTL DEF Spec

-----------------------------------------------------------------------------
\* The variables keep their types.
THEOREM DetailsTypes == Spec => []TypeOK
<1>1. IInv => TypeOK
  BY DEF IInv
<1> QED BY <1>1, Invariant, PTL

\* However creations and edits overlap, of the addresses one request wrote all
\* are there or none.
THEOREM ListsAreWhole == Spec => []AddressesAreWhole
<1>1. IInv => AddressesAreWhole
  <2> SUFFICES ASSUME IInv, NEW r \in Requests
               PROVE  {a.place : a \in {x \in address : x.by = r}} \in {{}, ask[r].list}
    BY DEF AddressesAreWhole
  <2>1. \A a \in address : a.by = r => a.place \in ask[r].list
    BY DEF IInv, Written, ListOf
  <2>2. ASSUME NEW a \in address, a.by = r, NEW p \in ask[r].list
        PROVE  \E b \in address : b.by = r /\ b.place = p
    <3>1. [user |-> ask[r].user, by |-> r, place |-> p] \in ListOf(a.by)
      BY <2>2 DEF ListOf
    <3> QED BY <2>2, <3>1 DEF IInv, Whole
  <2>3. CASE \A a \in address : a.by # r
    BY <2>3
  <2>4. CASE \E a \in address : a.by = r
    BY <2>1, <2>2, <2>4
  <2> QED BY <2>3, <2>4
<1> QED BY <1>1, Invariant, PTL

\* Two creations of one e-mail are never both answered.
THEOREM EmailsAreCreatedOnce == Spec => []EmailCreatedOnce
<1>1. IInv => EmailCreatedOnce
  <2> SUFFICES ASSUME IInv, NEW q \in Requests, NEW r \in Requests,
                      ask[q].kind = "create", ask[r].kind = "create",
                      pc[q] = "done", pc[r] = "done", EmailOf[q] = EmailOf[r]
               PROVE  q = r
    BY DEF EmailCreatedOnce
  <2> DEFINE x == [id |-> q, email |-> EmailOf[q]]
             y == [id |-> r, email |-> EmailOf[r]]
  <2>1. x \in users /\ y \in users
    BY DEF IInv, Created
  <2>2. x.email = y.email => x = y
    BY <2>1 DEF IInv, Created
  <2> QED BY <2>2
<1> QED BY <1>1, Invariant, PTL

\* A creation that was answered left the user and its addresses.
THEOREM CreationsAreComplete == Spec => []CreationIsComplete
<1>1. IInv => CreationIsComplete
  BY DEF IInv
<1> QED BY <1>1, Invariant, PTL

\* Only the commit of another request for the same user removes an address.
THEOREM AddressesGoByTheirUser == Spec => ReplacedByItsUser
<1>1. ASSUME IInv, [Next]_vars
      PROVE  [\A a \in address \ address' :
                 \E r \in Requests : /\ pc[r] = "commit" /\ pc'[r] # "commit"
                                     /\ ask[r].user = a.user /\ r # a.by]_vars
  <2> SUFFICES ASSUME NEW a \in address, a \notin address'
               PROVE  \E r \in Requests : /\ pc[r] = "commit" /\ pc'[r] # "commit"
                                          /\ ask[r].user = a.user /\ r # a.by
    OBVIOUS
  <2>1. PICK r \in Requests : pc[r] = "commit" /\ Replace(r) /\ (Commit(r) \/ Fail(r))
    BY <1>1 DEF Next, vars, Arrive, FindByEmail, Insert, FindById, FindMany,
                Save, Delete, Locking, DeleteRow, EndDelete, DetectDeadlock, Commit, Fail
  <2>2. a \in locked[r]
    BY <2>1 DEF Replace
  <2>3. a.user = ask[r].user /\ pc[a.by] \in {"save", "done", "failed"}
    BY <1>1, <2>2 DEF IInv, Ours, Taken, Written
  <2>4. pc'[r] # "commit"
    BY <1>1, <2>1 DEF Commit, Fail, Goto, IInv, TypeOK
  <2> QED BY <2>1, <2>3, <2>4
<1> QED BY <1>1, Invariant, PTL DEF Spec, ReplacedByItsUser

\* A replacement that was answered leaves no address that stood when its delete
\* began, in whatever order transactions take rows, end or are rolled back.
THEOREM WhatStoodIsGone == Spec => []StandingAddressesGo
<1>1. IInv => StandingAddressesGo
  BY DEF IInv, Ours, StandingAddressesGo
<1> QED BY <1>1, Invariant, PTL

-----------------------------------------------------------------------------
(* Transactions that meet, and progress *)

\* However replacements overlap, no two of them delete one row, and none a row
\* that is gone: upsertManyForUser as Postgres runs it.
THEOREM RowsAreDeletedOnce ==
    Spec => [](Apart /\ \A r \in Requests : locked[r] \subseteq address)
<1>1. IInv => Apart /\ \A r \in Requests : locked[r] \subseteq address
  BY DEF IInv, Ours
<1> QED BY <1>1, Invariant, PTL

\* Whoever waits for another waits for one that deletes its user's rows.
LEMMA WaitsWithinUser ==
    ASSUME IInv, NEW r \in Requests, NEW q \in Requests, WaitsFor(r, q)
    PROVE  ask[q].user = ask[r].user /\ pc[q] \in {"lock", "commit"}
<1>1. PICK a \in deletes[r] : a \in locked[q]
  BY DEF WaitsFor
<1>2. Ours(r) /\ Ours(q) /\ a \in Taken(r) /\ a \in Taken(q)
  BY <1>1 DEF IInv, Taken
<1> QED BY <1>1, <1>2 DEF Ours

\* Calls the database can answer at once.
Answerable(r) ==
    \/ pc[r] \in Awaiting \ {"lock"}
    \/ pc[r] = "lock" /\ (deletes[r] = {} \/ \E a \in deletes[r] : ~LockedByAnother(r, a))
    \/ \E S \in SUBSET Requests : r \in S /\ Deadlock(S)

\* A set of transactions each of which waits for others of the set, and for
\* nobody else, has a deadlock in it: the smallest such set is one.
LEMMA ClosedSetsDeadlock ==
    ASSUME NEW F \in SUBSET Requests, F # {},
           \A q \in F : \E p \in F : WaitsFor(q, p),
           \A q \in F, p \in Requests : WaitsFor(q, p) => p \in F
    PROVE  \E S \in SUBSET F : S # {} /\ Deadlock(S)
<1> DEFINE Closed(S) == /\ S # {}
                        /\ \A q \in S : \E p \in S : WaitsFor(q, p)
                        /\ \A q \in S, p \in Requests : WaitsFor(q, p) => p \in S
           Family == {S \in SUBSET F : Closed(S)}
           R == StrictSubsetOrdering(Requests)
<1>1. Family \subseteq FiniteSubsetsOf(Requests) /\ Family # {}
  <2>1. IsFiniteSet(Requests)
    BY DetailsAssumption
  <2>2. FiniteSubsetsOf(Requests) = SUBSET Requests
    BY <2>1, FS_FiniteSubsetsOfFinite
  <2>3. F \in Family
    OBVIOUS
  <2> QED BY <2>2, <2>3
<1>2. PICK S \in Family : \A T \in Family : <<T, S>> \notin R
  <2> HIDE DEF Family
  <2> QED BY <1>1, WFMin, FS_StrictSubsetOrderingWellFounded
<1>3. S \in SUBSET F /\ Closed(S)
  OBVIOUS
<1>4. ASSUME NEW T \in (SUBSET S) \ {{}, S}
      PROVE  \E q \in T, p \in S \ T : WaitsFor(q, p)
  <2> SUFFICES ASSUME \A q \in T, p \in S \ T : ~WaitsFor(q, p) PROVE FALSE
    OBVIOUS
  <2>1. \A q \in T, p \in Requests : WaitsFor(q, p) => p \in T
    BY <1>3
  <2>2. \A q \in T : \E p \in T : WaitsFor(q, p)
    BY <1>3
  <2>3. T \subseteq S /\ S \subseteq Requests /\ T # {} /\ T # S
    BY <1>3, <1>4
  <2>4. T \in Family
    BY <1>3, <2>1, <2>2, <2>3
  <2>5. <<T, S>> \in R
    <3> HIDE DEF Family
    <3>1. S \in SUBSET Requests /\ T \in SUBSET Requests
      BY <2>3
    <3> QED BY <2>3, <3>1 DEF StrictSubsetOrdering
  <2> QED BY <1>2, <2>4, <2>5
<1>5. Deadlock(S)
  BY <1>3, <1>4 DEF Deadlock
<1> QED BY <1>3, <1>5

\* A request in flight has a step to take, or one in flight for the same user
\* has: replacements may wait for each other, but then Postgres finds them.
THEOREM WaitsForOneThatGoesOn ==
    Spec => [](\A r \in Requests : pc[r] \in Awaiting =>
                  \/ Answerable(r)
                  \/ \E q \in Requests : Answerable(q) /\ ask[q].user = ask[r].user)
<1>1. ASSUME IInv, NEW r \in Requests, pc[r] \in Awaiting, ~Answerable(r),
             \A q \in Requests : Answerable(q) => ask[q].user # ask[r].user
      PROVE  FALSE
  <2> DEFINE F == {q \in Requests : pc[q] \in {"lock", "commit"}
                                      /\ ask[q].user = ask[r].user}
  <2>1. ASSUME NEW q \in F
        PROVE  pc[q] = "lock" /\ \E p \in Requests : WaitsFor(q, p)
    <3>1. ~Answerable(q) /\ pc[q] = "lock"
      BY <1>1, <2>1 DEF Answerable, Awaiting
    <3>2. PICK a \in deletes[q] : LockedByAnother(q, a)
      BY <3>1 DEF Answerable
    <3> QED BY <3>1, <3>2 DEF LockedByAnother, WaitsFor
  <2>2. \A q \in F, p \in Requests : WaitsFor(q, p) => p \in F
    BY <1>1, WaitsWithinUser
  <2>3. r \in F
    BY <1>1 DEF Answerable, Awaiting
  <2>4. PICK S \in SUBSET F : S # {} /\ Deadlock(S)
    <3> HIDE DEF F
    <3>1. F \in SUBSET Requests
      BY DEF F
    <3> QED BY <2>1, <2>2, <2>3, <3>1, ClosedSetsDeadlock
  <2>5. PICK q \in S : TRUE
    BY <2>4
  <2>6. Answerable(q) /\ q \in Requests /\ ask[q].user = ask[r].user
    BY <2>4, <2>5 DEF Answerable
  <2> QED BY <1>1, <2>6
<1>2. IInv => \A r \in Requests : pc[r] \in Awaiting =>
                 \/ Answerable(r)
                 \/ \E q \in Requests : Answerable(q) /\ ask[q].user = ask[r].user
  BY <1>1
<1> QED BY <1>2, Invariant, PTL

\* How many calls a request has before it at most.
Ahead(r) ==
    CASE pc[r] = "idle"                      -> 7
      [] pc[r] \in {"findByEmail", "findById"} -> 6
      [] pc[r] \in {"insert", "findMany"}    -> 5
      [] pc[r] = "delete" -> 4
      [] pc[r] = "lock"   -> 3
      [] pc[r] = "commit" -> 2
      [] pc[r] = "save"   -> 1
      [] OTHER -> 0

\* r is nearer its end: a call further, or a row further in its delete.
Nearer(r) == \/ Ahead(r)' < Ahead(r)
             \/ /\ Ahead(r)' = Ahead(r)
                /\ Cardinality(deletes[r])' < Cardinality(deletes[r])

LEMMA AddressesAreFinite == IsFiniteSet(Address)
<1> DEFINE pairs == (Requests \X Requests) \X Places
           f == [a \in Address |-> <<<<a.user, a.by>>, a.place>>]
<1>1. IsFiniteSet(pairs)
  BY FS_Product, DetailsAssumption
<1>2. f \in Injection(Address, pairs)
  <2>1. f \in [Address -> pairs]
    BY DEF Address
  <2>2. \A a, b \in Address : f[a] = f[b] => a = b
    BY DEF Address
  <2> QED BY <2>1, <2>2 DEF Injection, IsInjective
<1> QED BY <1>1, <1>2, FS_Injection

\* Every answer and every rejection takes a request nearer its end, and no
\* other request takes it back: with WaitsForOneThatGoesOn, what fairness needs
\* to settle it.
THEOREM DetailsAdvance ==
    Spec => [][\A r \in Requests : /\ Ahead(r) \in 0..7 /\ IsFiniteSet(deletes[r])
                                   /\ Steps(r) => Nearer(r)
                                   /\ Nearer(r) \/ UNCHANGED <<pc[r], deletes[r]>>]_vars
<1> DEFINE Advances(r) == /\ Ahead(r) \in 0..7 /\ IsFiniteSet(deletes[r])
                          /\ Steps(r) => Nearer(r)
                          /\ Nearer(r) \/ UNCHANGED <<pc[r], deletes[r]>>
<1>1. \A r \in Requests : Ahead(r) \in 0..7
  BY DEF Ahead
<1>2. ASSUME IInv, NEW r \in Requests PROVE IsFiniteSet(deletes[r])
  BY <1>2, AddressesAreFinite, FS_Subset DEF IInv, TypeOK
<1>3. ASSUME IInv, NEW r \in Requests, Steps(r) PROVE Nearer(r)
  <2>1. pc \in [Requests -> Labels] /\ deletes \in [Requests -> SUBSET Address]
    BY <1>3 DEF IInv, TypeOK, Labels
  <2>2. CASE Arrive(r)
    BY <2>1, <2>2 DEF Arrive, Goto, Ahead, Nearer
  <2>3. CASE FindByEmail(r) \/ Insert(r)
    BY <2>1, <2>3 DEF FindByEmail, Insert, Goto, Ahead, Nearer
  <2>4. CASE FindById(r)
    <3>1. pc[r] = "findById" /\ pc'[r] \in {"refused", "save", "findMany"}
      BY <2>1, <2>4 DEF FindById, Goto
    <3> QED BY <3>1 DEF Ahead, Nearer
  <2>5. CASE FindMany(r)
    <3>1. pc[r] = "findMany" /\ pc'[r] \in {"delete", "save"}
      BY <2>1, <2>5 DEF FindMany, Goto
    <3> QED BY <3>1 DEF Ahead, Nearer
  <2>6. CASE Save(r) \/ Delete(r) \/ EndDelete(r)
    BY <2>1, <2>6 DEF Save, Delete, EndDelete, Goto, Ahead, Nearer
  <2>7. ASSUME NEW a \in deletes[r], DeleteRow(r, a) PROVE Nearer(r)
    <3>1. deletes'[r] = deletes[r] \ {a} /\ pc'[r] = pc[r]
      BY <2>1, <2>7 DEF DeleteRow, Pass
    <3>2. IsFiniteSet(deletes[r])
      BY <1>2, <1>3
    <3>3. /\ Cardinality(deletes[r]) \in Nat
          /\ Cardinality(deletes[r] \ {a}) = Cardinality(deletes[r]) - 1
      BY <2>7, <3>2, FS_RemoveElement, FS_CardinalityType
    <3>4. Cardinality(deletes'[r]) < Cardinality(deletes[r])
      BY <3>1, <3>3
    <3> QED BY <3>1, <3>4 DEF Ahead, Nearer
  <2>8. CASE DetectDeadlock(r)
    <3>1. pc[r] = "lock" /\ pc'[r] = "failed"
      BY <2>1, <2>8 DEF DetectDeadlock, Deadlock, WaitsFor, Goto
    <3> QED BY <3>1 DEF Ahead, Nearer
  <2>9. CASE Commit(r)
    BY <2>1, <2>9 DEF Commit, Goto, Ahead, Nearer
  <2>10. CASE Fail(r)
    BY <2>1, <2>10 DEF Fail, Goto, Ahead, Awaiting, Nearer
  <2> QED BY <1>3, <2>2, <2>3, <2>4, <2>5, <2>6, <2>7, <2>8, <2>9, <2>10
          DEF Steps, Locking
<1>4. ASSUME IInv, [Next]_vars, NEW r \in Requests PROVE Advances(r)
  <2>1. CASE Steps(r)
    BY <1>1, <1>2, <1>3, <1>4, <2>1
  <2>2. ASSUME ~Steps(r) PROVE pc'[r] = pc[r] /\ deletes'[r] = deletes[r]
    <3>1. ASSUME NEW q \in Requests, Steps(q)
          PROVE  pc'[r] = pc[r] /\ deletes'[r] = deletes[r]
      BY <1>4, <2>2, <3>1, OneAtATime DEF IInv
    <3>2. CASE UNCHANGED vars
      BY <3>2 DEF vars
    <3>3. UNCHANGED vars \/ \E q \in Requests : Steps(q)
      BY <1>4 DEF Next, Steps
    <3> QED BY <3>1, <3>2, <3>3
  <2> QED BY <1>1, <1>2, <1>3, <1>4, <2>1, <2>2
<1>5. IInv /\ [Next]_vars => [\A r \in Requests : Advances(r)]_vars
  BY <1>4
<1> QED BY <1>5, Invariant, PTL DEF Spec
================================================================================
