------------------------ MODULE BitemporalHistoryProofs ------------------------
(* For any units, histories, sessions and instants: what the guards of a           *)
(* single-valued fact family keep true of its reconstructions.                    *)
EXTENDS MCWorkforceRules, WorkforceRulesProofs

\* What has been committed excludes itself.
Recorded ==
  /\ rows \subseteq Row
  /\ \A r, q \in rows : r # q => ~Clash(r, q)

\* What a transaction is about to commit is of the same kind, and fits the rows it
\* leaves and the rows it writes.
Pending(s) ==
  /\ \A c \in tx[s].changed :
       c[1] \in rows /\ c[2] \in Row /\ UpdatePermitted(c[1], c[2])
  /\ tx[s].new \subseteq Row
  /\ \A r \in New(s), q \in rows \ Old(s) : ~Clash(r, q)
  /\ \A r, q \in New(s) : r # q => ~Clash(r, q)

\* Two transactions touch different rows and write rows that fit each other.
Apart(s, t) ==
  /\ Old(s) \cap Old(t) = {}
  /\ \A r \in New(s), q \in New(t) : ~Clash(r, q)

Shaped ==
  tx \in [Sessions -> [open : BOOLEAN, changed : SUBSET (Row \X Row), new : SUBSET Row]]

IInv ==
  /\ Shaped
  /\ Recorded
  /\ \A s \in Sessions : Pending(s)
  /\ \A s, t \in Sessions : s # t => Apart(s, t)

------------------------------------------------------------------------------
\* A row excludes itself and exclusion is mutual.
LEMMA Exclusion ==
  ASSUME NEW r \in Row, NEW q \in Row
  PROVE  Clash(r, r) /\ (Clash(r, q) <=> Clash(q, r))
BY DEF Row, Clash, Overlaps

\* A row and what an UPDATE makes of it exclude each other and differ.
LEMMA Closing ==
  ASSUME NEW old \in Row, NEW new \in Row, UpdatePermitted(old, new)
  PROVE  /\ old # new /\ Clash(old, new)
         /\ old.until = Forever /\ new.until # Forever
         /\ new.unit = old.unit /\ new.from = old.from /\ new.to = old.to
         /\ new.since = old.since
<1>1. /\ old.until = Forever /\ new.until # Forever /\ new.until > old.since
      /\ [new EXCEPT !.until = old.until] = old
  BY DEF UpdatePermitted
<1>2. /\ new.unit = old.unit /\ new.from = old.from /\ new.to = old.to
      /\ new.since = old.since
  <2>1. /\ [new EXCEPT !.until = old.until].unit = new.unit
        /\ [new EXCEPT !.until = old.until].from = new.from
        /\ [new EXCEPT !.until = old.until].to = new.to
        /\ [new EXCEPT !.until = old.until].since = new.since
    BY DEF Row
  <2>2. QED BY <1>1, <2>1
<1>3. Clash(old, new)
  BY <1>1, <1>2, TimeAssumption, DayAssumption DEF Row, Clash, Overlaps
<1>4. QED BY <1>1, <1>2, <1>3

\* No row a transaction writes is one it has changed.
LEMMA NewIsNotOld ==
  ASSUME IInv, NEW s \in Sessions
  PROVE  /\ New(s) \cap Old(s) = {} /\ New(s) \subseteq Row /\ Old(s) \subseteq rows
         /\ \A r \in Old(s) : r.until = Forever
<1>1. Pending(s) /\ rows \subseteq Row BY DEF IInv, Recorded
<1>2. New(s) \subseteq Row /\ Old(s) \subseteq rows
  BY <1>1 DEF Pending, New, Old
<1>3. \A r \in Old(s) :
        r.until = Forever /\ \E q \in New(s) : r # q /\ Clash(r, q)
  <2> SUFFICES ASSUME NEW c \in tx[s].changed
               PROVE  c[1].until = Forever /\ c[1] # c[2] /\ Clash(c[1], c[2])
    BY DEF Old, New
  <2>1. c[1] \in Row /\ c[2] \in Row /\ UpdatePermitted(c[1], c[2])
    BY <1>1 DEF Pending
  <2>2. QED BY <2>1, Closing
<1>4. New(s) \cap Old(s) = {} BY <1>1, <1>3 DEF Pending
<1>5. QED BY <1>2, <1>3, <1>4

\* Before anything is recorded and while no transaction is open, nothing excludes anything.
LEMMA Starts == Init => IInv
<1> SUFFICES ASSUME Init PROVE IInv OBVIOUS
<1>1. /\ rows \in Histories
      /\ tx = [s \in Sessions |-> Idle]
  BY DEF Init
<1>2. Recorded
  BY <1>1, TimeAssumption, HistoryAssumption DEF Recorded
<1>3. \A s \in Sessions : Old(s) = {} /\ New(s) = {} /\ tx[s] = Idle
  BY <1>1 DEF Old, New, Idle
<1>4. Shaped BY <1>1 DEF Shaped, Idle
<1>5. QED BY <1>1, <1>2, <1>3, <1>4 DEF IInv, Pending, Apart, Idle

------------------------------------------------------------------------------
\* A transaction begins with nothing to record.
LEMMA BeginKeeps ==
  ASSUME IInv, NEW s \in Sessions, Begin(s)
  PROVE  IInv'
<1>1. /\ UNCHANGED rows /\ Shaped'
      /\ \A t \in Sessions : tx'[t].changed = tx[t].changed /\ tx'[t].new = tx[t].new
  BY DEF IInv, Shaped, Begin
<1>2. \A t \in Sessions : Old(t)' = Old(t) /\ New(t)' = New(t) BY <1>1 DEF Old, New
<1>3. QED BY <1>1, <1>2 DEF IInv, Recorded, Pending, Apart

\* A transaction that ends, either way, leaves nothing pending of its own.
LEMMA EndsIdle ==
  ASSUME IInv, NEW s \in Sessions, tx' = [tx EXCEPT ![s] = Idle]
  PROVE  /\ Shaped'
         /\ tx'[s].changed = {} /\ tx'[s].new = {} /\ Old(s)' = {} /\ New(s)' = {}
         /\ \A t \in Sessions \ {s} :
              tx'[t] = tx[t] /\ Old(t)' = Old(t) /\ New(t)' = New(t)
<1>1. Shaped' /\ tx'[s] = Idle /\ \A t \in Sessions \ {s} : tx'[t] = tx[t]
  BY DEF IInv, Shaped, Idle
<1>2. QED BY <1>1 DEF Idle, Old, New

\* What a transaction leaves behind when it rolls back was there before.
LEMMA AbortKeeps ==
  ASSUME IInv, NEW s \in Sessions, Abort(s)
  PROVE  IInv'
<1>1. UNCHANGED rows /\ tx' = [tx EXCEPT ![s] = Idle] BY DEF Abort
<1>2. Recorded' BY <1>1 DEF IInv, Recorded
<1>3. \A t \in Sessions : Pending(t)'
  <2> TAKE t \in Sessions
  <2>1. CASE t = s BY <1>1, <2>1, EndsIdle DEF Pending
  <2>2. CASE t # s BY <1>1, <2>2, EndsIdle DEF IInv, Pending
  <2>3. QED BY <2>1, <2>2
<1>4. \A t, u \in Sessions : t # u => Apart(t, u)'
  <2> SUFFICES ASSUME NEW t \in Sessions, NEW u \in Sessions, t # u PROVE Apart(t, u)'
    OBVIOUS
  <2>1. CASE t = s \/ u = s BY <1>1, <2>1, EndsIdle DEF Apart
  <2>2. CASE t # s /\ u # s
    <3>1. Apart(t, u) BY DEF IInv
    <3>2. QED BY <1>1, <2>2, <3>1, EndsIdle DEF Apart
  <2>3. QED BY <2>1, <2>2
<1>5. QED BY <1>1, <1>2, <1>3, <1>4, EndsIdle DEF IInv

\* A commit records what was already apart from all else.
LEMMA CommitKeeps ==
  ASSUME IInv, NEW s \in Sessions, Commit(s)
  PROVE  IInv'
<1>1. rows' = After(s) /\ tx' = [tx EXCEPT ![s] = Idle] BY DEF Commit
<1>2. Recorded /\ Pending(s) BY DEF IInv
<1>3. Recorded'
  <2>1. rows' \subseteq Row BY <1>1, <1>2, NewIsNotOld DEF After, Recorded
  <2>2. \A r, q \in rows' : r # q => ~Clash(r, q)
    BY <1>1, <1>2, <2>1, Exclusion DEF After, Recorded, Pending
  <2>3. QED BY <2>1, <2>2 DEF Recorded
<1>4. \A t \in Sessions : Pending(t)'
  <2> TAKE t \in Sessions
  <2>1. CASE t = s BY <2>1, <1>1, EndsIdle DEF Pending
  <2>2. CASE t # s
    <3>1. Pending(t) /\ Apart(t, s) BY <2>2 DEF IInv
    <3>2. /\ tx'[t] = tx[t] /\ Old(t)' = Old(t) /\ New(t)' = New(t)
      BY <1>1, <2>2, EndsIdle
    <3>3. \A c \in tx[t].changed : c[1] \in rows'
      BY <1>1, <3>1 DEF Pending, Apart, After, Old
    <3>4. \A r \in New(t), q \in rows' \ Old(t) : ~Clash(r, q)
      BY <1>1, <3>1 DEF Pending, Apart, After
    <3>5. QED BY <1>1, <3>1, <3>2, <3>3, <3>4 DEF Pending
  <2>3. QED BY <2>1, <2>2
<1>5. \A t, u \in Sessions : t # u => Apart(t, u)'
  <2> SUFFICES ASSUME NEW t \in Sessions, NEW u \in Sessions, t # u PROVE Apart(t, u)'
    OBVIOUS
  <2>1. CASE t = s \/ u = s BY <1>1, <2>1, EndsIdle DEF Apart
  <2>2. CASE t # s /\ u # s
    <3>1. Apart(t, u) BY DEF IInv
    <3>2. QED BY <1>1, <2>2, <3>1, EndsIdle DEF Apart
  <2>3. QED BY <2>1, <2>2
<1>6. QED BY <1>1, <1>3, <1>4, <1>5, EndsIdle DEF IInv

\* A statement that adds one row, and perhaps changes another, keeps it all.
LEMMA StatementKeeps ==
  ASSUME IInv, NEW s \in Sessions, NEW r \in Row, Unopposed(s, r),
         UNCHANGED rows, Shaped',
         NEW old \in SUBSET (rows \ Old(s)),
         \A t \in Sessions \ {s} : old \cap Old(t) = {},
         \A q \in After(s) \ old : ~Clash(q, r),
         \A t \in Sessions \ {s} : tx'[t] = tx[t],
         New(s)' = New(s) \cup {r}, Old(s)' = Old(s) \cup old,
         \A c \in tx'[s].changed : c \in tx[s].changed \/
           (c[1] \in old /\ c[2] = r /\ UpdatePermitted(c[1], r)),
         \A q \in tx'[s].new : q \in tx[s].new \/ q = r
  PROVE  IInv'
<1>1. \A t \in Sessions \ {s} : Old(t)' = Old(t) /\ New(t)' = New(t) BY DEF Old, New
<1>2. Recorded' BY DEF IInv, Recorded
<1>3. Pending(s)'
  <2>1. Pending(s) /\ rows \subseteq Row BY DEF IInv, Recorded
  <2>2. \A q \in New(s) : q \notin old
    <3>1. \A q \in New(s), p \in rows \ Old(s) : ~Clash(q, p) BY <2>1 DEF Pending
    <3>2. \A q \in New(s) : Clash(q, q) BY NewIsNotOld, Exclusion
    <3>3. QED BY <3>1, <3>2
  <2>3. \A q \in New(s) : q # r => ~Clash(q, r) /\ ~Clash(r, q)
    BY <2>2, NewIsNotOld, Exclusion DEF After
  <2>4. \A q \in rows \ (Old(s) \cup old) : ~Clash(r, q)
    BY <2>1, Exclusion DEF After
  <2>5. /\ \A c \in tx'[s].changed :
             c[1] \in rows' /\ c[2] \in Row /\ UpdatePermitted(c[1], c[2])
        /\ tx'[s].new \subseteq Row
    BY <2>1 DEF Pending
  <2>6. \A p \in New(s)', q \in rows' \ Old(s)' : ~Clash(p, q)
    BY <2>1, <2>4 DEF Pending
  <2>7. \A p, q \in New(s)' : p # q => ~Clash(p, q) BY <2>1, <2>3 DEF Pending
  <2>8. QED BY <2>5, <2>6, <2>7 DEF Pending
<1>4. \A t \in Sessions \ {s} : Pending(t)' BY <1>1 DEF IInv, Pending
<1>5. \A t \in Sessions \ {s} : Apart(s, t)' /\ Apart(t, s)'
  <2> TAKE t \in Sessions \ {s}
  <2>1. Apart(s, t) /\ Apart(t, s) BY DEF IInv
  <2>2. \A q \in New(t) : ~Clash(q, r) /\ ~Clash(r, q)
    BY NewIsNotOld, Exclusion DEF Unopposed
  <2>3. QED BY <1>1, <2>1, <2>2 DEF Apart
<1>6. \A t, u \in Sessions \ {s} : t # u => Apart(t, u)' BY <1>1 DEF IInv, Apart
<1>7. QED BY <1>2, <1>3, <1>4, <1>5, <1>6 DEF IInv

\* A permitted UPDATE closes or keeps a version, and locks it against the others.
LEMMA ChangeKeeps ==
  ASSUME IInv, NEW s \in Sessions, NEW old \in rows, NEW new \in Row, Change(s, old, new)
  PROVE  IInv'
<1>1. /\ UNCHANGED rows
      /\ \A t \in Sessions \ {s} : tx'[t] = tx[t]
      /\ old \in rows \ Old(s) /\ UpdatePermitted(old, new)
      /\ \A t \in Sessions \ {s} : {old} \cap Old(t) = {}
      /\ \A q \in After(s) \ {old} : ~Clash(q, new)
      /\ Unopposed(s, new)
  BY DEF IInv, Shaped, Change
<1>2. /\ tx'[s].changed = tx[s].changed \cup {<<old, new>>}
      /\ tx'[s].new = tx[s].new
      /\ Shaped'
  <2>1. tx[s] \in [open : BOOLEAN, changed : SUBSET (Row \X Row), new : SUBSET Row]
    BY DEF IInv, Shaped
  <2>2. tx' = [tx EXCEPT ![s] = [tx[s] EXCEPT !.changed = tx[s].changed \cup {<<old, new>>}]]
    BY DEF Change
  <2>3. old \in Row BY DEF IInv, Recorded
  <2>4. QED BY <2>1, <2>2, <2>3 DEF IInv, Shaped
<1>3. New(s)' = New(s) \cup {new} /\ Old(s)' = Old(s) \cup {old}
  <2>1. <<old, new>>[1] = old /\ <<old, new>>[2] = new OBVIOUS
  <2>2. {c[2] : c \in tx'[s].changed} = {c[2] : c \in tx[s].changed} \cup {new}
    BY <1>2, <2>1, Zenon
  <2>3. {c[1] : c \in tx'[s].changed} = {c[1] : c \in tx[s].changed} \cup {old}
    BY <1>2, <2>1, Zenon
  <2>4. QED BY <1>2, <2>2, <2>3 DEF New, Old
<1>4. \A c \in tx'[s].changed : c \in tx[s].changed \/
        (c[1] \in {old} /\ c[2] = new /\ UpdatePermitted(c[1], new))
  BY <1>1, <1>2
<1>5. \A q \in tx'[s].new : q \in tx[s].new \/ q = new BY <1>2
<1>6. {old} \in SUBSET (rows \ Old(s)) BY <1>1
<1>7. QED BY <1>1, <1>2, <1>3, <1>4, <1>5, <1>6, StatementKeeps

\* The exclusion constraint keeps an inserted version apart from what is visible and pending.
LEMMA InsertKeeps ==
  ASSUME IInv, NEW s \in Sessions, NEW r \in Row, Insert(s, r)
  PROVE  IInv'
<1>1. /\ UNCHANGED rows
      /\ Shaped'
      /\ \A t \in Sessions \ {s} : tx'[t] = tx[t]
      /\ \A q \in After(s) \ {} : ~Clash(q, r)
      /\ Unopposed(s, r)
  BY DEF IInv, Shaped, Insert
<1>2. tx'[s].changed = tx[s].changed /\ tx'[s].new = tx[s].new \cup {r}
  BY DEF IInv, Shaped, Insert
<1>3. New(s)' = New(s) \cup {r} /\ Old(s)' = Old(s) \cup {} BY <1>2 DEF New, Old
<1>4. {} \in SUBSET (rows \ Old(s)) /\ \A t \in Sessions \ {s} : {} \cap Old(t) = {}
  OBVIOUS
<1>5. QED BY <1>1, <1>2, <1>3, <1>4, StatementKeeps

\* IInv is inductive.
LEMMA Keeps == IInv /\ [Next]_vars => IInv'
<1> SUFFICES ASSUME IInv, [Next]_vars PROVE IInv' OBVIOUS
<1>1. CASE \E s \in Sessions : Begin(s) BY <1>1, BeginKeeps
<1>2. CASE \E s \in Sessions : Commit(s) BY <1>2, CommitKeeps
<1>3. CASE \E s \in Sessions : Abort(s) BY <1>3, AbortKeeps
<1>4. CASE \E s \in Sessions : \E old \in rows, new \in Row : Change(s, old, new)
  BY <1>4, ChangeKeeps
<1>5. CASE \E s \in Sessions : \E r \in Row : Insert(s, r) BY <1>5, InsertKeeps
<1>6. CASE UNCHANGED vars
  <2>1. UNCHANGED <<rows, tx>> BY <1>6 DEF vars
  <2>2. \A s \in Sessions : Old(s)' = Old(s) /\ New(s)' = New(s) BY <2>1 DEF Old, New
  <2>3. QED BY <2>1, <2>2 DEF IInv, Shaped, Recorded, Pending, Apart
<1>7. QED BY <1>1, <1>2, <1>3, <1>4, <1>5, <1>6 DEF Next

\* What is recorded, and what every open transaction would record, excludes itself.
THEOREM Inductive == Spec => []IInv
<1>1. Init => IInv BY Starts
<1>2. IInv /\ [Next]_vars => IInv' BY Keeps
<1>3. QED BY <1>1, <1>2, PTL DEF Spec

------------------------------------------------------------------------------
\* No coordinate of effective and knowledge time has two versions of a unit.
THEOREM OneVersion == Spec => []OneVersionPerCoordinate
<1>1. IInv => OneVersionPerCoordinate
  <2> SUFFICES ASSUME IInv, NEW day \in Days, NEW known \in Times,
                      NEW r \in Resolve(day, known), NEW q \in Resolve(day, known),
                      r.unit = q.unit
               PROVE  r = q
    BY DEF OneVersionPerCoordinate
  <2>1. /\ r \in rows /\ q \in rows /\ r \in Row /\ q \in Row
        /\ Contains(r, day) /\ Contains(q, day) /\ KnownAt(r, known) /\ KnownAt(q, known)
    BY DEF IInv, Recorded, Resolve
  <2>2. /\ \A x \in Row : /\ x.from \in Nat /\ x.to \in Nat
                          /\ x.since \in Nat /\ x.until \in Nat
        /\ day \in Nat /\ known \in Nat
    BY TimeAssumption, DayAssumption DEF Row
  <2>3. /\ r.from \in Int /\ r.to \in Int /\ q.from \in Int /\ q.to \in Int
        /\ r.since \in Int /\ r.until \in Int /\ q.since \in Int /\ q.until \in Int
        /\ day \in Int /\ known \in Int
    BY <2>1, <2>2
  <2>4. Clash(r, q) BY <2>1, <2>3 DEF Clash, Overlaps, Contains, KnownAt
  <2>5. QED BY <2>1, <2>4 DEF IInv, Recorded
<1>2. QED BY <1>1, Inductive, PTL

\* The action of EarlierKnowledgeStands, and the rows a reconstruction picks.
Names(s, known) ==
  \/ \E c \in tx[s].changed : c[2].until <= known
  \/ \E r \in tx[s].new : r.since <= known

Stands ==
  \A day \in Days, known \in Times :
    Shown(day, known)' # Shown(day, known) => \E s \in Sessions : Names(s, known)

Picks(found, day, known) == {r \in found : Contains(r, day) /\ KnownAt(r, known)}

\* A commit changes what is known at a cutoff only by rows that name an instant up to
\* the cutoff.
THEOREM EarlierStands == Spec => EarlierKnowledgeStands
<1>1. ASSUME IInv, NEW s \in Sessions, Commit(s) PROVE Stands
  <2> SUFFICES ASSUME NEW day \in Days, NEW known \in Times, ~Names(s, known)
               PROVE  Shown(day, known)' = Shown(day, known)
    BY DEF Stands
  <2>1. Pending(s) /\ rows \subseteq Row /\ rows' = After(s)
    BY <1>1 DEF IInv, Recorded, Commit
  <2>2. ASSUME NEW c \in tx[s].changed
        PROVE  /\ c[1] \in rows /\ c[1].until = Forever
               /\ [c[1] EXCEPT !.until = Forever] = [c[2] EXCEPT !.until = Forever]
               /\ Contains(c[1], day) <=> Contains(c[2], day)
               /\ KnownAt(c[1], known) <=> KnownAt(c[2], known)
    <3>1. c[1] \in rows /\ c[1] \in Row /\ c[2] \in Row /\ UpdatePermitted(c[1], c[2])
      BY <2>1 DEF Pending
    <3>2. /\ c[1].until = Forever /\ c[2].until # Forever /\ ~(c[2].until <= known)
          /\ c[2].from = c[1].from /\ c[2].to = c[1].to /\ c[2].since = c[1].since
      <4>1. ~(c[2].until <= known) BY DEF Names
      <4>2. QED BY <3>1, <4>1, Closing
    <3>3. c[2].until \in Times /\ known \in Nat /\ c[2].until \in Nat /\ known < Forever
      BY <3>1, <3>2, TimeAssumption DEF Row
    <3>4. [c[2] EXCEPT !.until = Forever] = c[1]
      BY <3>1, <3>2 DEF UpdatePermitted
    <3>5. [c[1] EXCEPT !.until = Forever] = c[1] BY <3>1, <3>2 DEF Row
    <3>6. QED BY <3>1, <3>2, <3>3, <3>4, <3>5 DEF Contains, KnownAt
  <2>3. \A r \in tx[s].new : ~KnownAt(r, known)
    <3> TAKE r \in tx[s].new
    <3>1. r \in Row /\ ~(r.since <= known) BY <2>1 DEF Pending, Names
    <3>2. QED BY <3>1, TimeAssumption DEF Row, KnownAt
  <2>4. \A r \in Picks(rows, day, known) : \E q \in Picks(rows', day, known) :
          [r EXCEPT !.until = Forever] = [q EXCEPT !.until = Forever]
    <3> TAKE r \in Picks(rows, day, known)
    <3>1. CASE r \in Old(s)
      <4>1. PICK c \in tx[s].changed : r = c[1] BY <3>1 DEF Old
      <4>2. c[2] \in rows' BY <2>1 DEF After, New
      <4>3. QED BY <2>2, <4>1, <4>2 DEF Picks
    <3>2. CASE r \notin Old(s) BY <2>1, <3>2 DEF After, Picks
    <3>3. QED BY <3>1, <3>2
  <2>5. \A q \in Picks(rows', day, known) : \E r \in Picks(rows, day, known) :
          [r EXCEPT !.until = Forever] = [q EXCEPT !.until = Forever]
    <3> TAKE q \in Picks(rows', day, known)
    <3>1. q \in rows \/ q \in tx[s].new \/ \E c \in tx[s].changed : q = c[2]
      BY <2>1 DEF After, New, Picks
    <3>2. QED BY <2>2, <2>3, <3>1 DEF Picks
  <2>6. /\ Shown(day, known) = {[r EXCEPT !.until = Forever] : r \in Picks(rows, day, known)}
        /\ Shown(day, known)' = {[r EXCEPT !.until = Forever] : r \in Picks(rows', day, known)}
    BY DEF Shown, Resolve, Picks, Contains, KnownAt
  <2>7. /\ Shown(day, known) \subseteq Shown(day, known)'
        /\ Shown(day, known)' \subseteq Shown(day, known)
    BY <2>4, <2>5, <2>6
  <2>8. QED BY <2>7
<1>2. ASSUME rows' = rows PROVE Stands
  BY <1>2 DEF Stands, Shown, Resolve, Contains, KnownAt
<1>3. IInv /\ [Next]_vars => [Stands]_vars
  <2> SUFFICES ASSUME IInv, [Next]_vars PROVE Stands OBVIOUS
  <2>1. (\E s \in Sessions : Commit(s)) \/ rows' = rows
    BY DEF Next, vars, Begin, Abort, Change, Insert
  <2>2. QED BY <1>1, <1>2, <2>1
<1>4. QED BY <1>3, Inductive, PTL DEF Spec, EarlierKnowledgeStands, Stands, Names

------------------------------------------------------------------------------
(* The walks of validate_organization_hierarchy *)

\* A chart of units, and the step of a walk from one unit to its parent.
IsChart(parents) ==
  /\ DOMAIN parents \subseteq Units
  /\ \A u \in DOMAIN parents : parents[u] \in Units \cup {NoParent}

Above(parents, u) == IF u \in DOMAIN parents THEN parents[u] ELSE NoParent

\* The walk up to its n-th step.
Walked(visited, parents, start, n) ==
  visited = [k \in 0..n |-> IF k = 0 THEN start ELSE Above(parents, visited[k - 1])]

\* A reconstruction at any coordinate of committed rows is a chart.
LEMMA ParentsChart ==
  ASSUME IInv, NEW day \in Days, NEW known \in Times
  PROVE  IsChart(Parents(day, known))
<1> DEFINE found == Resolve(day, known)
<1>1. \A r \in found : r.unit \in Units /\ r.parent \in Units \cup {NoParent}
  BY DEF IInv, Recorded, Resolve, Row
<1>2. Parents(day, known)
        = [u \in {r.unit : r \in found} |-> (CHOOSE r \in found : r.unit = u).parent]
  BY DEF Parents
<1> HIDE DEF found
<1>3. ASSUME NEW u \in {r.unit : r \in found}
      PROVE  (CHOOSE r \in found : r.unit = u) \in found
  <2>1. \E r \in found : r.unit = u
    BY <1>3
  <2>2. QED
    BY <2>1
<1>4. QED
  BY <1>1, <1>2, <1>3 DEF IsChart

\* A walk of any length is defined: a shortest one that is not could be extended.
LEMMA WalkIsWalked ==
  ASSUME NEW parents, NEW start
  PROVE  Walked(Walk(parents, start), parents, start, Cardinality(Units))
<1> DEFINE bad == {n \in Nat : ~\E visited : Walked(visited, parents, start, n)}
<1>1. bad = {}
  <2> SUFFICES ASSUME bad # {} PROVE FALSE
    OBVIOUS
  <2>1. PICK n \in bad : \A k \in bad : n <= k
    <3> HIDE DEF bad
    <3>1. bad \subseteq Nat
      BY DEF bad
    <3>2. QED
      BY <3>1, SmallestNumber
  <2>2. n \in Nat /\ ~\E visited : Walked(visited, parents, start, n)
    BY <2>1
  <2>3. n # 0
    <3>1. Walked([k \in 0..0 |-> start], parents, start, 0)
      BY DEF Walked
    <3>2. QED
      BY <2>2, <3>1
  <2>4. PICK visited : Walked(visited, parents, start, n - 1)
    <3>1. n - 1 \in Nat /\ ~(n <= n - 1)
      BY <2>2, <2>3
    <3>2. n - 1 \notin bad
      BY <2>1, <3>1
    <3>3. QED
      BY <3>1, <3>2
  <2> DEFINE longer == [k \in 0..n |-> IF k = n THEN Above(parents, visited[n - 1]) ELSE visited[k]]
  <2>5. \A k \in 0..n : longer[k] = IF k = 0 THEN start ELSE Above(parents, longer[k - 1])
    BY <2>2, <2>3, <2>4 DEF Walked
  <2>6. Walked(longer, parents, start, n)
    <3>1. longer = [k \in 0..n |-> longer[k]]
      OBVIOUS
    <3> HIDE DEF longer
    <3>2. QED
      BY <2>5, <3>1 DEF Walked
  <2>7. QED
    BY <2>2, <2>6
<1>2. Cardinality(Units) \in Nat
  BY UnitAssumption, FS_CardinalityType
<1>3. \E visited : Walked(visited, parents, start, Cardinality(Units))
  BY <1>1, <1>2
<1>4. Walk(parents, start) = CHOOSE visited : Walked(visited, parents, start, Cardinality(Units))
  BY DEF Walk, Walked, Above
<1>5. QED
  BY <1>3, <1>4

\* Where a walk starts, goes, and stays when it has left the chart.
LEMMA WalkSteps ==
  ASSUME NEW parents, IsChart(parents), NEW start \in Units
  PROVE  /\ Cardinality(Units) \in Nat
         /\ Walk(parents, start)[0] = start
         /\ \A n \in 1..Cardinality(Units) :
              Walk(parents, start)[n] = Above(parents, Walk(parents, start)[n - 1])
         /\ \A u : Above(parents, u) \in Units \cup {NoParent}
         /\ \A u : Above(parents, u) # NoParent => u \in DOMAIN parents
<1>1. Cardinality(Units) \in Nat
  BY UnitAssumption, FS_CardinalityType
<1>2. Walked(Walk(parents, start), parents, start, Cardinality(Units))
  BY WalkIsWalked
<1>3. \A n \in 0..Cardinality(Units) :
        Walk(parents, start)[n] = IF n = 0 THEN start ELSE Above(parents, Walk(parents, start)[n - 1])
  BY <1>2 DEF Walked
<1>4. QED
  BY <1>1, <1>3 DEF IsChart, Above

\* A walk that is still at a unit has come from units of the chart.
LEMMA WalkBehind ==
  ASSUME NEW parents, IsChart(parents), NEW start \in Units,
         NEW n \in 0..Cardinality(Units), Walk(parents, start)[n] # NoParent
  PROVE  /\ Walk(parents, start)[n] \in Units
         /\ \A m \in 0..n - 1 : Walk(parents, start)[m] \in DOMAIN parents
<1> DEFINE W == Walk(parents, start)
           bad == {k \in 0..n : W[n - k] \notin Units \/ (k > 0 /\ W[n - k] \notin DOMAIN parents)}
<1>1. Cardinality(Units) \in Nat /\ n \in Nat
  BY WalkSteps
<1>2. bad = {}
  <2> SUFFICES ASSUME bad # {} PROVE FALSE
    OBVIOUS
  <2>1. PICK k \in bad : \A j \in bad : k <= j
    <3>1. bad \subseteq Nat
      BY <1>1
    <3> HIDE DEF bad
    <3>2. QED
      BY <3>1, SmallestNumber
  <2>2. k \in 0..n /\ (W[n - k] \notin Units \/ (k > 0 /\ W[n - k] \notin DOMAIN parents))
    BY <2>1
  <2>3. k \in Nat /\ n - k \in 0..n
    BY <1>1, <2>2
  <2>4. W[n - k] # NoParent
    <3>1. CASE k = 0
      BY <1>1, <3>1
    <3>2. CASE k > 0
      <4>1. k - 1 \in 0..n /\ ~(k <= k - 1) /\ n - (k - 1) = n - k + 1 /\ n - (k - 1) \in 1..n
        BY <1>1, <2>2, <2>3, <3>2
      <4>2. W[n - (k - 1)] # NoParent
        <5>1. W[n - (k - 1)] \in Units
          BY <2>1, <4>1
        <5>2. QED
          BY <5>1, UnitAssumption
      <4>3. n - (k - 1) \in 1..Cardinality(Units) /\ n - (k - 1) - 1 = n - k
        BY <1>1, <4>1
      <4>4. W[n - (k - 1)] = Above(parents, W[n - k])
        BY <4>3, WalkSteps
      <4>5. W[n - k] \in DOMAIN parents
        BY <4>2, <4>4, WalkSteps
      <4>6. QED
        BY <4>5, UnitAssumption DEF IsChart
    <3>3. QED
      BY <2>3, <3>1, <3>2
  <2>5. W[n - k] \in Units
    <3>1. CASE n - k = 0
      BY <3>1, WalkSteps
    <3>2. CASE n - k # 0
      <4>1. n - k \in 1..Cardinality(Units)
        BY <1>1, <2>2, <2>3, <3>2
      <4>2. W[n - k] = Above(parents, W[n - k - 1])
        BY <4>1, WalkSteps
      <4>3. QED
        BY <2>4, <4>2, WalkSteps
    <3>3. QED
      BY <3>1, <3>2
  <2>6. k > 0 => W[n - k] \in DOMAIN parents
    <3> SUFFICES ASSUME k > 0 PROVE W[n - k] \in DOMAIN parents
      OBVIOUS
    <3>1. k - 1 \in 0..n /\ ~(k <= k - 1) /\ n - (k - 1) \in 1..Cardinality(Units)
          /\ n - (k - 1) - 1 = n - k
      BY <1>1, <2>2, <2>3
    <3>2. W[n - (k - 1)] \in Units
      BY <2>1, <3>1
    <3>3. W[n - (k - 1)] = Above(parents, W[n - k])
      BY <3>1, WalkSteps
    <3>4. QED
      BY <3>2, <3>3, UnitAssumption, WalkSteps
  <2>7. QED
    BY <2>2, <2>5, <2>6
<1>3. \A k \in 0..n : W[n - k] \in Units /\ (k > 0 => W[n - k] \in DOMAIN parents)
  BY <1>2
<1> HIDE DEF bad
<1>4. W[n] \in Units
  <2>1. 0 \in 0..n /\ n - 0 = n
    BY <1>1
  <2>2. W[n - 0] \in Units
    BY <1>3, <2>1
  <2>3. QED
    BY <2>1, <2>2
<1>5. ASSUME NEW m \in 0..n - 1
      PROVE  W[m] \in DOMAIN parents
  <2>1. n - m \in 0..n /\ n - m > 0 /\ n - (n - m) = m
    BY <1>1
  <2>2. W[n - (n - m)] \in DOMAIN parents
    BY <1>3, <2>1
  <2>3. QED
    BY <2>1, <2>2
<1>6. QED
  BY <1>4, <1>5

\* Every step of a walk inside a ranked chart goes to a lower rank.
LEMMA RankFalls ==
  ASSUME NEW parents, IsChart(parents), NEW start \in Units,
         NEW rank \in [Units -> Int],
         \A u \in DOMAIN parents : parents[u] \in DOMAIN parents => rank[parents[u]] < rank[u],
         NEW n \in 0..Cardinality(Units), Walk(parents, start)[n] \in DOMAIN parents
  PROVE  \A m \in 0..n - 1 : rank[Walk(parents, start)[n]] < rank[Walk(parents, start)[m]]
<1> DEFINE W == Walk(parents, start)
           bad == {k \in 1..n : ~(rank[W[n]] < rank[W[n - k]])}
<1>1. Cardinality(Units) \in Nat /\ n \in Nat /\ W[n] # NoParent
  BY WalkSteps, UnitAssumption DEF IsChart
<1>2. \A m \in 0..n : W[m] \in DOMAIN parents /\ rank[W[m]] \in Int
  <2>1. \A m \in 0..n - 1 : W[m] \in DOMAIN parents
    BY <1>1, WalkBehind
  <2>2. \A m \in 0..n : W[m] \in DOMAIN parents
    BY <1>1, <2>1
  <2>3. QED
    BY <2>2 DEF IsChart
<1>3. \A m \in 1..n : rank[W[m]] < rank[W[m - 1]]
  <2> TAKE m \in 1..n
  <2>1. m \in 1..Cardinality(Units) /\ m \in 0..n /\ m - 1 \in 0..n
    BY <1>1
  <2>2. W[m] = Above(parents, W[m - 1])
    BY <2>1, WalkSteps
  <2>3. W[m] = parents[W[m - 1]] /\ W[m - 1] \in DOMAIN parents
    BY <1>2, <2>1, <2>2 DEF Above
  <2>4. QED
    BY <1>2, <2>1, <2>3
<1>4. bad = {}
  <2> SUFFICES ASSUME bad # {} PROVE FALSE
    OBVIOUS
  <2>1. PICK k \in bad : \A j \in bad : k <= j
    <3>1. bad \subseteq Nat
      BY <1>1
    <3> HIDE DEF bad
    <3>2. QED
      BY <3>1, SmallestNumber
  <2>2. k \in 1..n /\ ~(rank[W[n]] < rank[W[n - k]]) /\ k \in Nat
    BY <1>1, <2>1
  <2>3. n - k + 1 \in 1..n /\ (n - k + 1) - 1 = n - k /\ n - k \in 0..n
    BY <1>1, <2>2
  <2>4. rank[W[n - k + 1]] < rank[W[n - k]]
    BY <1>3, <2>3
  <2>5. rank[W[n]] \in Int /\ rank[W[n - k]] \in Int /\ rank[W[n - k + 1]] \in Int
    <3>1. n \in 0..n /\ n - k + 1 \in 0..n
      BY <1>1, <2>3
    <3>2. QED
      BY <1>2, <2>3, <3>1
  <2>6. CASE k = 1
    <3>1. n - k + 1 = n
      BY <1>1, <2>6
    <3>2. QED
      BY <2>2, <2>4, <3>1
  <2>7. CASE k # 1
    <3>1. k - 1 \in 1..n /\ ~(k <= k - 1) /\ n - (k - 1) = n - k + 1
      BY <1>1, <2>2, <2>7
    <3>2. rank[W[n]] < rank[W[n - (k - 1)]]
      BY <2>1, <3>1
    <3>3. rank[W[n]] < rank[W[n - k + 1]]
      BY <3>1, <3>2
    <3> HIDE DEF bad, W
    <3>4. QED
      BY <2>2, <2>4, <2>5, <3>3
  <2>8. QED
    BY <2>6, <2>7
<1>5. \A k \in 1..n : rank[W[n]] < rank[W[n - k]]
  BY <1>4
<1> HIDE DEF bad
<1>6. ASSUME NEW m \in 0..n - 1
      PROVE  rank[W[n]] < rank[W[m]]
  <2>1. n - m \in 1..n /\ n - (n - m) = m
    BY <1>1
  <2>2. rank[W[n]] < rank[W[n - (n - m)]]
    BY <1>5, <2>1
  <2>3. QED
    BY <2>1, <2>2
<1>7. QED
  BY <1>6

\* A ranked chart is not refused: no walk comes back to where its rank was higher.
LEMMA RankedIsPermitted ==
  ASSUME NEW parents, IsChart(parents), NEW rank \in [Units -> 1..Cardinality(Units)],
         \A u \in DOMAIN parents : parents[u] \in DOMAIN parents => rank[parents[u]] < rank[u]
  PROVE  HierarchyPermitted(parents)
<1> SUFFICES ASSUME NEW start \in DOMAIN parents,
                    NEW m \in 0..Cardinality(Units), NEW n \in 0..Cardinality(Units),
                    m < n, Walk(parents, start)[n] # NoParent,
                    Walk(parents, start)[m] = Walk(parents, start)[n]
             PROVE  FALSE
  BY DEF HierarchyPermitted
<1>1. start \in Units /\ rank \in [Units -> Int] /\ m \in 0..n - 1
  BY DEF IsChart
<1>2. Walk(parents, start)[m] \in DOMAIN parents
  BY <1>1, WalkBehind
<1>3. rank[Walk(parents, start)[n]] < rank[Walk(parents, start)[m]]
  BY <1>1, <1>2, RankFalls
<1>4. rank[Walk(parents, start)[n]] \in Int
  BY <1>1, <1>2 DEF IsChart
<1>5. QED
  BY <1>3, <1>4

\* In a chart that is not refused every walk leaves the chart: there are not units
\* enough for a walk that does not.
LEMMA PermittedWalkEnds ==
  ASSUME NEW parents, IsChart(parents), HierarchyPermitted(parents), NEW start \in DOMAIN parents
  PROVE  \E n \in 0..Cardinality(Units) : Walk(parents, start)[n] = NoParent
<1> DEFINE N == Cardinality(Units)
           W == Walk(parents, start)
           f == [n \in 0..N |-> W[n]]
<1>1. start \in Units /\ N \in Nat /\ IsFiniteSet(Units)
  BY WalkSteps, UnitAssumption DEF IsChart
<1> SUFFICES ASSUME \A n \in 0..N : W[n] # NoParent PROVE FALSE
  OBVIOUS
<1>2. f \in [0..N -> Units]
  BY <1>1, WalkBehind
<1>3. IsFiniteSet(0..N) /\ Cardinality(0..N) = N + 1
  BY <1>1, FS_Interval
<1>4. PICK m, n \in 0..N : m # n /\ f[m] = f[n]
  <2> HIDE DEF f
  <2>1. Cardinality(Units) < Cardinality(0..N)
    BY <1>1, <1>3
  <2>2. QED
    BY <1>1, <1>2, <1>3, <2>1, FS_PigeonHole
<1>5. W[m] = W[n] /\ (m < n \/ n < m)
  BY <1>1, <1>4
<1>6. \A i, j \in 0..N : i < j => W[i] # W[j]
  BY DEF HierarchyPermitted
<1>7. QED
  BY <1>5, <1>6

\* The number of steps in which a walk leaves the chart is a rank.
LEMMA PermittedIsRanked ==
  ASSUME NEW parents, IsChart(parents), HierarchyPermitted(parents)
  PROVE  \E rank \in [Units -> 1..Cardinality(Units)] :
           \A u \in DOMAIN parents : parents[u] \in DOMAIN parents => rank[parents[u]] < rank[u]
<1> DEFINE N == Cardinality(Units)
           Left(u, n) == /\ n \in 1..N /\ Walk(parents, u)[n] = NoParent
                         /\ \A m \in 0..N : Walk(parents, u)[m] = NoParent => n <= m
           rank == [u \in Units |-> IF u \in DOMAIN parents THEN CHOOSE n : Left(u, n) ELSE N]
<1>1. N \in Nat /\ DOMAIN parents \subseteq Units
  BY UnitAssumption, FS_CardinalityType DEF IsChart
<1>2. ASSUME NEW u \in DOMAIN parents
      PROVE  \E n : Left(u, n)
  <2> DEFINE ends == {n \in 0..N : Walk(parents, u)[n] = NoParent}
  <2>1. ends # {} /\ ends \subseteq Nat
    BY <1>1, PermittedWalkEnds
  <2>2. PICK n \in ends : \A m \in ends : n <= m
    <3> HIDE DEF ends
    <3>1. QED
      BY <2>1, SmallestNumber
  <2>3. n # 0
    BY <1>1, <2>2, WalkSteps, UnitAssumption
  <2>4. n \in 1..N
    BY <1>1, <2>2, <2>3
  <2>5. Left(u, n)
    BY <2>2, <2>4
  <2>6. QED
    BY <2>5
<1>3. \A u \in DOMAIN parents : Left(u, rank[u])
  BY <1>1, <1>2
<1>4. rank \in [Units -> 1..N]
  <2> SUFFICES ASSUME NEW u \in Units PROVE rank[u] \in 1..N
    OBVIOUS
  <2>1. CASE u \in DOMAIN parents
    <3> HIDE DEF rank
    <3>1. QED
      BY <1>3, <2>1
  <2>2. CASE u \notin DOMAIN parents
    <3>1. N # 0
      BY UnitAssumption, FS_EmptySet
    <3>2. QED
      BY <1>1, <2>2, <3>1
  <2>3. QED
    BY <2>1, <2>2
<1> HIDE DEF rank
<1>5. ASSUME NEW u \in DOMAIN parents, parents[u] \in DOMAIN parents
      PROVE  rank[parents[u]] < rank[u]
  <2>1. Left(u, rank[u]) /\ Left(parents[u], rank[parents[u]])
    BY <1>3, <1>5
  <2> DEFINE n == rank[u]
             p == parents[u]
  <2>2. n \in 1..N /\ n - 1 \in 0..N /\ u \in Units /\ p \in Units
    BY <1>1, <1>5, <2>1
  <2>3. \A k \in 1..N : Walk(parents, u)[k] = Walk(parents, p)[k - 1]
    <3> DEFINE bad == {k \in 1..N : Walk(parents, u)[k] # Walk(parents, p)[k - 1]}
    <3> SUFFICES ASSUME bad # {} PROVE FALSE
      OBVIOUS
    <3>1. PICK k \in bad : \A j \in bad : k <= j
      <4>1. bad \subseteq Nat
        BY <1>1
      <4> HIDE DEF bad
      <4>2. QED
        BY <4>1, SmallestNumber
    <3>2. k \in 1..N /\ k \in Nat /\ Walk(parents, u)[k] # Walk(parents, p)[k - 1]
      BY <1>1, <3>1
    <3>3. Walk(parents, u)[k] = Above(parents, Walk(parents, u)[k - 1])
      BY <2>2, <3>2, WalkSteps
    <3>4. CASE k = 1
      <4>1. Walk(parents, u)[1 - 1] = u /\ Walk(parents, p)[1 - 1] = p
        BY <2>2, WalkSteps
      <4>2. QED
        BY <1>5, <3>2, <3>3, <3>4, <4>1 DEF Above
    <3>5. CASE k # 1
      <4>1. k - 1 \in 1..N /\ ~(k <= k - 1)
        BY <1>1, <3>2, <3>5
      <4>2. Walk(parents, u)[k - 1] = Walk(parents, p)[k - 1 - 1]
        BY <3>1, <4>1
      <4>3. Walk(parents, p)[k - 1] = Above(parents, Walk(parents, p)[k - 1 - 1])
        BY <2>2, <4>1, WalkSteps
      <4>4. QED
        BY <3>2, <3>3, <4>2, <4>3
    <3>6. QED
      BY <3>4, <3>5
  <2>4. Walk(parents, p)[n - 1] = NoParent
    BY <2>1, <2>2, <2>3
  <2>5. rank[p] <= n - 1
    BY <2>1, <2>2, <2>4
  <2>6. rank[p] \in Int /\ rank[u] \in Int
    BY <1>1, <2>1
  <2> HIDE DEF p, Left
  <2>7. rank[p] < rank[u]
    BY <2>5, <2>6
  <2>8. QED
    BY <2>7 DEF p
<1>6. QED
  BY <1>4, <1>5

\* Of all charts that commits of concurrent moves can leave, at any coordinate, those are
\* refused in which no ranking puts every unit below its parent.
THEOREM CyclesAreRefused == Spec => []CyclesRefused
<1>1. IInv => CyclesRefused
  <2> SUFFICES ASSUME IInv, NEW day \in Days, NEW known \in Times
               PROVE  HierarchyPermitted(Parents(day, known)) <=>
                        \E rank \in [Units -> 1..Cardinality(Units)] :
                          \A u \in DOMAIN Parents(day, known) :
                            Parents(day, known)[u] \in DOMAIN Parents(day, known)
                              => rank[Parents(day, known)[u]] < rank[u]
    BY DEF CyclesRefused
  <2>1. IsChart(Parents(day, known))
    BY ParentsChart
  <2>2. QED
    BY <2>1, RankedIsPermitted, PermittedIsRanked
<1>2. QED
  BY <1>1, Inductive, PTL

------------------------------------------------------------------------------
(* The seat of MCWorkforceRules *)

\* The seat's periods are periods, and what is saved keeps the rules day by day.
SeatInv ==
  /\ periods \subseteq Period
  /\ IsFiniteSet(saved)
  /\ \A a \in saved : \E n \in Nat, p \in Period, ratio \in Ratios : a = Assignment(n, p, ratio)
  /\ NoDayOversold
  /\ NoDayUncovered

\* Days are numbers, and the periods lie between them.
LEMMA PeriodNumbers ==
  /\ \A day \in Days : day \in Nat
  /\ \A p \in Period : p.from \in Days /\ p.to \in Cursors /\ p.from \in Nat /\ p.to \in Nat
BY DayAssumption DEF Period, Cursors

\* The probed assignments are within the kernel's types.
LEMMA AssignmentNumbers ==
  ASSUME NEW n, NEW p \in Period, NEW ratio \in Ratios
  PROVE  LET a == Assignment(n, p, ratio) IN
         /\ a.ratio \in Nat /\ a.from = p.from /\ a.to = p.to /\ a.position = "seat"
         /\ a.from \in Days /\ a.to \in Cursors /\ a.from \in Nat /\ a.to \in Nat
BY PeriodNumbers, RatioAssumption DEF Assignment

\* A seat that is offered to one more assignment stays within its allocation on every
\* day: the probes speak for the days of the assignment, the others have what they had.
LEMMA SaveKeepsAllocation ==
  ASSUME SeatInv, NEW p \in Period, NEW ratio \in Ratios, Save(p, ratio)
  PROVE  NoDayOversold' /\ IsFiniteSet(saved')
<1> DEFINE n == Cardinality(saved)
           a == Assignment(n, p, ratio)
           all == saved \cup {a}
<1>1. saved' = all /\ IsFiniteSet(all)
  BY FS_AddElement DEF Save, SeatInv
<1>2. AssignmentPermitted(a, all, Employed(n), {Version(q) : q \in periods}, 0)
  BY DEF Save
<1>3. \A f \in all : f.ratio \in Nat /\ f.from \in Nat /\ f.to \in Nat /\ f.position = "seat"
  BY AssignmentNumbers DEF SeatInv
<1>4. a.from \in Nat /\ a.to \in Nat /\ a.position = "seat"
  BY AssignmentNumbers
<1> HIDE DEF a, all
<1>5. {f \in all : f.position = a.position} = all
  BY <1>3, <1>4
<1>6. \A probe \in ProbeDays(all, a) : WithinOne(all, probe, 0)
  BY <1>2, <1>5 DEF AssignmentPermitted
<1>7. ASSUME NEW day \in Days
      PROVE  WithinOne(all, day, 0)
  <2>1. day \in Nat
    BY PeriodNumbers
  <2>2. CASE Contains(a, day)
    BY <1>1, <1>3, <1>4, <1>6, <2>1, <2>2, ProbesSuffice
  <2>3. CASE ~Contains(a, day)
    <3>1. {f \in all : Contains(f, day) /\ KnownAt(f, 0)}
            = {f \in saved : Contains(f, day) /\ KnownAt(f, 0)}
      BY <2>3 DEF all
    <3>2. WithinOne(saved, day, 0)
      BY DEF SeatInv, NoDayOversold
    <3>3. QED
      BY <3>1, <3>2 DEF WithinOne
  <2>4. QED
    BY <2>2, <2>3
<1>8. QED
  BY <1>1, <1>7 DEF NoDayOversold

\* Each day of the assignment that is saved lies in a period of the seat.
LEMMA SaveKeepsCoverage ==
  ASSUME SeatInv, NEW p \in Period, NEW ratio \in Ratios, Save(p, ratio)
  PROVE  NoDayUncovered'
<1> DEFINE n == Cardinality(saved)
           a == Assignment(n, p, ratio)
           versions == {Version(q) : q \in periods}
           open == {v \in versions : KnownAt(v, 0) /\ v.status \in {"active", "open"}}
<1>1. saved' = saved \cup {a} /\ periods' = periods
  BY DEF Save
<1>2. UnionCovers(open, a)
  BY DEF Save, AssignmentPermitted, PositionCovers
<1>3. \A v \in open : \E q \in periods : q \in Period /\ v.from = q.from /\ v.to = q.to
  BY DEF Version, SeatInv
<1>4. \A v \in open : v.from \in Nat /\ v.to \in Cursors
  BY <1>3, PeriodNumbers
<1>5. a.from \in Days /\ a.to \in Cursors
  BY AssignmentNumbers
<1> HIDE DEF a, open
<1>6. \A day \in Days : Contains(a, day) => \E v \in open : Contains(v, day)
  BY <1>2, <1>4, <1>5, UnionCoversDays
<1>7. \A day \in Days : Contains(a, day) => \E q \in periods : Contains(q, day)
  BY <1>3, <1>6 DEF Contains
<1>8. QED
  BY <1>1, <1>7 DEF SeatInv, NoDayUncovered

\* SeatInv is inductive.
LEMMA SeatKeeps == SeatInv /\ [MCNext]_<<history, saved, periods>> => SeatInv'
<1> SUFFICES ASSUME SeatInv, [MCNext]_<<history, saved, periods>> PROVE SeatInv'
  OBVIOUS
<1>1. ASSUME NEW p \in Period, NEW ratio \in Ratios, Save(p, ratio)
      PROVE  SeatInv'
  <2>1. /\ saved' = saved \cup {Assignment(Cardinality(saved), p, ratio)}
        /\ periods' = periods
    BY <1>1 DEF Save
  <2>2. Cardinality(saved) \in Nat
    BY FS_CardinalityType DEF SeatInv
  <2>3. \A a \in saved' : \E n \in Nat, q \in Period, x \in Ratios : a = Assignment(n, q, x)
    BY <2>1, <2>2 DEF SeatInv
  <2>4. QED
    BY <1>1, <2>1, <2>3, SaveKeepsAllocation, SaveKeepsCoverage DEF SeatInv, Period
<1>2. CASE UNCHANGED <<saved, periods>>
  BY <1>2 DEF SeatInv, NoDayOversold, NoDayUncovered, WithinOne, Contains, KnownAt,
              Assignment, Period
<1>3. QED
  BY <1>1, <1>2 DEF MCNext, Correcting

\* A seat without assignments has all of its allocation free.
LEMMA SeatStarts == MCInit => SeatInv
<1> SUFFICES ASSUME MCInit PROVE SeatInv
  OBVIOUS
<1>1. saved = {} /\ periods \subseteq Period
  BY DEF MCInit
<1>2. IsFiniteSet({}) /\ Total({}) = 0
  BY FS_EmptySet, TotalEmpty
<1>3. \A day : {f \in saved : Contains(f, day) /\ KnownAt(f, 0)} = {}
  BY <1>1
<1>4. NoDayOversold
  BY <1>2, <1>3 DEF NoDayOversold, WithinOne, One
<1>5. QED
  BY <1>1, <1>2, <1>4 DEF SeatInv, NoDayUncovered

\* However long assignments are saved one after the other, each accepted by the rules,
\* for any periods and ratios: no day of the seat is sold beyond one.
THEOREM SeatNotOversold == MCSpec => []NoDayOversold
<1>1. SeatInv => NoDayOversold
  BY DEF SeatInv
<1>2. QED
  BY <1>1, SeatStarts, SeatKeeps, PTL DEF MCSpec

\* Nobody who is accepted has a day on which the seat is not staffable.
THEOREM SeatCovered == MCSpec => []NoDayUncovered
<1>1. SeatInv => NoDayUncovered
  BY DEF SeatInv
<1>2. QED
  BY <1>1, SeatStarts, SeatKeeps, PTL DEF MCSpec

\* And nobody is turned away whose days are all staffable.
THEOREM SeatOffered == MCSpec => []CoverageComplete
<1>1. SeatInv => CoverageComplete
  <2> SUFFICES ASSUME SeatInv, NEW target \in Period,
                      \A day \in Days : Contains(target, day) => \E p \in periods : Contains(p, day)
               PROVE  UnionCovers(periods, target)
    BY DEF CoverageComplete
  <2>1. \A i \in periods : i.from \in Nat /\ i.to \in Cursors
    BY PeriodNumbers DEF SeatInv
  <2>2. target.from \in Days /\ target.to \in Cursors
    BY PeriodNumbers
  <2>3. QED
    BY <2>1, <2>2, UnionCoversDays
<1>2. QED
  BY <1>1, SeatStarts, SeatKeeps, PTL DEF MCSpec
==============================================================================
