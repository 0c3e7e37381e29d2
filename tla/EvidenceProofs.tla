--------------------------- MODULE EvidenceProofs ---------------------------
(***************************************************************************)
(* What is left to show when statements fail and the service starts again. *)
(* First the copies of the dead letters that a cleanup deletes, for any    *)
(* letters, cleanups and policies; then the route of a request through the *)
(* registries and the records its answer leaves, for any registries,       *)
(* requests and callers.                                                   *)
(***************************************************************************)
EXTENDS Lifecycle, Routing, FiniteSetTheorems, SequenceTheorems, WellFoundedInduction, TLAPS

(* Letters without a copy whose row is gone, or is deleted next; those     *)
(* swept under a policy that asks for no copy do not count.                *)
Lost ==
  {l \in Letters \ (archived \cup unkept) :
     l \in gone \/ \E c \in Cleaners : pc[c] = "delete" /\ l = Head(todo[c])}

(* Each is put down to a copy that failed. *)
LostByFaults == IsFiniteSet(Lost) /\ Cardinality(Lost) <= faults

(* Only a policy that asks for no copy sweeps. *)
SweepsUnkept == \A c \in Cleaners : pc[c] = "sweep" => ~read[c].archive

(* What a cleanup has fetched was old enough, and has aged since or gone.  *)
FetchedIsOld ==
  \A c \in Cleaners : \A i \in 1 .. Len(todo[c]) :
    todo[c][i] \in gone \/ (todo[c][i] \in Present /\ age[todo[c][i]] > read[c].days)

(* The days a policy row stands for. *)
Days(p) == IF p = None THEN Default.days ELSE Effective(p).days

(* The default may stand where the operator's days should. *)
Stands(days, p) ==
  days = Days(p) \/ ((restarts > 0 \/ faults > 0) /\ days = Default.days)

(* The row in force is the operator's, and a cleanup has read it. *)
PolicyIsAsked == Stands(Days(policy), asked)
ReadIsPromised == \A c \in Cleaners : pc[c] # "idle" => Stands(read[c].days, promised[c])

LifecycleInv ==
  /\ TypeOK /\ LostByFaults /\ SweepsUnkept /\ FetchedIsOld
  /\ PolicyIsAsked /\ ReadIsPromised

-----------------------------------------------------------------------------
(* A batch is a sequence of eligible letters, and not an empty one. *)
LEMMA BatchTyped ==
  ASSUME TypeOK, NEW c \in Cleaners, read[c] \in PolicyRows, NEW rows \in OldestBatches(c)
  PROVE  /\ rows \in Seq(Letters) /\ rows # <<>>
         /\ \A i \in 1 .. Len(rows) : rows[i] \in Eligible(c)
         /\ Range(rows) \subseteq Eligible(c)
<1>1. PICK n \in 1 .. read[c].batch : rows \in [1 .. n -> Eligible(c)]
  BY DEF OldestBatches
<1>2. n \in Nat /\ n > 0 /\ Eligible(c) \subseteq Letters
  BY DEF PolicyRows, Eligible, Present
<1>3. rows \in Seq(Letters) /\ Len(rows) = n
  BY <1>1, <1>2
<1>4. QED BY <1>1, <1>2, <1>3 DEF Range

(* Policies as a cleanup reads them. *)
LEMMA EffectiveTyped ==
  ASSUME LifecycleAssumption, NEW p \in PolicyRows
  PROVE  Effective(p) \in PolicyRows /\ Effective(p).days \in Nat
BY DEF LifecycleAssumption, Effective, PolicyRows

(* The default is a policy, whose days and batch need no replacement. *)
LEMMA DefaultTyped ==
  LifecycleAssumption =>
    /\ Default \in PolicyRows /\ Default # None
    /\ Effective(Default) = Default /\ Days(Default) = Default.days /\ Default.days \in Nat
<1> SUFFICES ASSUME LifecycleAssumption PROVE
    /\ Default \in PolicyRows /\ Default # None
    /\ Effective(Default) = Default /\ Days(Default) = Default.days /\ Default.days \in Nat
  OBVIOUS
<1>1. Default \in PolicyRows /\ Default # None /\ Default.days \in Nat
      /\ Default.days > 0 /\ Default.batch > 0
  BY DEF LifecycleAssumption, PolicyRows
<1>2. Effective(Default) = Default
  BY <1>1 DEF Effective, PolicyRows
<1>3. QED BY <1>1, <1>2 DEF Days

(* What is lost becomes no more. *)
LEMMA LostShrinks ==
  ASSUME LostByFaults, Lost' \subseteq Lost, faults \in Nat, faults' \in Nat, faults' >= faults
  PROVE  LostByFaults'
<1>1. IsFiniteSet(Lost') /\ Cardinality(Lost') <= Cardinality(Lost)
  BY FS_Subset DEF LostByFaults
<1>2. Cardinality(Lost) \in Nat /\ Cardinality(Lost') \in Nat
  BY <1>1, FS_CardinalityType DEF LostByFaults
<1>3. QED BY <1>1, <1>2 DEF LostByFaults

(* Where the default may stand, it may stand as long as the service runs. *)
LEMMA StandsOn ==
  ASSUME TypeOK, LifecycleAssumption, NEW d, NEW p, Stands(d, p), faults' \in Nat, restarts' \in Nat,
         faults' >= faults, restarts' >= restarts
  PROVE  Stands(d, p)'
<1>1. faults \in Nat /\ restarts \in Nat
  BY DEF TypeOK
<1>2. QED BY <1>1 DEF Stands, Days, Effective

(* Who has fetched letters has read a policy. *)
LEMMA FetchedTyped ==
  ASSUME TypeOK, NEW c \in Cleaners, NEW i \in 1 .. Len(todo[c])
  PROVE  /\ pc[c] \in {"archive", "delete"} /\ read[c] \in PolicyRows
         /\ todo[c][i] \in Letters
<1>1. todo[c] \in Seq(Letters) /\ todo[c] # <<>>
  BY DEF TypeOK
<1>2. QED BY <1>1 DEF TypeOK

LEMMA InitInv == LifecycleAssumption /\ Init => LifecycleInv
<1> SUFFICES ASSUME LifecycleAssumption, Init PROVE LifecycleInv
  OBVIOUS
<1>1. TypeOK
  BY DefaultTyped DEF Init, TypeOK, LifecycleAssumption, Present
<1>2. LostByFaults
  <2>1. Lost = {}
    BY DEF Init, Lost
  <2>2. QED BY <2>1, FS_EmptySet DEF LostByFaults, Init
<1>3. SweepsUnkept /\ FetchedIsOld /\ ReadIsPromised
  BY DEF Init, SweepsUnkept, FetchedIsOld, ReadIsPromised
<1>4. PolicyIsAsked
  BY DefaultTyped DEF Init, PolicyIsAsked, Stands, Days
<1>5. QED BY <1>1, <1>2, <1>3, <1>4 DEF LifecycleInv

-----------------------------------------------------------------------------
(* The world around: no cleanup moves, nothing goes. *)
LEMMA WorldStep ==
  ASSUME LifecycleAssumption, LifecycleInv, TypeOK', PolicyIsAsked',
         UNCHANGED <<archived, cleanerVars, restarts, gone, unkept, promised>>,
         faults' >= faults,
         \A l \in Present : l \in Present' /\ age'[l] >= age[l]
  PROVE  LifecycleInv'
<1> USE DEF LifecycleInv
<1>1. UNCHANGED <<pc, read, todo>> /\ faults \in Nat /\ faults' \in Nat /\ restarts \in Nat
  BY DEF cleanerVars, TypeOK
<1>2. LostByFaults'
  <2>1. Lost' = Lost
    BY <1>1 DEF Lost
  <2>2. QED BY <1>1, <2>1, LostShrinks
<1>3. SweepsUnkept'
  BY <1>1 DEF SweepsUnkept
<1>4. FetchedIsOld'
  <2>1. ASSUME NEW c \in Cleaners, NEW i \in 1 .. Len(todo[c]), todo[c][i] \notin gone
        PROVE  todo[c][i] \in Present' /\ age'[todo[c][i]] > read[c].days
    <3>1. todo[c][i] \in Present /\ age[todo[c][i]] > read[c].days
      BY <2>1 DEF FetchedIsOld
    <3>2. read[c] \in PolicyRows
      BY FetchedTyped
    <3>3. /\ read[c].days \in Nat /\ age[todo[c][i]] \in Nat
          /\ age'[todo[c][i]] \in Nat /\ age'[todo[c][i]] >= age[todo[c][i]]
      <4>1. read[c].days \in Nat
        BY <3>2 DEF PolicyRows
      <4>2. todo[c][i] \in Present' /\ age'[todo[c][i]] >= age[todo[c][i]]
        BY <3>1
      <4>3. age \in [Letters -> (0 .. MaxAge) \cup {None}] /\ age' \in [Letters -> (0 .. MaxAge) \cup {None}]
        BY DEF TypeOK
      <4>4. age[todo[c][i]] \in 0 .. MaxAge /\ age'[todo[c][i]] \in 0 .. MaxAge
        BY <3>1, <4>2, <4>3 DEF Present
      <4>5. QED BY <4>1, <4>2, <4>4 DEF LifecycleAssumption
    <3>4. QED BY <3>1, <3>3
  <2>2. QED BY <1>1, <2>1 DEF FetchedIsOld
<1>5. ReadIsPromised'
  <2>1. ASSUME NEW c \in Cleaners, pc[c] # "idle", Stands(read[c].days, promised[c])
        PROVE  Stands(read[c].days, promised[c])'
    BY <1>1, <2>1 DEF Stands, Days, Effective
  <2>2. QED BY <1>1, <2>1 DEF ReadIsPromised
<1>6. QED BY <1>2, <1>3, <1>4, <1>5

LEMMA BuryStep ==
  ASSUME LifecycleAssumption, LifecycleInv, NEW l \in Letters, Bury(l)
  PROVE  LifecycleInv'
<1>1. /\ age[l] = None /\ l \notin gone /\ age' = [age EXCEPT ![l] = 0]
      /\ UNCHANGED <<archived, policy, cleanerVars, faults, changes, restarts,
                     gone, unkept, asked, promised>>
  BY DEF Bury, boundVars, history
<1>2. \A k \in Present : k \in Present' /\ age'[k] = age[k]
  BY <1>1 DEF Present, LifecycleInv, TypeOK
<1>3. TypeOK'
  BY <1>1 DEF LifecycleInv, TypeOK, Present, cleanerVars, LifecycleAssumption
<1>4. PolicyIsAsked'
  BY <1>1 DEF LifecycleInv, PolicyIsAsked, Stands, Days, Effective
<1>5. faults' >= faults /\ \A k \in Present : age'[k] >= age[k]
  BY <1>1, <1>2 DEF LifecycleInv, TypeOK, Present, LifecycleAssumption
<1>6. QED BY <1>1, <1>2, <1>3, <1>4, <1>5, WorldStep

LEMMA DayStep ==
  ASSUME LifecycleAssumption, LifecycleInv, DayPasses
  PROVE  LifecycleInv'
<1>1. UNCHANGED <<archived, policy, cleanerVars, faults, changes, restarts,
                  gone, unkept, asked, promised>>
  BY DEF DayPasses, boundVars, history
<1>2. /\ age' = [l \in Letters |-> IF l \in Present /\ age[l] < MaxAge THEN age[l] + 1 ELSE age[l]]
      /\ MaxAge \in Nat
  BY DEF DayPasses, LifecycleAssumption
<1>3. \A l \in Present : /\ age[l] \in 0 .. MaxAge /\ age'[l] \in 0 .. MaxAge
                         /\ age'[l] >= age[l]
  BY <1>2 DEF Present, LifecycleInv, TypeOK
<1>4. Present' = Present
  BY <1>2, <1>3 DEF Present, LifecycleAssumption
<1>5. TypeOK'
  BY <1>1, <1>2, <1>3, <1>4 DEF LifecycleInv, TypeOK, cleanerVars, Present
<1>6. PolicyIsAsked'
  BY <1>1 DEF LifecycleInv, PolicyIsAsked, Stands, Days, Effective
<1>7. faults' >= faults
  BY <1>1 DEF LifecycleInv, TypeOK
<1>8. QED BY <1>1, <1>3, <1>4, <1>5, <1>6, <1>7, WorldStep

(* What the operator is told is what the row then says. *)
LEMMA SetPolicyStep ==
  ASSUME LifecycleAssumption, LifecycleInv, NEW p \in Policies, SetPolicy(p)
  PROVE  LifecycleInv'
<1> USE DEF LifecycleInv
<1>1. /\ UNCHANGED <<age, archived, cleanerVars, restarts, gone, unkept, promised>>
      /\ changes < MaxChanges /\ changes' = changes + 1
  BY DEF SetPolicy
<1>2. p \in PolicyRows /\ p # None
  BY DEF LifecycleAssumption
<1>3. faults \in Nat /\ \A l \in Present : l \in Present' /\ age'[l] >= age[l]
  <2>1. Present' = Present /\ \A l \in Present : age[l] \in Nat
    BY <1>1 DEF Present, TypeOK, LifecycleAssumption
  <2>2. faults \in Nat
    BY DEF TypeOK, LifecycleAssumption
  <2>3. QED BY <1>1, <2>1, <2>2
<1>4. CASE policy' = p /\ asked' = p /\ faults' = faults
  <2>1. TypeOK'
    BY <1>1, <1>2, <1>4 DEF TypeOK, Present, cleanerVars, LifecycleAssumption
  <2>2. PolicyIsAsked'
    BY <1>4 DEF PolicyIsAsked, Stands
  <2>3. QED BY <1>1, <1>3, <1>4, <2>1, <2>2, WorldStep
<1>5. CASE /\ faults < MaxFaults /\ faults' = faults + 1 /\ policy' = policy
           /\ asked' = IF policy = None THEN p ELSE policy
  <2>1. TypeOK'
    BY <1>1, <1>2, <1>5 DEF TypeOK, Present, cleanerVars, LifecycleAssumption
  <2>2. PolicyIsAsked'
    BY <1>1, <1>5 DEF PolicyIsAsked, Stands, Days, TypeOK
  <2>3. faults' >= faults
    BY <1>3, <1>5
  <2>4. QED BY <1>1, <1>3, <2>1, <2>2, <2>3, WorldStep
<1>6. QED BY <1>4, <1>5 DEF SetPolicy, Succeeds, Fails

(* A restart ends every cleanup, and may put the default days in place of  *)
(* the operator's.                                                         *)
LEMMA RestartStep ==
  ASSUME LifecycleAssumption, LifecycleInv, Restart
  PROVE  LifecycleInv'
<1> USE DEF LifecycleInv
<1>1. /\ restarts < MaxRestarts /\ restarts' = restarts + 1
      /\ pc'   = [c \in Cleaners |-> "idle"]
      /\ read' = [c \in Cleaners |-> None]
      /\ todo' = [c \in Cleaners |-> <<>>]
      /\ UNCHANGED <<age, archived, changes, gone, unkept, asked, promised>>
      /\ faults \in Nat /\ restarts \in Nat
  BY DEF Restart, history, TypeOK
<1>2. \/ policy' = Seeded /\ faults' = faults
      \/ policy' = policy /\ faults < MaxFaults /\ faults' = faults + 1
  BY DEF Restart, Succeeds, Fails
<1>3. Seeded \in PolicyRows /\ Seeded # None /\ Days(Seeded) = Default.days
  <2>1. /\ Default \in PolicyRows /\ Default.days \in Nat /\ Default.days > 0
        /\ policy \in PolicyRows \cup {None} /\ None \notin PolicyRows
    BY DEF LifecycleAssumption, PolicyRows, TypeOK
  <2>2. Seeded \in PolicyRows /\ Seeded.days = Default.days
    BY <2>1 DEF Seeded, PolicyRows
  <2>3. QED BY <2>1, <2>2 DEF Days, Effective, PolicyRows
<1>4. TypeOK'
  BY <1>1, <1>2, <1>3 DEF TypeOK, Present, LifecycleAssumption
<1>5. LostByFaults'
  <2>1. Lost' \subseteq Lost
    BY <1>1 DEF Lost
  <2>2. faults' \in Nat /\ faults' >= faults
    BY <1>1, <1>2
  <2>3. QED BY <1>1, <2>1, <2>2, LostShrinks
<1>6. SweepsUnkept' /\ FetchedIsOld' /\ ReadIsPromised'
  BY <1>1 DEF SweepsUnkept, FetchedIsOld, ReadIsPromised
<1>7. PolicyIsAsked'
  <2>1. Days(policy') \in {Days(policy), Default.days}
    BY <1>2, <1>3
  <2>2. restarts' > 0 \/ faults' > 0
    BY <1>1, <1>2
  <2>3. Days(policy)' = Days(policy') /\ Days(asked)' = Days(asked)
    BY <1>1 DEF Days, Effective
  <2>4. QED BY <2>1, <2>2, <2>3 DEF PolicyIsAsked, Stands
<1>8. QED BY <1>4, <1>5, <1>6, <1>7

-----------------------------------------------------------------------------
LEMMA StillPromised ==
  ASSUME LifecycleInv, NEW c \in Cleaners, pc[c] # "idle", faults' \in Nat, faults' >= faults
  PROVE  \/ read[c].days = Days(promised[c])
         \/ (restarts > 0 \/ faults' > 0) /\ read[c].days = Default.days
<1>1. faults \in Nat /\ restarts \in Nat
  BY DEF LifecycleInv, TypeOK
<1>2. Stands(read[c].days, promised[c])
  BY DEF LifecycleInv, ReadIsPromised
<1>3. QED BY <1>1, <1>2 DEF Stands

(* A step of cleanup c, from what it leaves of the rows and of itself. *)
LEMMA CleanerFrame ==
  ASSUME LifecycleInv, TypeOK', LostByFaults', NEW c \in Cleaners,
         \A d \in Cleaners \ {c} : /\ pc'[d] = pc[d] /\ read'[d] = read[d]
                                   /\ todo'[d] = todo[d] /\ promised'[d] = promised[d],
         UNCHANGED <<policy, restarts, asked>>, faults' >= faults,
         gone \subseteq gone',
         \A l \in Present : l \in gone' \/ (l \in Present' /\ age'[l] = age[l]),
         pc'[c] = "sweep" => ~read'[c].archive,
         \A i \in 1 .. Len(todo'[c]) :
           \/ todo'[c][i] \in gone
           \/ todo'[c][i] \in Present /\ age[todo'[c][i]] > read'[c].days,
         pc'[c] # "idle" => \/ read'[c].days = Days(promised'[c])
                            \/ (restarts > 0 \/ faults' > 0) /\ read'[c].days = Default.days
  PROVE  LifecycleInv'
<1> USE DEF LifecycleInv
<1>1. SweepsUnkept'
  BY DEF SweepsUnkept
<1>2. FetchedIsOld'
  <2>1. ASSUME NEW d \in Cleaners, NEW i \in 1 .. Len(todo'[d]), todo'[d][i] \notin gone'
        PROVE  todo'[d][i] \in Present' /\ age'[todo'[d][i]] > read'[d].days
    <3>1. todo'[d][i] \in Present /\ age[todo'[d][i]] > read'[d].days
      BY <2>1 DEF FetchedIsOld
    <3>2. QED BY <2>1, <3>1
  <2>2. QED BY <2>1 DEF FetchedIsOld
<1>3. faults \in Nat /\ faults' \in Nat /\ restarts \in Nat
  BY DEF TypeOK
<1>4. PolicyIsAsked'
  BY <1>3 DEF PolicyIsAsked, Stands, Days, Effective
<1>5. ReadIsPromised'
  <2>1. ASSUME NEW d \in Cleaners, pc'[d] # "idle"
        PROVE  \/ read'[d].days = Days(promised'[d])
               \/ (restarts > 0 \/ faults' > 0) /\ read'[d].days = Default.days
    <3>1. CASE d = c
      BY <2>1, <3>1
    <3>2. CASE d # c
      BY <1>3, <2>1, <3>2, StillPromised
    <3>3. QED BY <3>1, <3>2
  <2>2. \A d \in Cleaners : Days(promised[d])' = Days(promised'[d])
    BY DEF Days, Effective
  <2>3. QED BY <2>1, <2>2 DEF ReadIsPromised, Stands
<1>6. QED BY <1>1, <1>2, <1>4, <1>5

(* A cleanup that is not to delete next loses nothing. *)
LEMMA NothingLost ==
  ASSUME LifecycleInv, NEW c \in Cleaners, UNCHANGED <<archived, gone, unkept>>,
         pc'[c] # "delete",
         \A d \in Cleaners \ {c} : pc'[d] = pc[d] /\ todo'[d] = todo[d],
         faults' \in Nat, faults' >= faults
  PROVE  LostByFaults'
<1>1. Lost' \subseteq Lost
  BY DEF Lost
<1>2. QED BY <1>1, LostShrinks DEF LifecycleInv, TypeOK

(* A statement that succeeds or fails. *)
LEMMA FaultsGrow ==
  ASSUME LifecycleInv, faults' = faults \/ (faults < MaxFaults /\ faults' = faults + 1),
         LifecycleAssumption
  PROVE  faults' \in 0 .. MaxFaults /\ faults' \in Nat /\ faults' >= faults
BY DEF LifecycleInv, TypeOK, LifecycleAssumption

(* A cleanup ends without touching a row. *)
LEMMA FinishStep ==
  ASSUME LifecycleAssumption, LifecycleInv, NEW c \in Cleaners, Finish(c),
         UNCHANGED <<age, archived, policy, changes, restarts, gone, unkept, asked, promised>>,
         faults' = faults \/ (faults < MaxFaults /\ faults' = faults + 1)
  PROVE  LifecycleInv'
<1>1. faults' \in 0 .. MaxFaults /\ faults' \in Nat /\ faults' >= faults
  BY FaultsGrow
<1>2. /\ TypeOK' /\ Present' = Present
      /\ pc'[c] = "idle" /\ todo'[c] = <<>>
      /\ \A d \in Cleaners \ {c} : /\ pc'[d] = pc[d] /\ read'[d] = read[d]
                                   /\ todo'[d] = todo[d] /\ promised'[d] = promised[d]
  <2>1. /\ pc' = [pc EXCEPT ![c] = "idle"] /\ read' = [read EXCEPT ![c] = None]
        /\ todo' = [todo EXCEPT ![c] = <<>>]
        /\ <<>> \in Seq(Letters) /\ archived' \in SUBSET Letters
    BY DEF Finish, LifecycleInv, TypeOK
  <2>2. QED BY <1>1, <2>1 DEF LifecycleInv, TypeOK, Present
<1>3. LostByFaults'
  BY <1>1, <1>2, NothingLost
<1>4. \A i \in 1 .. Len(todo'[c]) : FALSE
  BY <1>2
<1>5. QED BY <1>1, <1>2, <1>3, <1>4, CleanerFrame

-----------------------------------------------------------------------------
(* The steps of a cleanup. *)
LEMMA ReadPolicyStep ==
  ASSUME LifecycleAssumption, LifecycleInv, NEW c \in Cleaners, ReadPolicy(c)
  PROVE  LifecycleInv'
<1> DEFINE row == Effective(IF policy = None THEN Default ELSE policy)
<1>1. /\ pc[c] = "idle" /\ pc' = [pc EXCEPT ![c] = "count"]
      /\ promised' = [promised EXCEPT ![c] = asked]
      /\ UNCHANGED <<age, archived, policy, todo, changes, restarts, gone, unkept, asked>>
  BY DEF ReadPolicy, Goto
<1>2. PICK r \in {row, Default} :
        /\ read' = [read EXCEPT ![c] = r]
        /\ \/ r = row /\ faults' = faults
           \/ r = Default /\ faults < MaxFaults /\ faults' = faults + 1
  BY DEF ReadPolicy, Succeeds, Fails
<1>3. faults' \in 0 .. MaxFaults /\ faults' \in Nat /\ faults' >= faults
  BY <1>2, FaultsGrow
<1>4. row \in PolicyRows /\ row.days = Days(policy)
  <2>1. CASE policy = None
    BY <2>1, DefaultTyped DEF Days
  <2>2. CASE policy # None
    BY <2>2, EffectiveTyped DEF LifecycleInv, TypeOK, Days
  <2>3. QED BY <2>1, <2>2
<1>5. /\ r \in PolicyRows /\ r # None
      /\ r.days = Days(asked) \/ ((restarts > 0 \/ faults' > 0) /\ r.days = Default.days)
  BY <1>2, <1>3, <1>4, DefaultTyped
     DEF LifecycleInv, TypeOK, PolicyIsAsked, Stands, LifecycleAssumption
<1> HIDE DEF row
<1>6. /\ TypeOK' /\ Present' = Present
      /\ pc'[c] = "count" /\ read'[c] = r /\ todo'[c] = <<>> /\ promised'[c] = asked
      /\ \A d \in Cleaners \ {c} : /\ pc'[d] = pc[d] /\ read'[d] = read[d]
                                   /\ todo'[d] = todo[d] /\ promised'[d] = promised[d]
  BY <1>1, <1>2, <1>3, <1>5 DEF LifecycleInv, TypeOK, Present
<1>7. \A i \in 1 .. Len(todo'[c]) : FALSE
  BY <1>6
<1>8. LostByFaults'
  BY <1>1, <1>3, <1>6, NothingLost
<1>9. Days(promised'[c]) = Days(asked)
  BY <1>6
<1>10. QED BY <1>1, <1>3, <1>5, <1>6, <1>7, <1>8, <1>9, CleanerFrame

LEMMA CountStep ==
  ASSUME LifecycleAssumption, LifecycleInv, NEW c \in Cleaners, Count(c)
  PROVE  LifecycleInv'
<1>1. /\ pc[c] = "count"
      /\ UNCHANGED <<age, archived, policy, changes, restarts, gone, unkept, asked, promised>>
  BY DEF Count, history
<1>2. CASE pc' = [pc EXCEPT ![c] = Route(c)] /\ UNCHANGED <<read, todo, faults>>
  <2>1. Route(c) \in {"fetch", "sweep"} /\ (Route(c) = "sweep" => ~read[c].archive)
    BY DEF Route
  <2>2. faults' \in 0 .. MaxFaults /\ faults' \in Nat /\ faults' >= faults
    BY <1>2, FaultsGrow
  <2>3. /\ TypeOK' /\ pc'[c] = Route(c) /\ todo[c] = <<>>
        /\ \A d \in Cleaners \ {c} : pc'[d] = pc[d]
    BY <1>1, <1>2, <2>1 DEF LifecycleInv, TypeOK, Present
  <2>4. \A i \in 1 .. Len(todo'[c]) : FALSE
    BY <1>2, <2>3
  <2>5. /\ \/ read[c].days = Days(promised[c])
           \/ (restarts > 0 \/ faults' > 0) /\ read[c].days = Default.days
        /\ Days(promised'[c]) = Days(promised[c])
    BY <1>1, <2>2, StillPromised
  <2>6. LostByFaults'
    BY <1>1, <1>2, <2>1, <2>2, <2>3, NothingLost
  <2>7. Present' = Present
    BY <1>1 DEF Present
  <2>8. QED BY <1>1, <1>2, <2>1, <2>2, <2>3, <2>4, <2>5, <2>6, <2>7, CleanerFrame
<1>3. CASE Finish(c) /\ (faults' = faults \/ (faults < MaxFaults /\ faults' = faults + 1))
  BY <1>1, <1>3, FinishStep
<1>4. QED BY <1>2, <1>3 DEF Count, Goto, Succeeds, Fails

LEMMA FetchStep ==
  ASSUME LifecycleAssumption, LifecycleInv, NEW c \in Cleaners, Fetch(c)
  PROVE  LifecycleInv'
<1>1. /\ pc[c] = "fetch"
      /\ UNCHANGED <<age, archived, policy, changes, restarts, gone, unkept, asked, promised>>
  BY DEF Fetch, history
<1>2. ASSUME NEW rows \in OldestBatches(c), pc' = [pc EXCEPT ![c] = "archive"],
             todo' = [todo EXCEPT ![c] = rows], UNCHANGED <<read, faults>>
      PROVE  LifecycleInv'
  <2>1. read[c] \in PolicyRows
    BY <1>1 DEF LifecycleInv, TypeOK
  <2>2. faults' \in 0 .. MaxFaults /\ faults' \in Nat /\ faults' >= faults
    BY <1>2, FaultsGrow
  <2>3. /\ rows \in Seq(Letters) /\ rows # <<>>
        /\ \A i \in 1 .. Len(rows) : rows[i] \in Present /\ age[rows[i]] > read[c].days
    BY <2>1, BatchTyped DEF LifecycleInv, Eligible
  <2>4. /\ TypeOK' /\ Present' = Present /\ pc'[c] = "archive" /\ todo'[c] = rows
        /\ \A d \in Cleaners \ {c} : pc'[d] = pc[d] /\ todo'[d] = todo[d]
    BY <1>1, <1>2, <2>3 DEF LifecycleInv, TypeOK, Present
  <2>5. /\ \/ read[c].days = Days(promised[c])
           \/ (restarts > 0 \/ faults' > 0) /\ read[c].days = Default.days
        /\ Days(promised'[c]) = Days(promised[c])
    BY <1>1, <2>2, StillPromised
  <2>6. LostByFaults'
    BY <1>1, <2>2, <2>4, NothingLost
  <2>7. \A i \in 1 .. Len(todo'[c]) :
          todo'[c][i] \in Present /\ age[todo'[c][i]] > read'[c].days
    BY <1>2, <2>3, <2>4
  <2>8. QED BY <1>1, <1>2, <2>2, <2>4, <2>5, <2>6, <2>7, CleanerFrame
<1>3. CASE Finish(c) /\ (faults' = faults \/ (faults < MaxFaults /\ faults' = faults + 1))
  BY <1>1, <1>3, FinishStep
<1>4. QED BY <1>2, <1>3 DEF Fetch, Goto, Succeeds, Fails

(* A copy that fails may lose the letter that is deleted next, and is a    *)
(* fault.                                                                  *)
LEMMA ArchiveStep ==
  ASSUME LifecycleAssumption, LifecycleInv, NEW c \in Cleaners, Archive(c)
  PROVE  LifecycleInv'
<1> DEFINE l == Head(todo[c])
<1>1. /\ pc[c] = "archive" /\ pc' = [pc EXCEPT ![c] = "delete"]
      /\ UNCHANGED <<age, policy, read, todo, changes, restarts, gone, unkept, asked, promised>>
  BY DEF Archive, Goto, history
<1>2. \/ archived' = archived \cup {l} /\ faults' = faults
      \/ archived' = archived /\ faults < MaxFaults /\ faults' = faults + 1
  BY DEF Archive, Succeeds, Fails
<1>3. l \in Letters
  <2>1. todo[c] \in Seq(Letters) /\ todo[c] # <<>>
    BY <1>1 DEF LifecycleInv, TypeOK
  <2>2. QED BY <2>1, HeadTailProperties
<1>4. faults' \in 0 .. MaxFaults /\ faults' \in Nat /\ faults' >= faults
  BY <1>2, FaultsGrow
<1>5. \A d \in Cleaners : pc'[d] = (IF d = c THEN "delete" ELSE pc[d]) /\ todo'[d] = todo[d]
  BY <1>1 DEF LifecycleInv, TypeOK
<1>6. TypeOK' /\ Present' = Present
  BY <1>1, <1>2, <1>3, <1>4 DEF LifecycleInv, TypeOK, Present
<1>7. LostByFaults'
  <2>1. CASE archived' = archived \cup {l}
    <3>1. Lost' \subseteq Lost
      BY <1>1, <1>5, <2>1 DEF Lost
    <3>2. QED BY <1>4, <3>1, LostShrinks DEF LifecycleInv, TypeOK
  <2>2. CASE archived' = archived /\ faults' = faults + 1
    <3>1. Lost' \subseteq Lost \cup {l}
      BY <1>1, <1>5, <2>2 DEF Lost
    <3>2. /\ IsFiniteSet(Lost) /\ Cardinality(Lost) <= faults /\ Cardinality(Lost) \in Nat
          /\ faults \in Nat
      BY FS_CardinalityType DEF LifecycleInv, LostByFaults, TypeOK
    <3>3. /\ IsFiniteSet(Lost \cup {l})
          /\ Cardinality(Lost \cup {l}) <= faults + 1 /\ Cardinality(Lost \cup {l}) \in Nat
      <4>1. /\ IsFiniteSet(Lost \cup {l})
            /\ Cardinality(Lost \cup {l}) \in {Cardinality(Lost), Cardinality(Lost) + 1}
        BY <3>2, FS_AddElement
      <4>2. QED BY <3>2, <4>1
    <3>4. /\ IsFiniteSet(Lost') /\ Cardinality(Lost') <= Cardinality(Lost \cup {l})
          /\ Cardinality(Lost') \in Nat
      BY <3>1, <3>3, FS_Subset, FS_CardinalityType
    <3>5. QED BY <2>2, <3>2, <3>3, <3>4 DEF LostByFaults
  <2>3. QED BY <1>2, <2>1, <2>2
<1>8. \A i \in 1 .. Len(todo'[c]) :
        \/ todo'[c][i] \in gone
        \/ todo'[c][i] \in Present /\ age[todo'[c][i]] > read'[c].days
  BY <1>1, <1>5 DEF LifecycleInv, FetchedIsOld
<1>9. /\ \/ read[c].days = Days(promised[c])
         \/ (restarts > 0 \/ faults' > 0) /\ read[c].days = Default.days
      /\ Days(promised'[c]) = Days(promised[c])
  BY <1>1, <1>4, StillPromised
<1> HIDE DEF l
<1>10. QED BY <1>1, <1>4, <1>5, <1>6, <1>7, <1>8, <1>9, CleanerFrame

(* The rows that are left when the letters L go. *)
LEMMA Removed ==
  ASSUME LifecycleAssumption, LifecycleInv, NEW L, DeleteLetters(L), unkept' \in SUBSET gone'
  PROVE  /\ age' \in [Letters -> (0 .. MaxAge) \cup {None}]
         /\ gone' \in SUBSET (Letters \ Present') /\ gone \subseteq gone'
         /\ \A k \in Present : k \in gone' \/ (k \in Present' /\ age'[k] = age[k])
         /\ gone' \subseteq gone \cup (L \cap Present)
BY DEF DeleteLetters, LifecycleInv, TypeOK, Present

(* A letter whose copy failed is lost when it goes, and was before. *)
LEMMA DeleteStep ==
  ASSUME LifecycleAssumption, LifecycleInv, NEW c \in Cleaners, Delete(c)
  PROVE  LifecycleInv'
<1> DEFINE l == Head(todo[c])
<1>1. /\ pc[c] = "delete"
      /\ UNCHANGED <<archived, policy, changes, restarts, unkept, asked, promised>>
  BY DEF Delete
<1>2. \/ DeleteLetters({l}) /\ faults' = faults
      \/ UNCHANGED <<age, gone>> /\ faults < MaxFaults /\ faults' = faults + 1
  BY DEF Delete, Succeeds, Fails
<1>3. faults' \in 0 .. MaxFaults /\ faults' \in Nat /\ faults' >= faults
  BY <1>2, FaultsGrow
<1>4. /\ age' \in [Letters -> (0 .. MaxAge) \cup {None}]
      /\ gone' \in SUBSET (Letters \ Present') /\ gone \subseteq gone'
      /\ \A k \in Present : k \in gone' \/ (k \in Present' /\ age'[k] = age[k])
      /\ gone' \subseteq gone \cup {l} /\ unkept' \in SUBSET gone'
  <2>1. CASE DeleteLetters({l})
    <3>1. unkept' \in SUBSET gone'
      BY <1>1, <2>1 DEF DeleteLetters, LifecycleInv, TypeOK
    <3>2. QED BY <2>1, <3>1, Removed
  <2>2. CASE UNCHANGED <<age, gone>>
    BY <1>1, <2>2 DEF LifecycleInv, TypeOK, Present
  <2>3. QED BY <1>2, <2>1, <2>2
<1>5. todo[c] \in Seq(Letters) /\ todo[c] # <<>> /\ read[c] \in PolicyRows
  BY <1>1 DEF LifecycleInv, TypeOK
<1>6. PICK t \in Seq(Letters), at \in {"idle", "archive"}, r \in PolicyRows \cup {None} :
        /\ pc' = [pc EXCEPT ![c] = at] /\ read' = [read EXCEPT ![c] = r]
        /\ todo' = [todo EXCEPT ![c] = t]
        /\ at = "idle" => t = <<>> /\ r = None
        /\ at = "archive" => /\ t # <<>> /\ r = read[c]
                             /\ \A i \in 1 .. Len(t) : i + 1 \in 1 .. Len(todo[c])
                                                       /\ t[i] = todo[c][i + 1]
  <2>1. CASE Len(todo[c]) = 1
    <3>1. Finish(c) /\ <<>> \in Seq(Letters)
      BY <2>1 DEF Delete
    <3>2. QED BY <3>1 DEF Finish
  <2>2. CASE Len(todo[c]) # 1
    <3>1. /\ pc' = [pc EXCEPT ![c] = "archive"] /\ todo' = [todo EXCEPT ![c] = Tail(todo[c])]
          /\ read' = [read EXCEPT ![c] = read[c]]
      BY <2>2 DEF Delete, Goto, LifecycleInv, TypeOK
    <3>2. /\ Tail(todo[c]) \in Seq(Letters) /\ Len(Tail(todo[c])) = Len(todo[c]) - 1
          /\ \A i \in 1 .. Len(Tail(todo[c])) : Tail(todo[c])[i] = todo[c][i + 1]
          /\ Len(todo[c]) \in Nat /\ Len(Tail(todo[c])) # 0
      <4>1. /\ Tail(todo[c]) \in Seq(Letters) /\ Len(Tail(todo[c])) = Len(todo[c]) - 1
            /\ \A i \in 1 .. Len(Tail(todo[c])) : Tail(todo[c])[i] = todo[c][i + 1]
        BY <1>5
      <4>2. Len(todo[c]) \in Nat \ {0}
        BY <1>5, EmptySeq
      <4>3. \A n \in Nat \ {0} : n # 1 => n > 1 /\ n - 1 # 0
        OBVIOUS
      <4>4. QED BY <2>2, <4>1, <4>2, <4>3
    <3>3. Tail(todo[c]) # <<>>
      BY <3>2, EmptySeq
    <3>4. \A i \in 1 .. Len(Tail(todo[c])) : i + 1 \in 1 .. Len(todo[c])
      BY <3>2
    <3>5. QED BY <1>5, <3>1, <3>2, <3>3, <3>4
  <2>3. QED BY <2>1, <2>2
<1>7. /\ pc'[c] = at /\ read'[c] = r /\ todo'[c] = t
      /\ \A d \in Cleaners \ {c} : pc'[d] = pc[d] /\ read'[d] = read[d] /\ todo'[d] = todo[d]
  BY <1>6 DEF LifecycleInv, TypeOK
<1>8. TypeOK'
  <2>1. None # read[c]
    BY <1>5 DEF LifecycleAssumption
  <2>2. QED BY <1>1, <1>3, <1>4, <1>6, <1>7, <2>1 DEF LifecycleInv, TypeOK
<1>9. LostByFaults'
  <2>1. Lost' \subseteq Lost
    BY <1>1, <1>4, <1>6, <1>7 DEF Lost
  <2>2. QED BY <1>3, <2>1, LostShrinks DEF LifecycleInv, TypeOK
<1>10. \A i \in 1 .. Len(todo'[c]) :
         \/ todo'[c][i] \in gone
         \/ todo'[c][i] \in Present /\ age[todo'[c][i]] > read'[c].days
  <2>1. CASE at = "idle"
    BY <1>6, <1>7, <2>1
  <2>2. CASE at = "archive"
    <3>1. ASSUME NEW i \in 1 .. Len(t)
          PROVE  t[i] \in gone \/ (t[i] \in Present /\ age[t[i]] > read[c].days)
      <4>1. PICK j \in 1 .. Len(todo[c]) : t[i] = todo[c][j]
        BY <1>6, <2>2
      <4>2. QED BY <4>1 DEF LifecycleInv, FetchedIsOld
    <3>2. QED BY <1>6, <1>7, <2>2, <3>1
  <2>3. QED BY <2>1, <2>2
<1>11. pc'[c] # "idle" => /\ read'[c] = read[c]
                          /\ \/ read[c].days = Days(promised[c])
                             \/ (restarts > 0 \/ faults' > 0) /\ read[c].days = Default.days
                          /\ Days(promised'[c]) = Days(promised[c])
  BY <1>1, <1>3, <1>6, <1>7, StillPromised
<1> HIDE DEF l
<1>12. QED BY <1>1, <1>3, <1>4, <1>6, <1>7, <1>8, <1>9, <1>10, <1>11, CleanerFrame

(* A sweep takes letters whose policy asks for no copy. *)
LEMMA SweepStep ==
  ASSUME LifecycleAssumption, LifecycleInv, NEW c \in Cleaners, Sweep(c)
  PROVE  LifecycleInv'
<1>1. /\ pc[c] = "sweep" /\ Finish(c) /\ ~read[c].archive /\ read[c] \in PolicyRows
      /\ UNCHANGED <<archived, policy, changes, restarts, asked, promised>>
  BY DEF Sweep, LifecycleInv, SweepsUnkept, TypeOK
<1>2. CASE UNCHANGED <<age, gone, unkept>>
           /\ (faults' = faults \/ (faults < MaxFaults /\ faults' = faults + 1))
  BY <1>1, <1>2, FinishStep
<1>3. ASSUME NEW rows \in OldestBatches(c), DeleteLetters(Range(rows)), faults' = faults,
             unkept' = unkept \cup Range(rows)
      PROVE  LifecycleInv'
  <2>1. Range(rows) \subseteq Present
    BY <1>1, BatchTyped DEF LifecycleInv, Eligible
  <2>2. unkept' \in SUBSET gone' /\ gone' = gone \cup Range(rows)
    BY <1>3, <2>1 DEF DeleteLetters, LifecycleInv, TypeOK
  <2>3. /\ age' \in [Letters -> (0 .. MaxAge) \cup {None}]
        /\ gone' \in SUBSET (Letters \ Present') /\ gone \subseteq gone'
        /\ \A k \in Present : k \in gone' \/ (k \in Present' /\ age'[k] = age[k])
    BY <1>3, <2>2, Removed
  <2>4. /\ pc'[c] = "idle" /\ read'[c] = None /\ todo'[c] = <<>>
        /\ \A d \in Cleaners \ {c} : pc'[d] = pc[d] /\ read'[d] = read[d] /\ todo'[d] = todo[d]
    BY <1>1 DEF Finish, LifecycleInv, TypeOK
  <2>5. TypeOK'
    BY <1>1, <1>3, <2>2, <2>3, <2>4 DEF Finish, LifecycleInv, TypeOK
  <2>6. LostByFaults'
    <3>1. Lost' \subseteq Lost
      BY <1>1, <1>3, <2>2, <2>4 DEF Lost
    <3>2. QED BY <1>3, <3>1, LostShrinks DEF LifecycleInv, TypeOK
  <2>7. \A i \in 1 .. Len(todo'[c]) : FALSE
    BY <2>4
  <2>8. faults' >= faults
    BY <1>3 DEF LifecycleInv, TypeOK
  <2>9. QED BY <1>1, <2>3, <2>4, <2>5, <2>6, <2>7, <2>8, CleanerFrame
<1>4. QED BY <1>1, <1>2, <1>3 DEF Sweep, Succeeds, Fails

-----------------------------------------------------------------------------
LEMMA NextInv == LifecycleAssumption /\ LifecycleInv /\ [Next]_vars => LifecycleInv'
<1> SUFFICES ASSUME LifecycleAssumption, LifecycleInv, [Next]_vars PROVE LifecycleInv'
  OBVIOUS
<1>1. CASE UNCHANGED vars
  BY <1>1 DEF vars, cleanerVars, boundVars, history, LifecycleInv, TypeOK, LostByFaults, Lost,
       SweepsUnkept, FetchedIsOld, PolicyIsAsked, ReadIsPromised, Stands, Days, Effective, Present
<1>2. CASE Next
  BY <1>2, BuryStep, DayStep, SetPolicyStep, RestartStep, ReadPolicyStep, CountStep, FetchStep,
     ArchiveStep, DeleteStep, SweepStep DEF Next, CleanerStep
<1>3. QED BY <1>1, <1>2

LEMMA Invariant == Spec => []LifecycleInv
<1>1. Init => LifecycleInv
  BY InitInv, LifecycleAssumption
<1>2. LifecycleInv /\ [Next]_vars => LifecycleInv'
  BY NextInv, LifecycleAssumption
<1>3. QED BY <1>1, <1>2, PTL DEF Spec

(* Every variable keeps its type: a letter that is gone has no row, and a  *)
(* cleanup has read a policy exactly while it is at work.                  *)
THEOREM LifecycleTypeOK == Spec => []TypeOK
<1>1. LifecycleInv => TypeOK
  BY DEF LifecycleInv
<1>2. QED BY <1>1, Invariant, PTL

(* Of the letters whose rows are gone, no more are without a copy, where   *)
(* the policy asked for one, than statements have failed: for any number   *)
(* of cleanups at once and any changes of the policy under them            *)
(* (lifecycle.py, _archive_dead_letter_rows).                              *)
THEOREM LifecycleEvidenceKept == Spec => []EvidenceKept
<1>1. ASSUME LifecycleInv PROVE EvidenceKept
  <2>1. gone \ (archived \cup unkept) \subseteq Lost
    BY <1>1 DEF Lost, LifecycleInv, TypeOK
  <2>2. IsFiniteSet(Lost) /\ Cardinality(Lost) <= faults /\ faults \in Nat
    BY <1>1 DEF LifecycleInv, LostByFaults, TypeOK
  <2>3. /\ IsFiniteSet(gone \ (archived \cup unkept))
        /\ Cardinality(gone \ (archived \cup unkept)) <= Cardinality(Lost)
    BY <2>1, <2>2, FS_Subset
  <2>4. /\ Cardinality(Lost) \in Nat
        /\ Cardinality(gone \ (archived \cup unkept)) \in Nat
    BY <2>2, <2>3, FS_CardinalityType
  <2>5. QED BY <2>2, <2>3, <2>4 DEF EvidenceKept
<1>2. QED BY <1>1, Invariant, PTL

(* A cleanup that takes a letter found it older than the days it had read. *)
LEMMA TakenIsOld ==
  ASSUME LifecycleAssumption, LifecycleInv, NEW c \in Cleaners, Delete(c) \/ Sweep(c),
         NEW l, l \in gone' \ gone
  PROVE  pc[c] # "idle" /\ pc'[c] # pc[c] /\ age[l] > read[c].days
<1>1. CASE Delete(c)
  <2>1. /\ pc[c] = "delete" /\ Head(todo[c]) = l /\ l \in Present
        /\ pc' = [pc EXCEPT ![c] = "idle"] \/ pc' = [pc EXCEPT ![c] = "archive"]
    BY <1>1 DEF Delete, Finish, Goto, DeleteLetters, Succeeds, Fails
  <2>2. todo[c] \in Seq(Letters) /\ todo[c] # <<>>
    BY <2>1 DEF LifecycleInv, TypeOK
  <2>3. 1 \in 1 .. Len(todo[c]) /\ Head(todo[c]) = todo[c][1]
    <3>1. Len(todo[c]) \in Nat \ {0}
      BY <2>2, EmptySeq
    <3>2. QED BY <2>2, <3>1
  <2>4. age[l] > read[c].days
    BY <2>1, <2>3 DEF LifecycleInv, FetchedIsOld
  <2>5. QED BY <2>1, <2>4 DEF LifecycleInv, TypeOK
<1>2. CASE Sweep(c)
  <2>1. PICK rows \in OldestBatches(c) : l \in Range(rows)
    BY <1>2 DEF Sweep, DeleteLetters, Succeeds, Fails
  <2>2. pc[c] = "sweep" /\ read[c] \in PolicyRows
    BY <1>2 DEF Sweep, LifecycleInv, TypeOK
  <2>3. l \in Eligible(c)
    BY <2>1, <2>2, BatchTyped DEF LifecycleInv
  <2>4. pc'[c] = "idle"
    BY <1>2 DEF Sweep, Finish, LifecycleInv, TypeOK
  <2>5. QED BY <2>2, <2>3, <2>4 DEF Eligible
<1>3. QED BY <1>1, <1>2

(* No letter goes before its time, whatever is set, restarted or cleaned   *)
(* up in between (lifecycle.py, run_data_lifecycle_cleanup).               *)
THEOREM LifecycleRetentionHonoured == Spec => RetentionHonoured
<1> DEFINE Timely == \A l \in gone' \ gone : \E c \in Cleaners :
                     Steps(c) /\ (Honoured(c, l) \/ (restarts + faults > 0 /\ age[l] > Default.days))
<1>1. ASSUME LifecycleAssumption, LifecycleInv, [Next]_vars PROVE Timely
  <2>1. ASSUME NEW c \in Cleaners, Delete(c) \/ Sweep(c) PROVE Timely
    <3>1. ASSUME NEW l \in gone' \ gone
          PROVE  Steps(c) /\ (Honoured(c, l) \/ (restarts + faults > 0 /\ age[l] > Default.days))
      <4>1. pc[c] # "idle" /\ pc'[c] # pc[c] /\ age[l] > read[c].days
        BY <1>1, <2>1, <3>1, TakenIsOld
      <4>2. faults \in Nat /\ restarts \in Nat
        BY <1>1 DEF LifecycleInv, TypeOK
      <4>3. Stands(read[c].days, promised[c])
        BY <1>1, <4>1 DEF LifecycleInv, ReadIsPromised
      <4>4. Honoured(c, l) <=> age[l] > Days(promised[c])
        BY DefaultTyped, <1>1 DEF Honoured, Days
      <4>5. restarts > 0 \/ faults > 0 => restarts + faults > 0
        BY <4>2
      <4>6. Steps(c)
        BY <4>1 DEF Steps
      <4>7. QED BY <4>1, <4>3, <4>4, <4>5, <4>6 DEF Stands
    <3>2. QED BY <2>1, <3>1
  <2>2. CASE UNCHANGED gone
    BY <2>2
  <2>3. ASSUME Next, ~\E c \in Cleaners : Delete(c) \/ Sweep(c) PROVE UNCHANGED gone
    BY <2>3 DEF Next, CleanerStep, DayPasses, Restart, Bury, SetPolicy, ReadPolicy, Count, Fetch,
         Archive, history
  <2>4. UNCHANGED vars => UNCHANGED gone
    BY DEF vars, history
  <2>5. QED BY <1>1, <2>1, <2>2, <2>3, <2>4
<1>2. LifecycleInv /\ [Next]_vars => [Timely]_vars
  BY <1>1, LifecycleAssumption
<1>3. QED BY <1>2, Invariant, PTL DEF RetentionHonoured, Spec

-----------------------------------------------------------------------------
(* Places have a first. *)
LEMMA LeastPlace ==
  ASSUME NEW I \in SUBSET Nat, I # {}
  PROVE  Min(I) \in I /\ \A j \in I : Min(I) <= j
<1> DEFINE Below == {pair \in Nat \X Nat : pair[1] < pair[2]}
<1>1. OpToRel(<, Nat) = Below
  BY DEF OpToRel
<1>2. IsWellFoundedOn(Below, Nat)
  BY <1>1, NatLessThanWellFounded
<1>3. \E i \in I : \A j \in I : <<j, i>> \notin Below
  <2> HIDE DEF Below
  <2>1. QED BY <1>2, WFMin
<1>4. PICK i \in I : \A j \in I : <<j, i>> \notin Below
  BY <1>3
<1>5. \A j \in I : ~(j < i)
  BY <1>4
<1>6. \A j \in I : i <= j
  BY <1>5
<1>7. QED BY <1>6 DEF Min

LEMMA FirstChoice ==
  ASSUME NEW rows, DOMAIN rows \subseteq Nat, NEW otherwise, NEW choices, DOMAIN choices \subseteq Nat,
         \A k \in DOMAIN choices : choices[k] \subseteq DOMAIN rows
  PROVE  \/ /\ First(rows, choices, otherwise) = otherwise
            /\ \A k \in DOMAIN choices : choices[k] = {}
         \/ \E k \in DOMAIN choices :
              /\ \E i \in choices[k] : First(rows, choices, otherwise) = rows[i]
              /\ \A j \in DOMAIN choices : j < k => choices[j] = {}
<1> DEFINE given == {k \in DOMAIN choices : choices[k] # {}}
<1>1. CASE given = {}
  BY <1>1 DEF First
<1>2. CASE given # {}
  <2>1. Min(given) \in given /\ \A k \in given : Min(given) <= k
    BY <1>2, LeastPlace
  <2>2. choices[Min(given)] \in SUBSET Nat /\ choices[Min(given)] # {}
    BY <2>1
  <2>3. Min(choices[Min(given)]) \in choices[Min(given)]
    BY <2>2, LeastPlace
  <2>4. First(rows, choices, otherwise) = rows[Min(choices[Min(given)])]
    BY <1>2 DEF First
  <2>5. ASSUME NEW j \in DOMAIN choices, j < Min(given), choices[j] # {} PROVE FALSE
    <3>1. j \in given /\ j \in Nat /\ Min(given) \in Nat
      BY <2>1, <2>5
    <3>2. \A u, v \in Nat : ~(u < v /\ v <= u)
      OBVIOUS
    <3>3. QED BY <2>1, <2>5, <3>1, <3>2
  <2>6. QED BY <2>1, <2>3, <2>4, <2>5
<1>3. QED BY <1>1, <1>2

(* Each of n places is the m-th of them for some m. *)
PlaceIn(I, i) == Cardinality({j \in I : j <= i})

LEMMA RankOnto ==
  ASSUME NEW I \in SUBSET Nat, IsFiniteSet(I)
  PROVE  /\ Cardinality(I) \in Nat
         /\ \A i \in I : PlaceIn(I, i) \in 1..Cardinality(I)
         /\ \A i, j \in I : PlaceIn(I, i) = PlaceIn(I, j) => i = j
         /\ \A n \in 1..Cardinality(I) : \E i \in I : PlaceIn(I, i) = n
<1>1. \A i \in I : /\ IsFiniteSet({j \in I : j <= i}) /\ {j \in I : j <= i} # {}
                   /\ PlaceIn(I, i) \in Nat /\ PlaceIn(I, i) <= Cardinality(I)
  <2> TAKE i \in I
  <2>1. {j \in I : j <= i} \in SUBSET I
    OBVIOUS
  <2>2. i \in {j \in I : j <= i}
    OBVIOUS
  <2>3. QED BY <2>1, <2>2, FS_Subset, FS_CardinalityType DEF PlaceIn
<1>2. \A i \in I : PlaceIn(I, i) # 0
  BY <1>1, FS_EmptySet DEF PlaceIn
<1>3. Cardinality(I) \in Nat
  BY FS_CardinalityType
<1>4. \A i \in I : PlaceIn(I, i) \in 1..Cardinality(I)
  <2>1. \A u, v \in Nat : u # 0 /\ u <= v => u \in 1..v
    OBVIOUS
  <2>2. QED BY <1>1, <1>2, <1>3, <2>1
<1>5. ASSUME NEW i \in I, NEW j \in I, i < j
      PROVE  PlaceIn(I, i) # PlaceIn(I, j)
  <2> DEFINE low == {k \in I : k <= i}
             high == {k \in I : k <= j}
  <2>1. low \in SUBSET high /\ j \in high /\ j \notin low
    <3>1. i \in Nat /\ j \in Nat
      OBVIOUS
    <3>2. \A k \in I : k \in Nat /\ (k <= i => k <= j) /\ j <= j /\ ~(j <= i)
      BY <1>5, <3>1
    <3>3. QED BY <3>2
  <2>2. IsFiniteSet(high)
    BY <1>1
  <2> HIDE DEF low, high
  <2>3. Cardinality(low) # Cardinality(high)
    BY <2>1, <2>2, FS_Subset
  <2>4. QED BY <2>3 DEF low, high, PlaceIn
<1>6. \A i, j \in I : PlaceIn(I, i) = PlaceIn(I, j) => i = j
  BY <1>5
<1> DEFINE rank == [i \in I |-> PlaceIn(I, i)]
           T == 1..Cardinality(I)
<1>7. rank \in Injection(I, T)
  BY <1>4, <1>6 DEF Injection, IsInjective
<1>8. IsFiniteSet(T) /\ Cardinality(T) = Cardinality(I)
  BY <1>3, FS_Interval
<1>9. rank \in Surjection(I, T)
  <2> HIDE DEF rank, T
  <2>1. QED BY <1>7, <1>8, FS_Injection
<1>10. \A n \in T : \E i \in I : PlaceIn(I, i) = n
  BY <1>9 DEF Surjection
<1>11. QED BY <1>3, <1>4, <1>6, <1>10

(* The elements at some places of a sequence, in their order. *)
LEMMA KeptIs ==
  ASSUME NEW S, NEW s \in Seq(S), NEW I \in SUBSET DOMAIN s
  PROVE  /\ Kept(s, I) \in Seq(S) /\ Len(Kept(s, I)) \in Nat
         /\ \A n \in 1..Len(Kept(s, I)) : \E i \in I : Kept(s, I)[n] = s[i]
         /\ 1 \in I => Len(Kept(s, I)) > 0 /\ Kept(s, I)[1] = s[1]
<1>1. I \in SUBSET Nat /\ IsFiniteSet(I)
  <2>1. DOMAIN s = 1..Len(s) /\ Len(s) \in Nat
    OBVIOUS
  <2>2. IsFiniteSet(1..Len(s))
    BY <2>1, FS_Interval
  <2>3. QED BY <2>1, <2>2, FS_Subset
<1> DEFINE Nth(n) == CHOOSE i \in I : Cardinality({j \in I : j <= i}) = n
           size == Cardinality(I)
<1>2. size \in Nat
  BY <1>1, RankOnto
<1>3. ASSUME NEW n \in 1..size PROVE Nth(n) \in I /\ PlaceIn(I, Nth(n)) = n
  <2>1. \E i \in I : Cardinality({j \in I : j <= i}) = n
    BY <1>1, RankOnto DEF PlaceIn
  <2>2. QED BY <2>1 DEF PlaceIn
<1>4. Kept(s, I) = [n \in 1..size |-> s[Nth(n)]]
  BY DEF Kept
<1>5. 1 \in I => size > 0 /\ Nth(1) = 1
  <2> SUFFICES ASSUME 1 \in I PROVE size > 0 /\ Nth(1) = 1
    OBVIOUS
  <2>1. {j \in I : j <= 1} = {1}
    <3>1. \A j \in I : j \in Nat
      BY <1>1
    <3>2. \A j \in I : j <= 1 => j \in {0, 1}
      BY <3>1
    <3>3. 0 \notin I
      <4>1. \A j \in DOMAIN s : j # 0
        OBVIOUS
      <4>2. QED BY <4>1
    <3>4. QED BY <3>2, <3>3
  <2>2. PlaceIn(I, 1) = 1
    BY <2>1, FS_Singleton DEF PlaceIn
  <2>3. 1 \in 1..size
    BY <1>1, <2>2, RankOnto
  <2>4. PlaceIn(I, Nth(1)) = PlaceIn(I, 1) /\ Nth(1) \in I
    BY <1>3, <2>2, <2>3
  <2> HIDE DEF Nth
  <2>5. Nth(1) = 1
    BY <1>1, <2>4, RankOnto
  <2>6. size > 0
    BY <1>2, <2>3
  <2>7. QED BY <2>5, <2>6
<1> HIDE DEF Nth, size
<1>6. Kept(s, I) \in Seq(S) /\ Len(Kept(s, I)) = size
  BY <1>2, <1>3, <1>4
<1>7. \A n \in 1..size : Kept(s, I)[n] = s[Nth(n)]
  BY <1>4
<1>8. 1 \in I => Kept(s, I)[1] = s[1]
  <2> SUFFICES ASSUME 1 \in I PROVE Kept(s, I)[1] = s[1]
    OBVIOUS
  <2>1. 1 \in 1..size
    BY <1>2, <1>5
  <2>2. QED BY <1>5, <1>7, <2>1
<1>9. QED BY <1>2, <1>3, <1>5, <1>6, <1>7, <1>8

LEMMA SupportsIsAble ==
  ASSUME NEW row, NEW a
  PROVE  Supports(row, a) <=> Able(row, a)
BY DEF Supports, Able, Serving, Conversing, Chatty

(* The prompt is one of the action, if there is one. *)
LEMMA PromptForAction ==
  ASSUME NEW S, NEW rows \in Seq(S), NEW a, NEW n \in DOMAIN rows, rows[n].name = a.action
  PROVE  SelectPrompt(rows, a).name = a.action
<1> DEFINE preferred == {i \in DOMAIN rows : rows[i].name = a.action}
           fallback == {i \in DOMAIN rows : rows[i].name = "fallback_chat"}
           choices == <<{i \in preferred : rows[i].version = a.version},
                        {i \in preferred : rows[i].mode = a.mode}, preferred,
                        {i \in fallback : rows[i].version = a.version}, fallback>>
           builtIn == [name |-> "fallback_chat", version |-> "phase3.v1", compatible |-> {Local},
                       mode |-> a.mode]
<1>1. DOMAIN rows \subseteq Nat
  OBVIOUS
<1>2. /\ DOMAIN choices = 1..5 /\ DOMAIN choices \subseteq Nat
      /\ \A k \in DOMAIN choices : choices[k] \subseteq DOMAIN rows
      /\ choices[3] # {}
      /\ \A k \in {1, 2, 3} : choices[k] \subseteq preferred
  OBVIOUS
<1>3. SelectPrompt(rows, a) = First(rows, choices, builtIn)
  BY DEF SelectPrompt
<1>4. \A i \in preferred : rows[i].name = a.action
  OBVIOUS
<1> HIDE DEF choices, builtIn, preferred, fallback
<1>5. 3 \in DOMAIN choices
  BY <1>2
<1>6. PICK k \in DOMAIN choices :
        /\ \E i \in choices[k] : First(rows, choices, builtIn) = rows[i]
        /\ \A j \in DOMAIN choices : j < k => choices[j] = {}
  <2>1. \/ /\ First(rows, choices, builtIn) = builtIn
           /\ \A k \in DOMAIN choices : choices[k] = {}
        \/ \E k \in DOMAIN choices :
             /\ \E i \in choices[k] : First(rows, choices, builtIn) = rows[i]
             /\ \A j \in DOMAIN choices : j < k => choices[j] = {}
    <3>1. DOMAIN choices \subseteq Nat /\ \A k \in DOMAIN choices : choices[k] \subseteq DOMAIN rows
      BY <1>2
    <3>2. QED BY ONLY <1>1, <3>1, FirstChoice
  <2>2. QED BY <1>2, <1>5, <2>1
<1>7. k \in {1, 2, 3}
  BY <1>2, <1>6
<1>8. QED BY <1>2, <1>3, <1>4, <1>6, <1>7

(* No model that can do what is asked is preferred to the one selected. *)
LEMMA ModelIsBest ==
  ASSUME NEW S, NEW rows \in Seq(S), NEW a, NEW prompt
  PROVE  \/ Candidates(rows, a) = {} /\ SelectModel(rows, a, prompt) = SettingsModel
         \/ \E i \in Candidates(rows, a) :
              /\ SelectModel(rows, a, prompt) = rows[i]
              /\ \A j \in Candidates(rows, a) : Rank(rows[j], a, prompt) <= Rank(rows[i], a, prompt)
<1> DEFINE candidates == Candidates(rows, a)
           choices == <<{i \in candidates : rows[i].name = a.model},
                        {i \in candidates : rows[i].name \in prompt.compatible},
                        {i \in candidates : rows[i].default}, candidates>>
<1>1. DOMAIN rows \subseteq Nat /\ candidates \subseteq DOMAIN rows
  BY DEF Candidates
<1> HIDE DEF candidates
<1>2. /\ DOMAIN choices = 1..4 /\ DOMAIN choices \subseteq Nat
      /\ \A k \in DOMAIN choices : choices[k] \subseteq DOMAIN rows
      /\ choices[1] = {i \in candidates : rows[i].name = a.model}
      /\ choices[2] = {i \in candidates : rows[i].name \in prompt.compatible}
      /\ choices[3] = {i \in candidates : rows[i].default}
      /\ choices[4] = candidates
  BY <1>1
<1>3. SelectModel(rows, a, prompt) = First(rows, choices, SettingsModel)
  BY DEF SelectModel, candidates
<1> HIDE DEF choices
<1>4. CASE /\ First(rows, choices, SettingsModel) = SettingsModel
           /\ \A k \in DOMAIN choices : choices[k] = {}
  BY <1>2, <1>3, <1>4 DEF candidates
<1>5. ASSUME NEW k \in DOMAIN choices, NEW i \in choices[k],
             First(rows, choices, SettingsModel) = rows[i],
             \A j \in DOMAIN choices : j < k => choices[j] = {}
      PROVE  /\ i \in candidates
             /\ \A j \in candidates : Rank(rows[j], a, prompt) <= Rank(rows[i], a, prompt)
  <2>1. i \in candidates
    BY <1>2, <1>5
  <2>2. k = 1 \/ choices[1] = {}
    BY <1>2, <1>5
  <2>3. k \in {1, 2} \/ choices[2] = {}
    BY <1>2, <1>5
  <2>4. k \in {1, 2, 3} \/ choices[3] = {}
    BY <1>2, <1>5
  <2>5. k \in {1, 2, 3, 4}
    BY <1>2
  <2>6. QED BY <1>2, <2>1, <2>2, <2>3, <2>4, <2>5 DEF Rank
<1>6. QED BY <1>1, <1>2, <1>3, <1>4, <1>5, FirstChoice DEF candidates

(* What is tried beyond the selected model. *)
FallbacksFrom(rows, a, selected, N) ==
  /\ Fallbacks(rows, a, selected) \in Seq(N)
  /\ \A n \in 1..Len(Fallbacks(rows, a, selected)) :
       IF ToSet(a.fallbacks) \cup ToSet(selected.fallbacks) # {}
       THEN Fallbacks(rows, a, selected)[n] \in ToSet(a.fallbacks) \cup ToSet(selected.fallbacks)
       ELSE \E i \in Candidates(rows, a) : Fallbacks(rows, a, selected)[n] = rows[i].name

LEMMA FallbacksAre ==
  ASSUME NEW S, NEW rows \in Seq(S), NEW a, NEW selected,
         IsSequence(a.fallbacks), IsSequence(selected.fallbacks),
         NEW N, ToSet(a.fallbacks) \subseteq N, ToSet(selected.fallbacks) \subseteq N,
         \A i \in DOMAIN rows : rows[i].name \in N
  PROVE  FallbacksFrom(rows, a, selected, N)
<1>1. ASSUME NEW s, IsSequence(s), ToSet(s) \subseteq N
      PROVE  /\ s \in Seq(N) /\ \A n \in 1..Len(s) : s[n] \in ToSet(s)
             /\ s # <<>> => ToSet(s) # {}
  <2>1. s \in Seq(ToSet(s))
    BY <1>1 DEF IsSequence
  <2> DEFINE T == ToSet(s)
  <2> HIDE DEF T
  <2>2. s \in Seq(T) /\ T \subseteq N
    BY <1>1, <2>1 DEF T
  <2>3. s \in Seq(N) /\ \A n \in 1..Len(s) : s[n] \in T
    BY <2>2
  <2>4. s # <<>> => 1 \in 1..Len(s)
    BY <2>2
  <2>5. QED BY <2>3, <2>4 DEF T
<1>2. ASSUME NEW s, IsSequence(s), s = <<>> PROVE ToSet(s) = {}
  BY <1>2 DEF ToSet
<1>3. CASE a.fallbacks # <<>>
  BY <1>1, <1>3 DEF Fallbacks, FallbacksFrom
<1>4. CASE a.fallbacks = <<>> /\ selected.fallbacks # <<>>
  BY <1>1, <1>4 DEF Fallbacks, FallbacksFrom
<1>5. CASE a.fallbacks = <<>> /\ selected.fallbacks = <<>>
  <2> DEFINE names == [i \in DOMAIN rows |-> rows[i].name]
             others == {i \in Candidates(rows, a) : rows[i].name # selected.name}
  <2>1. Fallbacks(rows, a, selected) = Kept(names, others)
    BY <1>5 DEF Fallbacks
  <2>2. names \in Seq(N) /\ DOMAIN names = DOMAIN rows /\ \A i \in DOMAIN rows : names[i] = rows[i].name
    OBVIOUS
  <2>3. others \in SUBSET DOMAIN rows /\ others \subseteq Candidates(rows, a)
    BY DEF Candidates
  <2> HIDE DEF names, others
  <2>4. /\ Kept(names, others) \in Seq(N)
        /\ \A n \in 1..Len(Kept(names, others)) : \E i \in others : Kept(names, others)[n] = names[i]
    BY <2>2, <2>3, KeptIs
  <2>5. ToSet(a.fallbacks) \cup ToSet(selected.fallbacks) = {}
    BY <1>2, <1>5
  <2>6. QED BY <2>1, <2>2, <2>3, <2>4, <2>5 DEF FallbacksFrom
<1>6. QED BY <1>3, <1>4, <1>5

(* The selected model comes first. *)
LEMMA AttemptsAre ==
  ASSUME NEW N, NEW rows, NEW a, NEW selected, selected.name \in N,
         Fallbacks(rows, a, selected) \in Seq(N)
  PROVE  /\ Attempts(rows, a, selected) \in Seq(N) /\ Len(Attempts(rows, a, selected)) > 0
         /\ Attempts(rows, a, selected)[1] = selected.name
         /\ \A n \in 1..Len(Attempts(rows, a, selected)) :
              \/ Attempts(rows, a, selected)[n] = selected.name
              \/ \E i \in 1..Len(Fallbacks(rows, a, selected)) :
                   Attempts(rows, a, selected)[n] = Fallbacks(rows, a, selected)[i]
<1> DEFINE f == Fallbacks(rows, a, selected)
           names == <<selected.name>> \o f
           firsts == {i \in DOMAIN names : \A j \in 1..(i - 1) : names[j] # names[i]}
<1> HIDE DEF f
<1>1. f \in Seq(N) /\ <<selected.name>> \in Seq(N)
  BY DEF f
<1>2. /\ names \in Seq(N) /\ DOMAIN names = 1..(1 + Len(f)) /\ names[1] = selected.name
      /\ \A i \in DOMAIN names : i = 1 \/ (i - 1 \in 1..Len(f) /\ names[i] = f[i - 1])
  BY <1>1
<1> HIDE DEF names
<1>3. firsts \in SUBSET DOMAIN names
  OBVIOUS
<1>4. 1 \in firsts
  BY <1>1, <1>2
<1>5. Attempts(rows, a, selected) = Kept(names, firsts)
  BY DEF Attempts, names, f
<1> HIDE DEF firsts
<1>6. /\ Kept(names, firsts) \in Seq(N) /\ Len(Kept(names, firsts)) > 0 /\ Kept(names, firsts)[1] = names[1]
      /\ \A n \in 1..Len(Kept(names, firsts)) : \E i \in firsts : Kept(names, firsts)[n] = names[i]
  BY <1>2, <1>3, <1>4, KeptIs
<1>7. ASSUME NEW n \in 1..Len(Kept(names, firsts))
      PROVE  \/ Kept(names, firsts)[n] = selected.name
             \/ \E i \in 1..Len(f) : Kept(names, firsts)[n] = f[i]
  BY <1>2, <1>3, <1>6
<1>8. QED BY <1>2, <1>5, <1>6, <1>7 DEF f
-----------------------------------------------------------------------------
(* The registries: rows with one key are the same row. *)
Unique(rows) == \A i, j \in DOMAIN rows : Key(rows[i]) = Key(rows[j]) => rows[i] = rows[j]

LEMMA KeptUnique ==
  ASSUME NEW S, NEW rows \in Seq(S), NEW I \in SUBSET DOMAIN rows, Unique(rows)
  PROVE  Unique(Kept(rows, I))
<1>1. /\ Kept(rows, I) \in Seq(S)
      /\ \A n \in 1..Len(Kept(rows, I)) : \E i \in I : Kept(rows, I)[n] = rows[i]
  BY KeptIs
<1>2. DOMAIN Kept(rows, I) = 1..Len(Kept(rows, I))
  BY <1>1
<1>3. QED BY <1>1, <1>2 DEF Unique

LEMMA JoinedUnique ==
  ASSUME NEW S, NEW p \in Seq(S), NEW q \in Seq(S), Unique(p), Unique(q),
         \A i \in DOMAIN p, j \in DOMAIN q : Key(p[i]) # Key(q[j])
  PROVE  p \o q \in Seq(S) /\ Unique(p \o q)
<1> DEFINE s == p \o q
<1>1. s \in Seq(S) /\ DOMAIN s = 1..(Len(p) + Len(q))
  OBVIOUS
<1>2. \A n \in DOMAIN s : \/ n \in DOMAIN p /\ s[n] = p[n]
                          \/ n - Len(p) \in DOMAIN q /\ s[n] = q[n - Len(p)]
  OBVIOUS
<1> HIDE DEF s
<1>3. ASSUME NEW m \in DOMAIN s, NEW n \in DOMAIN s, Key(s[m]) = Key(s[n]) PROVE s[m] = s[n]
  BY <1>2, <1>3 DEF Unique
<1>4. QED BY <1>1, <1>3 DEF s, Unique

LEMMA UpsertedIs ==
  ASSUME NEW S, NEW rows \in Seq(S), NEW row \in S, Unique(rows)
  PROVE  Upserted(rows, row) \in Seq(S) /\ Unique(Upserted(rows, row))
<1> DEFINE I == {i \in DOMAIN rows : Key(rows[i]) # Key(row)}
           rest == Kept(rows, I)
           first == <<row>>
<1>1. I \in SUBSET DOMAIN rows /\ \A i \in I : Key(rows[i]) # Key(row)
  OBVIOUS
<1>2. Upserted(rows, row) = first \o rest
  BY DEF Upserted
<1>3. first \in Seq(S) /\ Unique(first) /\ DOMAIN first = {1} /\ first[1] = row
  BY DEF Unique
<1> HIDE DEF I
<1>4. /\ rest \in Seq(S) /\ Unique(rest)
      /\ \A n \in 1..Len(rest) : \E i \in I : rest[n] = rows[i]
  BY <1>1, KeptIs, KeptUnique
<1>5. DOMAIN rest = 1..Len(rest)
  BY <1>4
<1>6. \A i \in DOMAIN first, j \in DOMAIN rest : Key(first[i]) # Key(rest[j])
  BY <1>1, <1>3, <1>4, <1>5
<1> HIDE DEF rest, first
<1>7. QED BY <1>2, <1>3, <1>4, <1>6, JoinedUnique

LEMMA SeededIs ==
  ASSUME NEW S, NEW rows \in Seq(S), NEW seeds \in Seq(S), NEW lost, Unique(rows), Unique(seeds)
  PROVE  SeededAgain(rows, seeds, lost) \in Seq(S) /\ Unique(SeededAgain(rows, seeds, lost))
<1> DEFINE latest == Reverse(seeds)
           stored == {i \in DOMAIN latest : latest[i] \notin lost}
           I == {i \in DOMAIN rows : \A j \in stored : Key(latest[j]) # Key(rows[i])}
           p == Kept(latest, stored)
           q == Kept(rows, I)
<1>1. latest \in Seq(S) /\ DOMAIN latest = 1..Len(seeds)
  BY DEF Reverse
<1>2. \A i \in DOMAIN latest : Len(seeds) - i + 1 \in DOMAIN seeds /\ latest[i] = seeds[Len(seeds) - i + 1]
  BY DEF Reverse
<1>3. Unique(latest)
  <2> HIDE DEF latest
  <2>1. QED BY <1>2 DEF Unique
<1>4. SeededAgain(rows, seeds, lost) = p \o q
  BY DEF SeededAgain
<1>5. /\ stored \in SUBSET DOMAIN latest /\ I \in SUBSET DOMAIN rows
      /\ \A i \in stored, j \in I : Key(latest[i]) # Key(rows[j])
  OBVIOUS
<1> HIDE DEF latest, stored, I
<1>6. /\ p \in Seq(S) /\ Unique(p) /\ q \in Seq(S) /\ Unique(q)
      /\ \A n \in 1..Len(p) : \E i \in stored : p[n] = latest[i]
      /\ \A n \in 1..Len(q) : \E i \in I : q[n] = rows[i]
  BY <1>1, <1>3, <1>5, KeptIs, KeptUnique
<1>7. DOMAIN p = 1..Len(p) /\ DOMAIN q = 1..Len(q)
  BY <1>6
<1>8. \A i \in DOMAIN p, j \in DOMAIN q : Key(p[i]) # Key(q[j])
  BY <1>5, <1>6, <1>7
<1> HIDE DEF p, q
<1>9. QED BY <1>4, <1>6, <1>8, JoinedUnique
-----------------------------------------------------------------------------
(* The route.                                                              *)
ModelNames ==
  {Local} \cup {row.name : row \in ModelRows}
    \cup (UNION {ToSet(row.fallbacks) : row \in ModelRows})
    \cup (UNION {ToSet(a.fallbacks) : a \in Requests})

LEMMA DeclaredNames ==
  ASSUME NEW a \in Requests \cup {Nothing}
  PROVE  IsSequence(a.fallbacks) /\ ToSet(a.fallbacks) \subseteq ModelNames
<1>1. CASE a \in Requests
  <2>1. IsSequence(a.fallbacks)
    BY <1>1, RoutingAssumption DEF RoutingAssumption
  <2>2. ToSet(a.fallbacks) \subseteq ModelNames
    BY <1>1 DEF ModelNames
  <2>3. QED BY <2>1, <2>2
<1>2. CASE a = Nothing
  <2>1. a.fallbacks = <<>>
    BY <1>2 DEF Nothing
  <2>2. QED BY <2>1 DEF IsSequence, ToSet
<1>3. QED BY <1>1, <1>2

(* What RouteIsBest says of one route. *)
IsBest(r, a, mrows, prows) ==
  LET able == {row \in ToSet(mrows) : Able(row, a)}
      chosen == {row \in able : row.name = r.model}
      declared == ToSet(a.fallbacks) \cup UNION {ToSet(row.fallbacks) : row \in chosen}
  IN /\ able # {} => chosen # {}
     /\ \A row \in chosen : \A other \in able : Rank(other, a, r.prompt) <= Rank(row, a, r.prompt)
     /\ Head(r.attempts) = r.model
     /\ ToSet(r.attempts)
          \subseteq {r.model} \cup (IF declared # {} THEN declared ELSE {row.name : row \in able})
     /\ (\E row \in ToSet(prows) : row.name = a.action) => r.prompt.name = a.action

LEMMA ResolvedIsBest ==
  ASSUME NEW a \in Requests \cup {Nothing}, NEW mrows \in Seq(ModelRows), NEW prows \in Seq(PromptRows),
         Unique(mrows)
  PROVE  /\ Resolve(a, mrows, prows).attempts \in Seq(ModelNames)
         /\ Len(Resolve(a, mrows, prows).attempts) > 0
         /\ IsBest(Resolve(a, mrows, prows), a, mrows, prows)
<1> DEFINE prompt == SelectPrompt(prows, a)
           selected == SelectModel(mrows, a, prompt)
           attempts == Attempts(mrows, a, selected)
           r == Resolve(a, mrows, prows)
           able == {row \in ToSet(mrows) : Able(row, a)}
           chosen == {row \in able : row.name = r.model}
           declared == ToSet(a.fallbacks) \cup UNION {ToSet(row.fallbacks) : row \in chosen}
           f == Fallbacks(mrows, a, selected)
           C == Candidates(mrows, a)
<1>1. r.prompt = prompt /\ r.model = selected.name /\ r.attempts = attempts
  BY DEF Resolve
<1>2. \A i \in DOMAIN mrows : mrows[i] \in ModelRows
  OBVIOUS
<1>3. /\ C \subseteq DOMAIN mrows
      /\ \A i \in DOMAIN mrows : i \in C <=> Able(mrows[i], a)
      /\ \A i \in C : mrows[i] \in able
      /\ \A row \in able : \E i \in C : row = mrows[i]
  BY SupportsIsAble DEF Candidates, ToSet
<1>4. \/ C = {} /\ selected = SettingsModel
      \/ \E i \in C :
           /\ selected = mrows[i]
           /\ \A j \in C : Rank(mrows[j], a, prompt) <= Rank(mrows[i], a, prompt)
  <2> HIDE DEF prompt
  <2>1. QED BY ModelIsBest
<1> HIDE DEF C, able, prompt, selected, r
<1>5. able = {} \/ selected \in able
  BY <1>3, <1>4
<1>6. \A i, j \in DOMAIN mrows : mrows[i].name = mrows[j].name => mrows[i] = mrows[j]
  <2>1. \A i \in DOMAIN mrows : "version" \notin DOMAIN mrows[i]
    BY <1>2, RoutingAssumption DEF RoutingAssumption
  <2>2. QED BY <2>1 DEF Unique, Key
<1>7. \A row \in chosen : row = selected
  BY <1>1, <1>3, <1>4, <1>6
<1>8. \A row \in chosen : \A other \in able : Rank(other, a, prompt) <= Rank(row, a, prompt)
  <2> SUFFICES ASSUME NEW row \in chosen, NEW other \in able
               PROVE  Rank(other, a, prompt) <= Rank(row, a, prompt)
    OBVIOUS
  <2>1. row = selected /\ row \in able
    BY <1>7
  <2>2. QED BY <1>3, <1>4, <2>1
<1>9. /\ IsSequence(selected.fallbacks) /\ ToSet(selected.fallbacks) \subseteq ModelNames
      /\ selected.name \in ModelNames
  <2>1. CASE selected = SettingsModel
    <3>1. selected.fallbacks = <<>> /\ selected.name = Local
      BY <2>1 DEF SettingsModel
    <3>2. QED BY <3>1 DEF IsSequence, ToSet, ModelNames
  <2>2. CASE selected \in ModelRows
    BY <2>2, RoutingAssumption DEF RoutingAssumption, ModelNames
  <2>3. QED BY <1>2, <1>3, <1>4, <2>1, <2>2
<1>10. /\ f \in Seq(ModelNames)
       /\ \A n \in 1..Len(f) :
            IF ToSet(a.fallbacks) \cup ToSet(selected.fallbacks) # {}
            THEN f[n] \in ToSet(a.fallbacks) \cup ToSet(selected.fallbacks)
            ELSE \E i \in C : f[n] = mrows[i].name
  <2>1. \A i \in DOMAIN mrows : mrows[i].name \in ModelNames
    BY <1>2 DEF ModelNames
  <2>2. /\ IsSequence(a.fallbacks) /\ ToSet(a.fallbacks) \subseteq ModelNames
        /\ IsSequence(selected.fallbacks) /\ ToSet(selected.fallbacks) \subseteq ModelNames
    BY <1>9, DeclaredNames
  <2>3. FallbacksFrom(mrows, a, selected, ModelNames)
    BY <2>1, <2>2, FallbacksAre
  <2>4. QED BY <2>3 DEF C, FallbacksFrom
<1>11. /\ attempts \in Seq(ModelNames) /\ Len(attempts) > 0 /\ attempts[1] = selected.name
       /\ \A n \in 1..Len(attempts) : attempts[n] = selected.name \/ \E i \in 1..Len(f) : attempts[n] = f[i]
  BY <1>9, <1>10, AttemptsAre
<1>12. declared = ToSet(a.fallbacks) \cup ToSet(selected.fallbacks)
  <2>1. CASE selected \in able
    <3>1. chosen = {selected}
      BY <1>1, <1>7, <2>1
    <3>2. QED BY <3>1
  <2>2. CASE able = {}
    <3>1. selected.fallbacks = <<>>
      BY <1>3, <1>4, <2>2 DEF SettingsModel
    <3>2. ToSet(selected.fallbacks) = {} /\ chosen = {}
      BY <2>2, <3>1 DEF ToSet
    <3>3. QED BY <3>2
  <2>3. QED BY <1>5, <2>1, <2>2
<1> HIDE DEF f, attempts, declared
<1>13. ASSUME NEW name \in ToSet(attempts)
       PROVE  name \in {selected.name} \cup (IF declared # {} THEN declared ELSE {row.name : row \in able})
  <2>1. PICK n \in 1..Len(attempts) : name = attempts[n]
    BY <1>11, <1>13 DEF ToSet
  <2>2. CASE name = selected.name
    BY <2>2
  <2>3. ASSUME NEW i \in 1..Len(f), name = f[i] PROVE name \in (IF declared # {} THEN declared ELSE {row.name : row \in able})
    BY <1>3, <1>10, <1>12, <2>3
  <2>4. QED BY <1>11, <2>1, <2>2, <2>3
<1>14. (\E row \in ToSet(prows) : row.name = a.action) => prompt.name = a.action
  BY PromptForAction DEF ToSet, prompt
<1>15. Head(attempts) = selected.name
  BY <1>11
<1>16. able # {} => chosen # {}
  BY <1>1, <1>5
<1> HIDE DEF chosen
<1>17. IsBest(r, a, mrows, prows)
  <2>1. /\ able # {} => chosen # {}
        /\ \A row \in chosen : \A other \in able : Rank(other, a, r.prompt) <= Rank(row, a, r.prompt)
        /\ Head(r.attempts) = r.model
        /\ ToSet(r.attempts)
             \subseteq {r.model} \cup (IF declared # {} THEN declared ELSE {row.name : row \in able})
        /\ (\E row \in ToSet(prows) : row.name = a.action) => r.prompt.name = a.action
    BY <1>1, <1>8, <1>13, <1>14, <1>15, <1>16
  <2>2. QED BY <2>1 DEF IsBest, able, chosen, declared
<1>18. QED BY <1>1, <1>11, <1>17 DEF r
-----------------------------------------------------------------------------
(* The invariant.  A route, once it is made, is that of what was asked and *)
(* what was read.                                                          *)
Routed(at, a, mrows, prows, r) ==
  /\ at \in {"models", "prompts"} => r = NoRoute
  /\ r = NoRoute \/ r = Resolve(a, mrows, prows)

(* What was tried are the first attempts of the route, and how far a       *)
(* request has come tells which records it has left.                       *)
Records(at, attempts, t, stored, recorded, audited, answered) ==
  /\ Len(t) <= Len(attempts) /\ \A i \in 1..Len(t) : t[i] = attempts[i]
  /\ at \in {"models", "prompts"} => t = <<>>
  /\ at \in {"models", "prompts", "try", "store", "runFailed", "auditFailed"} => stored = <<>>
  /\ at \in {"models", "prompts", "try", "store", "run", "runFailed"} => recorded = NoRun
  /\ at \in {"store", "run", "audit"} => t # <<>>
  /\ at \in {"run", "audit"} => stored # <<>>
  /\ at \in {"runFailed", "auditFailed"} => Len(t) = Len(attempts)
  /\ at # "idle" => answered = "none"
  /\ stored # <<>> => t # <<>> /\ stored = <<Last(t)>>
  /\ recorded # NoRun =>
       /\ recorded.attempted = t
       /\ recorded.status = "completed" <=> stored # <<>>
       /\ recorded.status = "completed" => recorded.model = stored[1]
  /\ answered = "text" => stored # <<>> /\ audited = "allow"
  /\ answered = "unavailable" => stored = <<>> /\ audited = "deny" /\ Len(t) = Len(attempts)

RoutedOf(c) == Routed(place[c], request[c], modelRows[c], promptRows[c], route[c])
RecordsOf(c) == Records(place[c], route[c].attempts, tried[c], artifacts[c], run[c], audit[c], answer[c])

Kinds ==
  /\ RoutingTypeOK
  /\ Unique(models) /\ Unique(prompts) /\ \A c \in Callers : Unique(modelRows[c])
  /\ route = [c \in Callers |-> route[c]] /\ \A c \in Callers : route[c].attempts \in Seq(ModelNames)
  /\ tried \in [Callers -> Seq(ModelNames)] /\ artifacts \in [Callers -> Seq(ModelNames)]
  /\ run = [c \in Callers |-> run[c]]

RoutingInv == Kinds /\ \A c \in Callers : RoutedOf(c) /\ RecordsOf(c)

(* One caller steps and the others stay. *)
Elsewhere(c) ==
  \A d \in Callers \ {c} :
    /\ place'[d] = place[d] /\ request'[d] = request[d]
    /\ modelRows'[d] = modelRows[d] /\ promptRows'[d] = promptRows[d]
    /\ route'[d] = route[d] /\ tried'[d] = tried[d]
    /\ artifacts'[d] = artifacts[d] /\ run'[d] = run[d] /\ audit'[d] = audit[d] /\ answer'[d] = answer[d]

LEMMA OthersStay ==
  ASSUME RoutingInv, NEW c \in Callers, Elsewhere(c), Kinds', RoutedOf(c)', RecordsOf(c)'
  PROVE  RoutingInv'
<1>1. ASSUME NEW d \in Callers \ {c} PROVE RoutedOf(d)' /\ RecordsOf(d)'
  <2>1. RoutedOf(d) /\ RecordsOf(d)
    BY DEF RoutingInv
  <2>2. RoutedOf(d)' /\ RecordsOf(d)'
    BY <2>1 DEF Elsewhere, RoutedOf, RecordsOf
  <2>3. QED BY <2>2
<1>2. QED BY <1>1 DEF RoutingInv

LEMMA Wider ==
  ASSUME NEW A, NEW B, A \subseteq B, NEW s \in Seq(A)
  PROVE  s \in Seq(B)
OBVIOUS

LEMMA SeedsAreRows ==
  /\ SeedModels \in Seq(ModelRows) /\ Unique(SeedModels)
  /\ SeedPrompts \in Seq(PromptRows) /\ Unique(SeedPrompts)
<1>1. /\ SeedModels \in Seq(ToSet(SeedModels)) /\ SeedPrompts \in Seq(ToSet(SeedPrompts))
  BY RoutingAssumption DEF RoutingAssumption, IsSequence
<1>2. ToSet(SeedModels) \subseteq ModelRows /\ ToSet(SeedPrompts) \subseteq PromptRows
  BY DEF ModelRows, PromptRows
<1>3. Unique(SeedModels) /\ Unique(SeedPrompts)
  BY RoutingAssumption DEF RoutingAssumption, Unique
<1>4. QED BY <1>1, <1>2, <1>3, Wider

(* What a statement and a step do to the types. *)
LEMMA StatementKeeps ==
  ASSUME RoutingInv, NEW ok \in BOOLEAN, Statement(ok)
  PROVE  troubles' \in 0..MaxTroubles /\ registered' \in 0..MaxRegistered
<1>1. troubles \in 0..MaxTroubles /\ registered \in 0..MaxRegistered /\ MaxTroubles \in Nat
  BY RoutingAssumption DEF RoutingInv, Kinds, RoutingTypeOK, RoutingAssumption
<1>2. QED BY <1>1 DEF Statement

LEMMA FetchModelsStep ==
  ASSUME RoutingInv, NEW c \in Callers, NEW ok \in BOOLEAN, FetchModels(c, ok)
  PROVE  RoutingInv'
<1> DEFINE rows == Fetched(models, SeedModels, ok)
<1>1. Kinds /\ RoutedOf(c) /\ RecordsOf(c) /\ troubles' \in 0..MaxTroubles /\ registered' \in 0..MaxRegistered
  BY StatementKeeps DEF RoutingInv, FetchModels
<1>2. rows \in Seq(ModelRows) /\ Unique(rows)
  BY <1>1, SeedsAreRows DEF Fetched, Kinds, RoutingTypeOK
<1> HIDE DEF rows
<1>3. /\ place[c] = "models" /\ place' = [place EXCEPT ![c] = "prompts"]
      /\ modelRows' = [modelRows EXCEPT ![c] = rows]
      /\ UNCHANGED <<request, models, prompts, promptRows, route, tried, artifacts, run, audit, answer>>
  BY DEF FetchModels, Step, registries, records, rows
<1>4. Kinds'
  <2>1. RoutingTypeOK'
    BY <1>1, <1>2, <1>3 DEF Kinds, RoutingTypeOK
  <2>2. \A d \in Callers : Unique(modelRows'[d])
    BY <1>1, <1>2, <1>3 DEF Kinds, RoutingTypeOK
  <2>3. Unique(models)' /\ Unique(prompts)'
    BY <1>1, <1>3 DEF Kinds, Unique
  <2>4. QED BY <1>1, <1>3, <2>1, <2>2, <2>3 DEF Kinds, Unique
<1>5. Elsewhere(c)
  BY <1>1, <1>3 DEF Elsewhere, Kinds, RoutingTypeOK
<1>6. place'[c] = "prompts"
  BY <1>1, <1>3 DEF Kinds, RoutingTypeOK
<1>7. RoutedOf(c)'
  BY <1>1, <1>3, <1>6 DEF RoutedOf, Routed
<1>8. RecordsOf(c)'
  BY <1>1, <1>3, <1>6 DEF RecordsOf, Records
<1>9. QED BY <1>4, <1>5, <1>7, <1>8, OthersStay

LEMMA BeginStep ==
  ASSUME RoutingInv, NEW c \in Callers, NEW a \in Requests, Begin(c, a)
  PROVE  RoutingInv'
<1>1. Kinds
  BY DEF RoutingInv
<1>2. /\ place' = [place EXCEPT ![c] = "models"] /\ request' = [request EXCEPT ![c] = a]
      /\ modelRows' = [modelRows EXCEPT ![c] = <<>>] /\ promptRows' = [promptRows EXCEPT ![c] = <<>>]
      /\ route' = [route EXCEPT ![c] = NoRoute] /\ tried' = [tried EXCEPT ![c] = <<>>]
      /\ artifacts' = [artifacts EXCEPT ![c] = <<>>]
      /\ run' = [run EXCEPT ![c] = NoRun] /\ audit' = [audit EXCEPT ![c] = "none"]
      /\ answer' = [answer EXCEPT ![c] = "none"]
      /\ UNCHANGED <<models, prompts, registered, troubles>>
  BY DEF Begin, registries, bounds
<1>3. Elsewhere(c)
  BY <1>1, <1>2 DEF Elsewhere, Kinds, RoutingTypeOK
<1>4. /\ place'[c] = "models" /\ route'[c] = NoRoute /\ tried'[c] = <<>> /\ artifacts'[c] = <<>>
      /\ run'[c] = NoRun /\ answer'[c] = "none" /\ modelRows'[c] = <<>>
  BY <1>1, <1>2 DEF Kinds, RoutingTypeOK
<1>5. Unique(<<>>) /\ NoRoute.attempts = <<>>
  BY DEF Unique, NoRoute
<1>6. Kinds'
  <2>1. RoutingTypeOK'
    BY <1>1, <1>2 DEF Kinds, RoutingTypeOK
  <2>2. \A d \in Callers : Unique(modelRows'[d]) /\ route'[d].attempts \in Seq(ModelNames)
    <3>1. <<>> \in Seq(ModelNames)
      OBVIOUS
    <3>2. Unique(modelRows'[c]) /\ route'[c].attempts \in Seq(ModelNames)
      BY <1>4, <1>5, <3>1
    <3>3. ASSUME NEW d \in Callers \ {c} PROVE Unique(modelRows'[d]) /\ route'[d].attempts \in Seq(ModelNames)
      BY <1>1, <1>3 DEF Kinds, Elsewhere
    <3>4. QED BY <3>2, <3>3
  <2>3. Unique(models)' /\ Unique(prompts)'
    BY <1>1, <1>2 DEF Kinds, Unique
  <2>4. /\ tried' \in [Callers -> Seq(ModelNames)] /\ artifacts' \in [Callers -> Seq(ModelNames)]
        /\ run' = [d \in Callers |-> run'[d]] /\ route' = [d \in Callers |-> route'[d]]
    <3>1. <<>> \in Seq(ModelNames)
      OBVIOUS
    <3>2. tried' \in [Callers -> Seq(ModelNames)] /\ artifacts' \in [Callers -> Seq(ModelNames)]
      BY <1>1, <1>2, <3>1 DEF Kinds
    <3>3. run' = [d \in Callers |-> run'[d]]
      BY <1>1, <1>2 DEF Kinds
    <3>4. route' = [d \in Callers |-> route'[d]]
      BY <1>1, <1>2 DEF Kinds
    <3>5. QED BY <3>2, <3>3, <3>4
  <2>5. QED BY <2>1, <2>2, <2>3, <2>4 DEF Kinds, Unique
<1>7. RoutedOf(c)'
  BY <1>4 DEF RoutedOf, Routed
<1>8. RecordsOf(c)'
  BY <1>4, <1>5 DEF RecordsOf, Records
<1>9. QED BY <1>3, <1>6, <1>7, <1>8, OthersStay

LEMMA FetchPromptsStep ==
  ASSUME RoutingInv, NEW c \in Callers, NEW ok \in BOOLEAN, FetchPrompts(c, ok)
  PROVE  RoutingInv'
<1> DEFINE rows == Fetched(prompts, SeedPrompts, ok)
           r == Resolve(request[c], modelRows[c], rows)
<1>1. Kinds /\ RecordsOf(c) /\ troubles' \in 0..MaxTroubles /\ registered' \in 0..MaxRegistered
  BY StatementKeeps DEF RoutingInv, FetchPrompts
<1>2. rows \in Seq(PromptRows)
  BY <1>1, SeedsAreRows DEF Fetched, Kinds, RoutingTypeOK
<1>3. r.attempts \in Seq(ModelNames)
  <2>1. /\ request[c] \in Requests \cup {Nothing} /\ modelRows[c] \in Seq(ModelRows) /\ Unique(modelRows[c])
    BY <1>1 DEF Kinds, RoutingTypeOK
  <2>2. QED BY <1>2, <2>1, ResolvedIsBest
<1> HIDE DEF rows
<1>4. /\ place[c] = "prompts" /\ UNCHANGED <<request, models, prompts, modelRows, tried, artifacts, run, audit>>
      /\ promptRows' = [promptRows EXCEPT ![c] = rows] /\ route' = [route EXCEPT ![c] = r]
      /\ \/ place' = [place EXCEPT ![c] = "try"] /\ answer' = answer
         \/ place' = [place EXCEPT ![c] = "idle"] /\ answer' = [answer EXCEPT ![c] = "routed"]
  BY DEF FetchPrompts, Return, Step, registries, records, rows
<1> HIDE DEF r
<1>5. Elsewhere(c)
  BY <1>1, <1>4 DEF Elsewhere, Kinds, RoutingTypeOK
<1>6. /\ route'[c] = r /\ promptRows'[c] = rows
      /\ \/ place'[c] = "try" /\ answer'[c] = answer[c]
         \/ place'[c] = "idle" /\ answer'[c] = "routed"
  BY <1>1, <1>4 DEF Kinds, RoutingTypeOK
<1>7. Kinds'
  <2>1. RoutingTypeOK'
    BY <1>1, <1>2, <1>4 DEF Kinds, RoutingTypeOK
  <2>2. \A d \in Callers : Unique(modelRows'[d]) /\ route'[d].attempts \in Seq(ModelNames)
    BY <1>1, <1>3, <1>4, <1>5, <1>6 DEF Kinds, Elsewhere
  <2>3. Unique(models)' /\ Unique(prompts)'
    BY <1>1, <1>4 DEF Kinds, Unique
  <2>4. QED BY <1>1, <1>4, <2>1, <2>2, <2>3 DEF Kinds, Unique
<1>8. RoutedOf(c)'
  BY <1>4, <1>6 DEF RoutedOf, Routed, r
<1>9. RecordsOf(c)'
  <2>1. Len(r.attempts) \in Nat
    BY <1>3
  <2>2. tried[c] = <<>> /\ artifacts[c] = <<>> /\ run[c] = NoRun /\ answer[c] = "none"
    BY <1>1, <1>4 DEF RecordsOf, Records
  <2>3. QED BY <1>4, <1>6, <2>1, <2>2 DEF RecordsOf, Records
<1>10. QED BY <1>5, <1>7, <1>8, <1>9, OthersStay

(* A model more is tried. *)
LEMMA TriedNext ==
  ASSUME NEW S, NEW s \in Seq(S), NEW t \in Seq(S), Len(t) <= Len(s), \A i \in 1..Len(t) : t[i] = s[i],
         Len(s) - Len(t) > 0, NEW u, u = Append(t, s[Len(t) + 1])
  PROVE  /\ u \in Seq(S) /\ Len(u) = Len(t) + 1 /\ Len(u) <= Len(s) /\ u # <<>>
         /\ \A i \in 1..Len(u) : u[i] = s[i]
<1>1. Len(t) + 1 \in 1..Len(s)
  OBVIOUS
<1>2. s[Len(t) + 1] \in S
  BY <1>1
<1>3. /\ u \in Seq(S) /\ Len(u) = Len(t) + 1 /\ u[Len(t) + 1] = s[Len(t) + 1]
      /\ \A i \in 1..Len(t) : u[i] = t[i]
  BY <1>2
<1>4. \A i \in 1..Len(u) : i \in 1..Len(t) \/ i = Len(t) + 1
  BY <1>3
<1>5. Len(u) > 0 /\ Len(u) <= Len(s)
  BY <1>1, <1>3
<1>6. u # <<>>
  BY <1>5
<1>7. QED BY <1>3, <1>4, <1>5, <1>6

LEMMA GenerateStep ==
  ASSUME RoutingInv, NEW c \in Callers,
         NEW text \in {"valid", "invalid_json", "invalid_schema", "scalar", "unreachable"}, Generate(c, text)
  PROVE  RoutingInv'
<1> DEFINE attempts == route[c].attempts
           u == Append(tried[c], attempts[Len(tried[c]) + 1])
<1>1. Kinds /\ RoutedOf(c) /\ RecordsOf(c)
  BY DEF RoutingInv
<1>2. /\ attempts \in Seq(ModelNames) /\ tried[c] \in Seq(ModelNames) /\ Len(attempts) - Len(tried[c]) > 0
      /\ Len(tried[c]) <= Len(attempts) /\ \A i \in 1..Len(tried[c]) : tried[c][i] = attempts[i]
  BY <1>1 DEF Kinds, RecordsOf, Records, Generate, Untried
<1>3. /\ place[c] = "try" /\ tried' = [tried EXCEPT ![c] = u]
      /\ UNCHANGED <<request, models, prompts, modelRows, promptRows, route, artifacts, run, audit, registered, troubles>>
      /\ \/ place' = [place EXCEPT ![c] = "try"] /\ answer' = answer
         \/ place' = [place EXCEPT ![c] = "runFailed"] /\ answer' = answer /\ Len(attempts) - Len(tried[c]) = 1
         \/ place' = [place EXCEPT ![c] = "idle"] /\ answer' = [answer EXCEPT ![c] = "raised"]
         \/ place' = [place EXCEPT ![c] = "store"] /\ answer' = answer
  BY DEF Generate, Untried, Return, Step, registries, records, bounds
<1> HIDE DEF attempts, u
<1>4. /\ u \in Seq(ModelNames) /\ Len(u) = Len(tried[c]) + 1 /\ Len(u) <= Len(attempts) /\ u # <<>>
      /\ \A i \in 1..Len(u) : u[i] = attempts[i]
  <2>1. u = Append(tried[c], attempts[Len(tried[c]) + 1])
    BY DEF u
  <2> DEFINE t == tried[c]
  <2>2. /\ attempts \in Seq(ModelNames) /\ t \in Seq(ModelNames) /\ Len(t) <= Len(attempts)
        /\ Len(attempts) - Len(t) > 0 /\ \A i \in 1..Len(t) : t[i] = attempts[i]
        /\ u = Append(t, attempts[Len(t) + 1])
    BY <1>2, <2>1
  <2> HIDE DEF t
  <2>3. /\ u \in Seq(ModelNames) /\ Len(u) = Len(t) + 1 /\ Len(u) <= Len(attempts) /\ u # <<>>
        /\ \A i \in 1..Len(u) : u[i] = attempts[i]
    BY <2>2, TriedNext
  <2>4. QED BY <2>3 DEF t
<1>5. Elsewhere(c)
  BY <1>1, <1>3 DEF Elsewhere, Kinds, RoutingTypeOK
<1>6. /\ tried'[c] = u
      /\ \/ place'[c] = "try" /\ answer'[c] = answer[c]
         \/ place'[c] = "runFailed" /\ answer'[c] = answer[c] /\ Len(attempts) - Len(tried[c]) = 1
         \/ place'[c] = "idle" /\ answer'[c] = "raised"
         \/ place'[c] = "store" /\ answer'[c] = answer[c]
  BY <1>1, <1>3 DEF Kinds, RoutingTypeOK
<1>7. Kinds'
  <2>1. RoutingTypeOK'
    BY <1>1, <1>3 DEF Kinds, RoutingTypeOK
  <2>2. tried' \in [Callers -> Seq(ModelNames)]
    BY <1>1, <1>3, <1>4 DEF Kinds
  <2>3. Unique(models)' /\ Unique(prompts)' /\ \A d \in Callers : Unique(modelRows'[d])
    BY <1>1, <1>3 DEF Kinds, Unique
  <2>4. QED BY <1>1, <1>3, <2>1, <2>2, <2>3 DEF Kinds, Unique
<1>8. RoutedOf(c)'
  BY <1>1, <1>3, <1>6 DEF RoutedOf, Routed
<1>9. RecordsOf(c)'
  <2>1. artifacts[c] = <<>> /\ run[c] = NoRun /\ answer[c] = "none"
    BY <1>1, <1>3 DEF RecordsOf, Records
  <2>2. Len(u) = Len(attempts) \/ place'[c] # "runFailed"
    <3>1. \A m, n \in Nat : m - n = 1 => n + 1 = m
      OBVIOUS
    <3>2. Len(attempts) \in Nat /\ Len(tried[c]) \in Nat
      BY <1>2
    <3>3. QED BY <1>4, <1>6, <3>1, <3>2
  <2>3. route'[c].attempts = attempts /\ artifacts'[c] = <<>> /\ run'[c] = NoRun
    BY <1>3, <2>1 DEF attempts
  <2>4. Records(place'[c], attempts, u, <<>>, NoRun, audit'[c], answer'[c])
    BY <1>3, <1>4, <1>6, <2>1, <2>2 DEF Records
  <2>5. QED BY <1>6, <2>3, <2>4 DEF RecordsOf
<1>10. QED BY <1>5, <1>7, <1>8, <1>9, OthersStay

(* The statements after a text change only what they record. *)
LEMMA RecordingStep ==
  ASSUME RoutingInv, NEW c \in Callers, NEW ok \in BOOLEAN,
         \/ Store(c, ok) \/ RecordRun(c, ok) \/ RecordFailedRun(c, ok)
         \/ WriteAudit(c, ok) \/ WriteFailedAudit(c, ok),
         RecordsOf(c)'
  PROVE  RoutingInv'
<1>1. Kinds /\ RoutedOf(c) /\ RecordsOf(c)
  BY DEF RoutingInv
<1>2. troubles' \in 0..MaxTroubles /\ registered' \in 0..MaxRegistered
  BY StatementKeeps DEF Store, RecordRun, RecordFailedRun, WriteAudit, WriteFailedAudit
<1>3. /\ UNCHANGED <<request, models, prompts, modelRows, promptRows, route, tried>>
      /\ place[c] \in {"store", "run", "runFailed", "audit", "auditFailed"}
      /\ \E at \in {"run", "audit", "auditFailed", "idle"} : place' = [place EXCEPT ![c] = at]
  BY DEF Store, RecordRun, RecordFailedRun, WriteAudit, WriteFailedAudit, Broken, Return, Step, registries
<1>4. answer' = answer \/ \E what \in {"text", "raised", "unavailable"} : answer' = [answer EXCEPT ![c] = what]
  BY DEF Store, RecordRun, RecordFailedRun, WriteAudit, WriteFailedAudit, Broken, Return
<1>5. artifacts' = artifacts \/ (place[c] = "store" /\ artifacts' = [artifacts EXCEPT ![c] = Append(@, Last(tried[c]))])
  <2>1. [artifacts EXCEPT ![c] = artifacts[c]] = artifacts
    BY <1>1 DEF Kinds
  <2>2. CASE Store(c, ok)
    BY <2>1, <2>2 DEF Store, Broken, Return, Step
  <2>3. CASE ~Store(c, ok)
    BY <2>3 DEF RecordRun, RecordFailedRun, WriteAudit, WriteFailedAudit
  <2>4. QED BY <2>2, <2>3
<1>6. run' = run \/ \E r : run' = [run EXCEPT ![c] = r]
  BY DEF Store, RecordRun, RecordFailedRun, WriteAudit, WriteFailedAudit
<1>7. audit' = audit \/ \E what \in {"none", "allow", "deny"} : audit' = [audit EXCEPT ![c] = what]
  BY <1>1 DEF Store, RecordRun, RecordFailedRun, WriteAudit, WriteFailedAudit, Kinds, RoutingTypeOK
<1>8. Elsewhere(c)
  BY <1>1, <1>3, <1>4, <1>5, <1>6, <1>7 DEF Elsewhere, Kinds, RoutingTypeOK
<1>9. place[c] = "store" => Last(tried[c]) \in ModelNames
  <2> SUFFICES ASSUME place[c] = "store" PROVE Last(tried[c]) \in ModelNames
    OBVIOUS
  <2>1. tried[c] \in Seq(ModelNames) /\ tried[c] # <<>>
    BY <1>1 DEF Kinds, RecordsOf, Records
  <2>2. QED BY <2>1 DEF Last
<1>10. Kinds'
  <2>1. RoutingTypeOK'
    <3>1. place' \in [Callers -> {"idle", "models", "prompts", "try", "store", "run", "audit",
                                  "runFailed", "auditFailed"}]
      BY <1>1, <1>3 DEF Kinds, RoutingTypeOK
    <3>2. answer' \in [Callers -> {"none", "routed", "text", "unavailable", "raised", "lost"}]
      BY <1>1, <1>4 DEF Kinds, RoutingTypeOK
    <3>3. audit' \in [Callers -> {"none", "allow", "deny"}]
      BY <1>1, <1>7 DEF Kinds, RoutingTypeOK
    <3>4. QED BY <1>1, <1>2, <1>3, <3>1, <3>2, <3>3 DEF Kinds, RoutingTypeOK
  <2>2. artifacts' \in [Callers -> Seq(ModelNames)]
    <3>1. artifacts[c] \in Seq(ModelNames) /\ artifacts \in [Callers -> Seq(ModelNames)]
      BY <1>1 DEF Kinds
    <3>2. place[c] = "store" => Append(artifacts[c], Last(tried[c])) \in Seq(ModelNames)
      BY <1>9, <3>1
    <3>3. QED BY <1>5, <3>1, <3>2
  <2>3. Unique(models)' /\ Unique(prompts)' /\ \A d \in Callers : Unique(modelRows'[d])
    BY <1>1, <1>3 DEF Kinds, Unique
  <2>4. run' = [d \in Callers |-> run'[d]]
    BY <1>1, <1>6 DEF Kinds
  <2>5. QED BY <1>1, <1>3, <2>1, <2>2, <2>3, <2>4 DEF Kinds, Unique
<1>11. RoutedOf(c)'
  BY <1>1, <1>3 DEF RoutedOf, Routed
<1>12. QED BY <1>8, <1>10, <1>11, OthersStay

LEMMA StoreStep ==
  ASSUME RoutingInv, NEW c \in Callers, NEW ok \in BOOLEAN, Store(c, ok)
  PROVE  RoutingInv'
<1>1. Kinds /\ RecordsOf(c)
  BY DEF RoutingInv
<1>2. /\ place[c] = "store" /\ UNCHANGED <<route, tried, run, audit>>
      /\ \/ ok /\ place' = [place EXCEPT ![c] = "run"] /\ answer' = answer
         \/ ~ok /\ place' = [place EXCEPT ![c] = "idle"] /\ answer' = [answer EXCEPT ![c] = "raised"]
      /\ artifacts' = [artifacts EXCEPT ![c] = IF ok THEN Append(@, Last(tried[c])) ELSE @]
  BY DEF Store, Broken, Return, Step
<1>3. artifacts[c] = <<>> /\ run[c] = NoRun /\ tried[c] # <<>> /\ answer[c] = "none"
  BY <1>1, <1>2 DEF RecordsOf, Records
<1>4. /\ \/ ok /\ place'[c] = "run" /\ answer'[c] = "none"
         \/ ~ok /\ place'[c] = "idle" /\ answer'[c] = "raised"
      /\ artifacts'[c] = IF ok THEN <<Last(tried[c])>> ELSE <<>>
  <2>1. Append(<<>>, Last(tried[c])) = <<Last(tried[c])>>
    OBVIOUS
  <2>2. QED BY <1>1, <1>2, <1>3, <2>1 DEF Kinds, RoutingTypeOK
<1>5. <<Last(tried[c])>> # <<>>
  OBVIOUS
<1>6. RecordsOf(c)'
  BY <1>1, <1>2, <1>3, <1>4, <1>5 DEF RecordsOf, Records
<1>7. QED BY <1>6, RecordingStep

LEMMA RecordRunStep ==
  ASSUME RoutingInv, NEW c \in Callers, NEW ok \in BOOLEAN, RecordRun(c, ok)
  PROVE  RoutingInv'
<1> DEFINE made == [status |-> "completed", model |-> Last(tried[c]), attempted |-> tried[c],
                    fallback |-> Len(tried[c]) > 1]
<1>1. Kinds /\ RecordsOf(c)
  BY DEF RoutingInv
<1>2. /\ place[c] = "run" /\ UNCHANGED <<route, tried, artifacts, audit, answer>>
      /\ place' = [place EXCEPT ![c] = "audit"] /\ run' = [run EXCEPT ![c] = IF ok THEN made ELSE @]
  BY DEF RecordRun, Step
<1>3. run[c] = NoRun /\ artifacts[c] # <<>> /\ artifacts[c] = <<Last(tried[c])>>
  BY <1>1, <1>2 DEF RecordsOf, Records
<1>4. made.status = "completed" /\ made.attempted = tried[c] /\ made.model = artifacts[c][1]
  BY <1>3
<1> HIDE DEF made
<1>5. place'[c] = "audit" /\ (run'[c] = made \/ run'[c] = NoRun)
  BY <1>1, <1>2, <1>3 DEF Kinds, RoutingTypeOK
<1>6. RecordsOf(c)'
  BY <1>1, <1>2, <1>3, <1>4, <1>5 DEF RecordsOf, Records
<1>7. QED BY <1>6, RecordingStep

LEMMA RecordFailedRunStep ==
  ASSUME RoutingInv, NEW c \in Callers, NEW ok \in BOOLEAN, RecordFailedRun(c, ok)
  PROVE  RoutingInv'
<1> DEFINE made == [status |-> "failed", model |-> route[c].model, attempted |-> tried[c],
                    fallback |-> Head(tried[c]) # route[c].model]
<1>1. Kinds /\ RecordsOf(c)
  BY DEF RoutingInv
<1>2. /\ place[c] = "runFailed" /\ UNCHANGED <<route, tried, artifacts, audit, answer>>
      /\ place' = [place EXCEPT ![c] = "auditFailed"] /\ run' = [run EXCEPT ![c] = IF ok THEN made ELSE @]
  BY DEF RecordFailedRun, Step
<1>3. run[c] = NoRun /\ artifacts[c] = <<>>
  BY <1>1, <1>2 DEF RecordsOf, Records
<1>4. made.status = "failed" /\ made.attempted = tried[c]
  OBVIOUS
<1> HIDE DEF made
<1>5. place'[c] = "auditFailed" /\ (run'[c] = made \/ run'[c] = NoRun)
  BY <1>1, <1>2, <1>3 DEF Kinds, RoutingTypeOK
<1>6. RecordsOf(c)'
  BY <1>1, <1>2, <1>3, <1>4, <1>5 DEF RecordsOf, Records
<1>7. QED BY <1>6, RecordingStep

LEMMA WriteAuditStep ==
  ASSUME RoutingInv, NEW c \in Callers, NEW ok \in BOOLEAN, WriteAudit(c, ok) \/ WriteFailedAudit(c, ok)
  PROVE  RoutingInv'
<1>1. Kinds /\ RecordsOf(c)
  BY DEF RoutingInv
<1>2. /\ UNCHANGED <<route, tried, artifacts, run>> /\ place' = [place EXCEPT ![c] = "idle"]
      /\ \/ /\ place[c] \in {"audit", "auditFailed"} /\ audit' = audit
            /\ answer' = [answer EXCEPT ![c] = "raised"]
         \/ /\ place[c] = "audit" /\ audit' = [audit EXCEPT ![c] = "allow"]
            /\ answer' = [answer EXCEPT ![c] = "text"]
         \/ /\ place[c] = "auditFailed" /\ audit' = [audit EXCEPT ![c] = "deny"]
            /\ answer' = [answer EXCEPT ![c] = "unavailable"]
  <2>1. [audit EXCEPT ![c] = audit[c]] = audit
    BY <1>1 DEF Kinds, RoutingTypeOK
  <2>2. CASE WriteAudit(c, ok)
    BY <2>1, <2>2 DEF WriteAudit, Broken, Return, Step
  <2>3. CASE WriteFailedAudit(c, ok)
    BY <2>1, <2>3 DEF WriteFailedAudit, Return, Step
  <2>4. QED BY <2>2, <2>3
<1>3. /\ place'[c] = "idle"
      /\ \/ place[c] \in {"audit", "auditFailed"} /\ answer'[c] = "raised"
         \/ place[c] = "audit" /\ audit'[c] = "allow" /\ answer'[c] = "text"
         \/ place[c] = "auditFailed" /\ audit'[c] = "deny" /\ answer'[c] = "unavailable"
  BY <1>1, <1>2 DEF Kinds, RoutingTypeOK
<1>4. RecordsOf(c)'
  BY <1>1, <1>2, <1>3 DEF RecordsOf, Records
<1>5. QED BY <1>4, RecordingStep

(* A registration, or a start, leaves what requests have read. *)
LEMMA RegistriesChange ==
  ASSUME RoutingInv,
         models' \in Seq(ModelRows), Unique(models'), prompts' \in Seq(PromptRows), Unique(prompts'),
         registered' \in 0..MaxRegistered, troubles' \in 0..MaxTroubles,
         UNCHANGED <<request, modelRows, promptRows, route, tried, artifacts, run, audit>>,
         \/ UNCHANGED <<place, answer>>
         \/ /\ place' = [c \in Callers |-> "idle"]
            /\ answer' = [c \in Callers |-> IF place[c] = "idle" THEN answer[c] ELSE "lost"]
  PROVE  RoutingInv'
<1>1. Kinds
  BY DEF RoutingInv
<1>2. RoutingTypeOK'
  BY <1>1 DEF Kinds, RoutingTypeOK
<1>3. Kinds'
  BY <1>1, <1>2 DEF Kinds, Unique
<1>4. ASSUME NEW c \in Callers PROVE RoutedOf(c)' /\ RecordsOf(c)'
  <2>1. RoutedOf(c) /\ RecordsOf(c)
    BY DEF RoutingInv
  <2>2. \/ place'[c] = place[c] /\ answer'[c] = answer[c]
        \/ place'[c] = "idle" /\ answer'[c] \in {answer[c], "lost"}
    OBVIOUS
  <2>3. RoutedOf(c)'
    BY <2>1, <2>2 DEF RoutedOf, Routed
  <2>4. RecordsOf(c)'
    BY <2>1, <2>2 DEF RecordsOf, Records
  <2>5. QED BY <2>3, <2>4
<1>5. QED BY <1>3, <1>4 DEF RoutingInv

LEMMA RegisteredStep ==
  ASSUME RoutingInv,
         \/ \E row \in Models : RegisterModel(row)
         \/ \E row \in Prompts : RegisterPrompt(row)
         \/ \E lost \in SUBSET Seeds : StartAgain(lost)
  PROVE  RoutingInv'
<1>1. /\ models \in Seq(ModelRows) /\ Unique(models) /\ prompts \in Seq(PromptRows) /\ Unique(prompts)
      /\ registered \in 0..MaxRegistered /\ troubles \in 0..MaxTroubles
      /\ MaxRegistered \in Nat /\ MaxTroubles \in Nat
  BY RoutingAssumption DEF RoutingInv, Kinds, RoutingTypeOK, RoutingAssumption
<1>2. ASSUME NEW row \in Models, RegisterModel(row) PROVE RoutingInv'
  <2>1. row \in ModelRows
    BY DEF ModelRows
  <2>2. Upserted(models, row) \in Seq(ModelRows) /\ Unique(Upserted(models, row))
    BY <1>1, <2>1, UpsertedIs
  <2>3. /\ models' = Upserted(models, row) /\ prompts' = prompts
        /\ registered' \in 0..MaxRegistered /\ troubles' \in 0..MaxTroubles
        /\ UNCHANGED <<request, modelRows, promptRows, route, tried, artifacts, run, audit, place, answer>>
    BY <1>1, <1>2 DEF RegisterModel, Register, records
  <2>4. QED BY <1>1, <2>2, <2>3, RegistriesChange
<1>3. ASSUME NEW row \in Prompts, RegisterPrompt(row) PROVE RoutingInv'
  <2>1. row \in PromptRows
    BY DEF PromptRows
  <2>2. Upserted(prompts, row) \in Seq(PromptRows) /\ Unique(Upserted(prompts, row))
    BY <1>1, <2>1, UpsertedIs
  <2>3. /\ prompts' = Upserted(prompts, row) /\ models' = models
        /\ registered' \in 0..MaxRegistered /\ troubles' \in 0..MaxTroubles
        /\ UNCHANGED <<request, modelRows, promptRows, route, tried, artifacts, run, audit, place, answer>>
    BY <1>1, <1>3 DEF RegisterPrompt, Register, records
  <2>4. QED BY <1>1, <2>2, <2>3, RegistriesChange
<1>4. ASSUME NEW lost \in SUBSET Seeds, StartAgain(lost) PROVE RoutingInv'
  <2>1. /\ SeededAgain(models, SeedModels, lost) \in Seq(ModelRows)
        /\ Unique(SeededAgain(models, SeedModels, lost))
        /\ SeededAgain(prompts, SeedPrompts, lost) \in Seq(PromptRows)
        /\ Unique(SeededAgain(prompts, SeedPrompts, lost))
    BY <1>1, SeedsAreRows, SeededIs
  <2>2. /\ models' = SeededAgain(models, SeedModels, lost) /\ prompts' = SeededAgain(prompts, SeedPrompts, lost)
        /\ registered' \in 0..MaxRegistered /\ troubles' \in 0..MaxTroubles
        /\ UNCHANGED <<request, modelRows, promptRows, route, tried, artifacts, run, audit>>
        /\ place' = [c \in Callers |-> "idle"]
        /\ answer' = [c \in Callers |-> IF place[c] = "idle" THEN answer[c] ELSE "lost"]
    BY <1>1, <1>4 DEF StartAgain, records
  <2>3. QED BY <2>1, <2>2, RegistriesChange
<1>5. QED BY <1>2, <1>3, <1>4

LEMMA RoutingStarts ==
  RoutingInit => RoutingInv
<1> SUFFICES ASSUME RoutingInit PROVE RoutingInv
  OBVIOUS
<1>1. Unique(<<>>)
  BY DEF Unique
<1>2. /\ models \in Seq(ModelRows) /\ Unique(models) /\ prompts \in Seq(PromptRows) /\ Unique(prompts)
  <2>1. <<>> \in Seq(ModelRows) /\ <<>> \in Seq(PromptRows)
    OBVIOUS
  <2>2. QED BY <1>1, <2>1, SeedsAreRows, SeededIs DEF RoutingInit
<1>3. MaxRegistered \in Nat /\ MaxTroubles \in Nat
  BY RoutingAssumption DEF RoutingAssumption
<1>4. RoutingTypeOK
  <2>1. <<>> \in Seq(ModelRows) /\ <<>> \in Seq(PromptRows)
    OBVIOUS
  <2>2. QED BY <1>2, <1>3, <2>1 DEF RoutingInit, RoutingTypeOK
<1>5. \A c \in Callers :
        /\ place[c] = "idle" /\ modelRows[c] = <<>> /\ route[c] = NoRoute /\ tried[c] = <<>>
        /\ artifacts[c] = <<>> /\ run[c] = NoRun /\ answer[c] = "none"
  BY DEF RoutingInit
<1>6. NoRoute.attempts = <<>>
  BY DEF NoRoute
<1>7. Kinds
  <2>1. <<>> \in Seq(ModelNames)
    OBVIOUS
  <2>2. tried \in [Callers -> Seq(ModelNames)] /\ artifacts \in [Callers -> Seq(ModelNames)]
    BY <2>1 DEF RoutingInit
  <2>3. route = [c \in Callers |-> route[c]]
    BY DEF RoutingInit
  <2>4. run = [c \in Callers |-> run[c]]
    BY DEF RoutingInit
  <2>5. \A c \in Callers : Unique(modelRows[c]) /\ route[c].attempts \in Seq(ModelNames)
    BY <1>1, <1>5, <1>6, <2>1
  <2>6. QED BY <1>2, <1>4, <2>2, <2>3, <2>4, <2>5 DEF Kinds
<1>8. \A c \in Callers : RoutedOf(c)
  BY <1>5 DEF RoutedOf, Routed
<1>9. \A c \in Callers : RecordsOf(c)
  BY <1>5, <1>6 DEF RecordsOf, Records
<1>10. QED BY <1>7, <1>8, <1>9 DEF RoutingInv

LEMMA RoutingSteps ==
  RoutingInv /\ [RoutingNext]_routingVars => RoutingInv'
<1> SUFFICES ASSUME RoutingInv, [RoutingNext]_routingVars PROVE RoutingInv'
  OBVIOUS
<1>1. CASE UNCHANGED routingVars
  <2>1. /\ UNCHANGED <<models, prompts, registered, troubles, place, answer>>
        /\ UNCHANGED <<request, modelRows, promptRows, route, tried, artifacts, run, audit>>
    BY <1>1 DEF routingVars, registries, records, bounds
  <2>2. /\ models \in Seq(ModelRows) /\ Unique(models) /\ prompts \in Seq(PromptRows) /\ Unique(prompts)
        /\ registered \in 0..MaxRegistered /\ troubles \in 0..MaxTroubles
    BY DEF RoutingInv, Kinds, RoutingTypeOK
  <2>3. QED BY <2>1, <2>2, RegistriesChange
<1>2. ASSUME NEW c \in Callers, NEW a \in Requests, Begin(c, a) PROVE RoutingInv'
  BY <1>2, BeginStep
<1>3. ASSUME NEW c \in Callers, NEW ok \in BOOLEAN,
             \/ FetchModels(c, ok) \/ FetchPrompts(c, ok) \/ Store(c, ok)
             \/ RecordRun(c, ok) \/ RecordFailedRun(c, ok)
             \/ WriteAudit(c, ok) \/ WriteFailedAudit(c, ok)
      PROVE  RoutingInv'
  BY <1>3, FetchModelsStep, FetchPromptsStep, StoreStep, RecordRunStep, RecordFailedRunStep, WriteAuditStep
<1>4. ASSUME NEW c \in Callers,
             NEW text \in {"valid", "invalid_json", "invalid_schema", "scalar", "unreachable"}, Generate(c, text)
      PROVE  RoutingInv'
  BY <1>4, GenerateStep
<1>5. CASE \/ \E row \in Models : RegisterModel(row)
           \/ \E row \in Prompts : RegisterPrompt(row)
           \/ \E lost \in SUBSET Seeds : StartAgain(lost)
  BY <1>5, RegisteredStep
<1>6. QED BY <1>1, <1>2, <1>3, <1>4, <1>5 DEF RoutingNext

(* What requests have read, the route that is made of it and the records   *)
(* that an answer leaves fit together at every point of every request      *)
(* (ai_route, ai_generate).                                                *)
THEOREM RoutingInvariant == RoutingSpec => []RoutingInv
<1>1. QED BY RoutingStarts, RoutingSteps, PTL DEF RoutingSpec

(* The registries and the requests keep their types. *)
THEOREM RoutingTypes == RoutingSpec => []RoutingTypeOK
<1>1. RoutingInv => RoutingTypeOK
  BY DEF RoutingInv, Kinds
<1>2. QED BY <1>1, RoutingInvariant, PTL

(* A route selects the model that _resolve_ai_route prefers among those    *)
(* that can do what is asked, with every registry and for every request.   *)
THEOREM RoutingRouteIsBest == RoutingSpec => []RouteIsBest
<1>1. RoutingInv => RouteIsBest
  <2> SUFFICES ASSUME RoutingInv, NEW c \in Callers, route[c] # NoRoute
               PROVE  IsBest(route[c], request[c], modelRows[c], promptRows[c])
    BY DEF RouteIsBest, IsBest
  <2>1. /\ request[c] \in Requests \cup {Nothing} /\ modelRows[c] \in Seq(ModelRows)
        /\ promptRows[c] \in Seq(PromptRows) /\ Unique(modelRows[c])
    BY DEF RoutingInv, Kinds, RoutingTypeOK
  <2>2. route[c] = Resolve(request[c], modelRows[c], promptRows[c])
    BY DEF RoutingInv, RoutedOf, Routed
  <2>3. QED BY <2>1, <2>2, ResolvedIsBest
<1>2. QED BY <1>1, RoutingInvariant, PTL

(* An answer of ai_generate has left the artifact, the run and the audit   *)
(* record it should have, whichever of the statements failed.              *)
THEOREM RoutingAnswerIsRecorded == RoutingSpec => []AnswerIsRecorded
<1>1. RoutingInv => AnswerIsRecorded
  <2> SUFFICES ASSUME RoutingInv, NEW c \in Callers
               PROVE  /\ IsPrefix(tried[c], route[c].attempts)
                      /\ Len(artifacts[c]) <= 1
                      /\ artifacts[c] # <<>> => artifacts[c] = <<Last(tried[c])>>
                      /\ run[c] # NoRun =>
                           /\ run[c].attempted = tried[c]
                           /\ run[c].status = "completed" <=> artifacts[c] # <<>>
                           /\ run[c].status = "completed" => run[c].model = artifacts[c][1]
                      /\ answer[c] = "text" => artifacts[c] # <<>> /\ audit[c] = "allow"
                      /\ answer[c] = "unavailable" =>
                           artifacts[c] = <<>> /\ audit[c] = "deny" /\ tried[c] = route[c].attempts
    BY DEF AnswerIsRecorded
  <2> DEFINE t == tried[c]
             s == route[c].attempts
  <2>1. t \in Seq(ModelNames) /\ s \in Seq(ModelNames)
    BY DEF RoutingInv, Kinds
  <2>2. RecordsOf(c)
    BY DEF RoutingInv
  <2>3. Len(t) <= Len(s) /\ \A i \in 1..Len(t) : t[i] = s[i]
    BY <2>2 DEF RecordsOf, Records
  <2>4. Len(t) = Len(s) => t = s
    <3> HIDE DEF t, s
    <3>1. QED BY <2>1, <2>3
  <2>5. IsPrefix(t, s)
    <3> HIDE DEF t, s
    <3>1. SubSeq(t, 1, Len(t)) = SubSeq(s, 1, Len(t))
      BY <2>1, <2>3
    <3>2. QED BY <2>3, <3>1 DEF IsPrefix
  <2>6. artifacts[c] = <<>> \/ artifacts[c] = <<Last(t)>>
    BY <2>2 DEF RecordsOf, Records
  <2>7. Len(artifacts[c]) <= 1
    <3>1. Len(<<>>) <= 1 /\ \A m \in ModelNames : Len(<<m>>) <= 1
      OBVIOUS
    <3>2. artifacts[c] \in Seq(ModelNames)
      BY DEF RoutingInv, Kinds
    <3>3. CASE artifacts[c] = <<Last(t)>>
      <4> DEFINE m == Last(t)
      <4> HIDE DEF m
      <4>1. Len(<<m>>) = 1 /\ artifacts[c] = <<m>>
        BY <3>3 DEF m
      <4>2. QED BY <4>1
    <3>4. QED BY <2>6, <3>1, <3>3
  <2>8. QED BY <2>2, <2>4, <2>5, <2>7 DEF RecordsOf, Records
<1>2. QED BY <1>1, RoutingInvariant, PTL
=============================================================================
