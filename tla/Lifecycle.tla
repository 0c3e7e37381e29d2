----------------------------- MODULE Lifecycle -----------------------------
(***************************************************************************)
(* Retention of dead letters (service/app/lifecycle.py and the lifecycle   *)
(* endpoints of main.py): the retention_policies row of dead_letter_items  *)
(* for one tenant, the rows it governs, their archive dlq_archives, and    *)
(* the requests that clean up.  The other resources take the path Sweep    *)
(* alone.                                                                  *)
(*                                                                         *)
(* Every statement is a transaction of its own and every exception is      *)
(* swallowed (_safe_execute, _safe_fetch_one, _safe_fetch_all), so a       *)
(* failing statement is one that returned nothing.                         *)
(***************************************************************************)
EXTENDS Naturals, FiniteSets, Sequences, Functions

CONSTANTS
  Letters,    \* dead_letter_items rows
  Cleaners,   \* requests of POST /lifecycle/run-cleanup (dry_run=false)
  Policies,   \* policies an operator may set
  Default,    \* DEFAULT_RETENTION_POLICIES['dead_letter_items']
  MaxAge,     \* ages are told apart up to this one
  MaxFaults,  \* bound on failing statements
  MaxChanges, \* bound on the operator's changes of the policy
  MaxRestarts, \* bound on restarts of the service
  None        \* no policy row, no letter

PolicyRows == [enabled: BOOLEAN, days: Nat, archive: BOOLEAN, batch: Nat]

ASSUME LifecycleAssumption ==
  /\ Policies \subseteq PolicyRows
  /\ Default \in PolicyRows /\ Default.enabled /\ Default.days > 0 /\ Default.batch > 0
  /\ {MaxAge, MaxFaults, MaxChanges, MaxRestarts} \subseteq Nat
  /\ None \notin Nat \cup PolicyRows \cup Letters

VARIABLES
  age,       \* days since created_at; None before and after the row exists
  archived,  \* letters with a row in dlq_archives
  policy,    \* the retention_policies row
  pc,        \* where a cleanup is
  read,      \* the policy a cleanup has read
  todo,      \* the rows a cleanup has fetched and not dealt with, in order
  faults, changes, restarts

(* History. *)
VARIABLES
  gone,      \* letters whose row was deleted
  unkept,    \* letters deleted by a cleanup told not to archive
  asked,     \* the policy the operator was last told is in force
  promised   \* what it was when a cleanup read the policy

cleanerVars == <<pc, read, todo>>
boundVars   == <<faults, changes, restarts>>
history     == <<gone, unkept, asked, promised>>
vars == <<age, archived, policy, cleanerVars, boundVars, history>>

Present == {l \in Letters : age[l] # None}

Init ==
  /\ age = [l \in Letters |-> None]
  /\ archived = {}
  /\ policy \in {None, Default}
  /\ pc = [c \in Cleaners |-> "idle"]
  /\ read = [c \in Cleaners |-> None]
  /\ todo = [c \in Cleaners |-> <<>>]
  /\ faults = 0 /\ changes = 0 /\ restarts = 0
  /\ gone = {} /\ unkept = {} /\ asked = None
  /\ promised = [c \in Cleaners |-> None]

(* A statement succeeds, with this effect, or fails and changes nothing. *)
Succeeds(effect) == effect /\ UNCHANGED faults
Fails(nothing)   == faults < MaxFaults /\ faults' = faults + 1 /\ nothing

-----------------------------------------------------------------------------
(* The world around: the queue buries items, days pass, the operator sets  *)
(* a policy, the service restarts.                                         *)

Bury(l) ==
  /\ age[l] = None /\ l \notin gone
  /\ age' = [age EXCEPT ![l] = 0]
  /\ UNCHANGED <<archived, policy, cleanerVars, boundVars, history>>

DayPasses ==
  /\ \E l \in Present : age[l] < MaxAge
  /\ age' = [l \in Letters |-> IF l \in Present /\ age[l] < MaxAge THEN age[l] + 1 ELSE age[l]]
  /\ UNCHANGED <<archived, policy, cleanerVars, boundVars, history>>

(* upsert_retention_policy writes the row and reads it back for its reply. *)
SetPolicy(p) ==
  /\ changes < MaxChanges
  /\ changes' = changes + 1
  /\ \/ Succeeds(policy' = p) /\ asked' = p
     \/ Fails(UNCHANGED policy) /\ asked' = IF policy = None THEN p ELSE policy
  /\ UNCHANGED <<age, archived, cleanerVars, restarts, gone, unkept, promised>>

(* startup_seed_defaults: the row is there already or it is inserted; what *)
(* it said of days, archive and batch gives way to the defaults.           *)
Seeded == IF policy = None THEN Default ELSE [Default EXCEPT !.enabled = policy.enabled]

Restart ==
  /\ restarts < MaxRestarts
  /\ restarts' = restarts + 1
  /\ \/ Succeeds(policy' = Seeded)
     \/ Fails(UNCHANGED policy)
  /\ pc'   = [c \in Cleaners |-> "idle"]
  /\ read' = [c \in Cleaners |-> None]
  /\ todo' = [c \in Cleaners |-> <<>>]
  /\ UNCHANGED <<age, archived, changes, history>>

-----------------------------------------------------------------------------
(* run_data_lifecycle_cleanup, one statement at a time. *)

Goto(c, from, to) == pc[c] = from /\ pc' = [pc EXCEPT ![c] = to]

Finish(c) ==
  /\ pc'   = [pc EXCEPT ![c] = "idle"]
  /\ read' = [read EXCEPT ![c] = None]
  /\ todo' = [todo EXCEPT ![c] = <<>>]

(* retain_days or batch_size 0 is taken for the default. *)
Effective(p) == [p EXCEPT !.days  = IF @ = 0 THEN Default.days ELSE @,
                          !.batch = IF @ = 0 THEN Default.batch ELSE @]

ReadPolicy(c) ==
  /\ Goto(c, "idle", "count")
  /\ \/ Succeeds(read' = [read EXCEPT ![c] = Effective(IF policy = None THEN Default ELSE policy)])
     \/ Fails(read' = [read EXCEPT ![c] = Default])
  /\ promised' = [promised EXCEPT ![c] = asked]
  /\ UNCHANGED <<age, archived, policy, todo, changes, restarts, gone, unkept, asked>>

(* Mutant of Eligible: the retention's last day is not kept. *)
EligibleEarly(c) == {l \in Present : age[l] >= read[c].days}
Eligible(c) == {l \in Present : age[l] > read[c].days}

(* Mutant of Route: a large backlog is not archived. *)
RouteByBacklog(c) == IF read[c].archive /\ Cardinality(Eligible(c)) <= read[c].batch
                     THEN "fetch" ELSE "sweep"
Route(c) == IF read[c].archive THEN "fetch" ELSE "sweep"

Count(c) ==
  /\ pc[c] = "count"
  /\ \/ /\ read[c].enabled /\ Eligible(c) # {}
        /\ Goto(c, "count", Route(c))
        /\ UNCHANGED <<read, todo, faults>>
     \/ /\ ~read[c].enabled \/ Eligible(c) = {}
        /\ Succeeds(Finish(c))
     \/ Fails(Finish(c))
  /\ UNCHANGED <<age, archived, policy, changes, restarts, history>>

(* ORDER BY created_at LIMIT batch_size *)
OldestBatches(c) ==
  {rows \in UNION {[1 .. n -> Eligible(c)] : n \in 1 .. read[c].batch} :
     /\ IsInjective(rows)
     /\ Len(rows) = read[c].batch \/ Range(rows) = Eligible(c)
     /\ \A m, n \in DOMAIN rows : m < n => age[rows[m]] >= age[rows[n]]
     /\ \A l \in Range(rows), k \in Eligible(c) \ Range(rows) : age[l] >= age[k]}

Fetch(c) ==
  /\ pc[c] = "fetch"
  /\ \/ \E rows \in OldestBatches(c) :
          /\ Goto(c, "fetch", "archive")
          /\ Succeeds(todo' = [todo EXCEPT ![c] = rows])
          /\ UNCHANGED read
     \/ Eligible(c) = {} /\ Succeeds(Finish(c))
     \/ Fails(Finish(c))
  /\ UNCHANGED <<age, archived, policy, changes, restarts, history>>

(* _archive_dead_letter_rows: the copy, then the row; neither looks at the *)
(* outcome of the other.                                                   *)
Archive(c) ==
  /\ Goto(c, "archive", "delete")
  /\ \/ Succeeds(archived' = archived \cup {Head(todo[c])})
     \/ Fails(UNCHANGED archived)
  /\ UNCHANGED <<age, policy, read, todo, changes, restarts, history>>

DeleteLetters(L) ==
  /\ age'  = [l \in Letters |-> IF l \in L THEN None ELSE age[l]]
  /\ gone' = gone \cup (L \cap Present)

Delete(c) ==
  /\ pc[c] = "delete"
  /\ \/ Succeeds(DeleteLetters({Head(todo[c])}))
     \/ Fails(UNCHANGED <<age, gone>>)
  /\ IF Len(todo[c]) = 1 THEN Finish(c)
     ELSE /\ Goto(c, "delete", "archive")
          /\ todo' = [todo EXCEPT ![c] = Tail(@)]
          /\ UNCHANGED read
  /\ UNCHANGED <<archived, policy, changes, restarts, unkept, asked, promised>>

(* _cleanup_generic_resource: one statement picks the batch and deletes it. *)
Sweep(c) ==
  /\ pc[c] = "sweep"
  /\ \/ \E rows \in OldestBatches(c) :
          /\ Succeeds(DeleteLetters(Range(rows)))
          /\ unkept' = IF read[c].archive THEN unkept ELSE unkept \cup Range(rows)
     \/ Eligible(c) = {} /\ UNCHANGED <<age, gone, unkept, faults>>
     \/ Fails(UNCHANGED <<age, gone, unkept>>)
  /\ Finish(c)
  /\ UNCHANGED <<archived, policy, changes, restarts, asked, promised>>

CleanerStep(c) ==
  ReadPolicy(c) \/ Count(c) \/ Fetch(c) \/ Archive(c) \/ Delete(c) \/ Sweep(c)

Next ==
  \/ DayPasses \/ Restart
  \/ \E l \in Letters : Bury(l)
  \/ \E p \in Policies : SetPolicy(p)
  \/ \E c \in Cleaners : CleanerStep(c)

Spec == Init /\ [][Next]_vars

-----------------------------------------------------------------------------
TypeOK ==
  /\ age \in [Letters -> (0 .. MaxAge) \cup {None}]
  /\ archived \in SUBSET Letters
  /\ policy \in PolicyRows \cup {None}
  /\ pc \in [Cleaners -> {"idle", "count", "fetch", "archive", "delete", "sweep"}]
  /\ read \in [Cleaners -> PolicyRows \cup {None}]
  /\ todo \in [Cleaners -> Seq(Letters)]
  /\ promised \in [Cleaners -> PolicyRows \cup {None}]
  /\ \A c \in Cleaners : /\ read[c] = None <=> pc[c] = "idle"
                         /\ todo[c] # <<>> <=> pc[c] \in {"archive", "delete"}
  /\ faults \in 0 .. MaxFaults /\ changes \in 0 .. MaxChanges /\ restarts \in 0 .. MaxRestarts
  /\ gone \in SUBSET (Letters \ Present) /\ unkept \in SUBSET gone
  /\ asked \in PolicyRows \cup {None}

(* Dead-letter evidence survives the row (_archive_dead_letter_rows): with *)
(* cleanups that overlap, restart and change policy between their steps, a *)
(* letter whose row went without a copy was swept by a cleanup whose       *)
(* policy did not ask for one, or is put down to one failed statement (a   *)
(* copy that failed does not keep its row).                                *)
EvidenceKept == Cardinality(gone \ (archived \cup unkept)) <= faults

(* A letter l that goes is older than the operator asked letters to get,   *)
(* at the time the cleanup c that deletes it read the policy.              *)
Honoured(c, l) ==
  age[l] > (IF promised[c] = None THEN Default ELSE Effective(promised[c])).days

Steps(c) == <<pc[c], todo[c]>>' # <<pc[c], todo[c]>>

(* Nothing that happens between reading the policy and deleting the rows   *)
(* (changes of the policy, other cleanups) takes a letter before its time; *)
(* a restart or a failed statement may put the default days in place of    *)
(* the operator's, and nothing shorter (seed_lifecycle_policy_defaults,    *)
(* _fetch_policy_rows).                                                    *)
RetentionHonoured ==
  [][\A l \in gone' \ gone : \E c \in Cleaners :
       Steps(c) /\ (Honoured(c, l) \/ (restarts + faults > 0 /\ age[l] > Default.days))]_vars

=============================================================================
