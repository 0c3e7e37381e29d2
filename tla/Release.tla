------------------------------ MODULE Release -------------------------------
(***************************************************************************)
(* Release engineering: the builds of /release/publish, /rollback-package, *)
(* /channel-plan and /channel-execute over a working tree that may be      *)
(* edited meanwhile, and the release channels with the memory that each    *)
(* process keeps of them (service/app/main.py).                            *)
(*                                                                         *)
(* A build reads the tree four times (manifest, checksums, and both again  *)
(* in the preflight) and a fifth time into the ZIP, whose path depends on  *)
(* tenant and version only: builds of one version share it.  Opening the   *)
(* ZIP truncates what is there, and closing it ends what is written one    *)
(* file after the other; in between anybody may copy, hash or truncate it. *)
(* Each reading of the tree is one step, but that into the ZIP, and so is  *)
(* each statement.  One version and one channel, that of the defaults, are *)
(* modelled; the events and the timestamps are left out.                   *)
(***************************************************************************)
EXTENDS Naturals, FiniteSets

CONSTANTS
  Callers,      \* requests in progress
  Processes, Home,  \* processes of the service, and the one a caller is in
  Tenants, Default,
  Files,        \* files, each with its content, that the tree may have
  Required,     \* those that the preflight asks for
  Requests,     \* what is asked
  NoRow,        \* no row, and nothing remembered
  NoPackage,    \* no file at the path
  MaxEdits,     \* bound on edits of the tree
  MaxTroubles   \* bound on failing statements and writes, and on restarts

Kinds == {"manual_inspection", "file_drop", "webhook_notify"}
(* sound: the secret, endpoint or directory that the kind demands is there.*)
Channel == [kind : Kinds, enabled : BOOLEAN, sound : BOOLEAN]

(* strict: require_preflight and require_checksum_validation; bundle:      *)
(* include_publication_bundle; live: dry_run is off.                       *)
ReleaseRequest ==
  [op : {"publish", "rollback", "plan", "execute", "upsert"}, tenant : Tenants,
   strict : BOOLEAN, bundle : BOOLEAN, live : BOOLEAN, settings : Channel]

Trees == SUBSET Files
(* dirty: the tree was edited while the request that wrote it was running. *)
Package == [tree : Trees, status : {"published", "blocked", "rollback", "torn"}, dirty : BOOLEAN]

(* Part of a package, or parts of two. *)
Torn == [tree |-> {}, status |-> "torn", dirty |-> FALSE]

ASSUME ReleaseAssumption ==
  /\ Home \in [Callers -> Processes]
  /\ Default \in Tenants
  /\ Required \subseteq Files
  /\ Requests \subseteq ReleaseRequest
  /\ NoRow \notin Channel /\ NoPackage \notin Package
  /\ MaxEdits \in Nat /\ MaxTroubles \in Nat

VARIABLES
  tree,        \* the working tree, a set of files
  package,     \* the file at the path of a tenant's publication or rollback
  channel,     \* release_channels
  memory,      \* RELEASE_CHANNEL_MEMORY_CACHE of a process
  stage, asked, read,  \* what a request does next, what it asks, what it has read
  executions,  \* the tenants of the rows of release_channel_executions
  edits, troubles

(* History variables. *)
VARIABLES
  stirred,     \* the tree was edited since the request began
  contended    \* another request wrote the file since this one opened it

tables == <<package, channel, memory, executions>>
releaseVars == <<tree, tables, stage, asked, read, edits, troubles, stirred, contended>>

Paths == {"publication", "rollback"} \X Tenants
Stages == {"idle", "manifest", "checksum", "premanifest", "precheck", "zip", "write", "hash",
           "row", "list", "deliver", "record", "upsert", "remember"}
Outcomes == {"blocked", "prepared", "dry_run", "delivered", "failed"}

(* planned: what is read now is for the bundle of a plan, which found      *)
(* publication_ready.                                                      *)
Read == [manifest : Trees, valid : BOOLEAN, ready : BOOLEAN, planned : BOOLEAN,
         publishable : BOOLEAN, file : Package \cup {NoPackage}, channel : Channel,
         outcome : Outcomes]

(* DEFAULT_RELEASE_CHANNELS *)
Seeded == [kind |-> "manual_inspection", enabled |-> TRUE, sound |-> TRUE]
Nothing == [op |-> "plan", tenant |-> Default, strict |-> TRUE, bundle |-> FALSE,
            live |-> FALSE, settings |-> Seeded]
Unread == [manifest |-> {}, valid |-> FALSE, ready |-> FALSE, planned |-> FALSE,
           publishable |-> FALSE, file |-> NoPackage, channel |-> Seeded,
           outcome |-> "blocked"]

ReleaseInit ==
  /\ tree \in Trees
  /\ package = [p \in Paths |-> NoPackage]
  /\ channel = [t \in Tenants |-> IF t = Default THEN Seeded ELSE NoRow]
  /\ memory = [p \in Processes |-> [t \in Tenants |-> NoRow]]
  /\ stage = [c \in Callers |-> "idle"]
  /\ asked = [c \in Callers |-> Nothing] /\ read = [c \in Callers |-> Unread]
  /\ edits = 0 /\ troubles = 0
  /\ stirred = [c \in Callers |-> FALSE] /\ contended = [c \in Callers |-> FALSE]
  /\ executions = {}

GoOn(c, from, to) ==
  /\ stage[c] = from
  /\ stage' = [stage EXCEPT ![c] = to]
  /\ UNCHANGED <<asked, stirred>>

(* The request is answered, and its locals are gone. *)
Finish(c, from) ==
  /\ stage[c] = from
  /\ stage' = [stage EXCEPT ![c] = "idle"]
  /\ asked' = [asked EXCEPT ![c] = Nothing]
  /\ read' = [read EXCEPT ![c] = Unread]
  /\ stirred' = [stirred EXCEPT ![c] = FALSE]
  /\ contended' = [contended EXCEPT ![c] = FALSE]

(* A statement answers, or raises, and the code goes on. *)
Statement(ok) ==
  /\ ok \/ troubles < MaxTroubles
  /\ troubles' = IF ok THEN troubles ELSE troubles + 1

(* A step that only reads keeps what it learns, as long as it is needed.   *)
Learn(c, facts) ==
  /\ read' = [read EXCEPT ![c] = facts]
  /\ UNCHANGED <<tree, tables, edits, contended>>

-----------------------------------------------------------------------------
(* A request comes. *)
Begin(c, a) ==
  /\ stage[c] = "idle"
  /\ stage' = [stage EXCEPT ![c] = IF a.op = "upsert" THEN "upsert" ELSE "manifest"]
  /\ asked' = [asked EXCEPT ![c] = a]
  /\ UNCHANGED <<tree, tables, read, edits, troubles, stirred, contended>>

(* _build_release_manifest, and _validate_release_manifest of it, which    *)
(* does not see the files that came since.                                 *)
Valid(manifest) == manifest \subseteq tree

Manifest(c) ==
  /\ GoOn(c, "manifest", IF asked[c].op = "rollback" THEN "zip" ELSE "checksum")
  /\ Learn(c, [read[c] EXCEPT !.manifest = tree])
  /\ UNCHANGED troubles

Checksum(c) ==
  /\ GoOn(c, "checksum", "premanifest")
  /\ Learn(c, [read[c] EXCEPT !.valid = Valid(read[c].manifest), !.manifest = {}])
  /\ UNCHANGED troubles

(* _build_release_preflight takes a manifest of its own. *)
PreManifest(c) ==
  /\ GoOn(c, "premanifest", "precheck")
  /\ Learn(c, [read[c] EXCEPT !.manifest = tree])
  /\ UNCHANGED troubles

(* A plan, also that of an execution, goes on with a bundle or the list.   *)
Plans(c) == asked[c].op \in {"plan", "execute"} /\ ~read[c].planned

PreCheck(c) ==
  LET ready == Valid(read[c].manifest) /\ Required \subseteq tree
  IN /\ GoOn(c, "precheck", IF ~Plans(c) THEN "zip"
                            ELSE IF asked[c].bundle THEN "manifest" ELSE "list")
     /\ Learn(c, IF Plans(c)
                 THEN [Unread EXCEPT !.publishable = ready /\ read[c].valid, !.planned = TRUE]
                 ELSE [read[c] EXCEPT !.ready = ready, !.manifest = {}])
     /\ UNCHANGED troubles

-----------------------------------------------------------------------------
(* _build_release_publication and _build_release_rollback_package write    *)
(* the ZIP over whatever there is, blocked or not, and read it again for   *)
(* its checksum.                                                           *)
Path(c) == <<IF asked[c].op = "rollback" THEN "rollback" ELSE "publication", asked[c].tenant>>

PackageStatus(c) ==
  IF asked[c].op = "rollback" THEN "rollback"
  ELSE IF asked[c].strict => read[c].ready /\ read[c].valid THEN "published" ELSE "blocked"

(* Between its opening of the ZIP and its checksum or copy of it. *)
Holds(d) ==
  \/ stage[d] \in {"write", "hash"}
  \/ stage[d] \in {"list", "deliver"} /\ asked[d].op = "execute" /\ asked[d].bundle

Crossed(c) ==
  [d \in Callers |->
    \/ contended[d]
    \/ d # c /\ Holds(d) /\ Path(d) = Path(c)
    \/ d = c /\ \E e \in Callers \ {c} : stage[e] = "write" /\ Path(e) = Path(c)]

(* ZipFile(target, 'w') truncates the file.  A publication lists the files *)
(* of the tree for it, a rollback package takes them from its manifest.    *)
OpenZip(c) ==
  /\ GoOn(c, "zip", "write")
  /\ package' = [package EXCEPT ![Path(c)] = Torn]
  /\ contended' = Crossed(c)
  /\ read' = IF asked[c].op = "rollback" THEN read ELSE [read EXCEPT ![c].manifest = tree]
  /\ UNCHANGED <<tree, channel, memory, executions, edits, troubles>>

(* A request puts one more file into the ZIP that another one has closed.  *)
Append(c) ==
  /\ stage[c] = "write" /\ package[Path(c)] # Torn
  /\ package' = [package EXCEPT ![Path(c)] = Torn]
  /\ UNCHANGED <<tree, channel, memory, stage, asked, read, executions, edits, troubles,
                 stirred, contended>>

(* The listed files that are still there when their turn comes: of those   *)
(* that came or went since the listing, any.                               *)
Packing(c) == {held \in Trees : read[c].manifest \cap tree \subseteq held
                              /\ held \subseteq read[c].manifest \cup tree}

Packed(c, held) == [tree |-> held, status |-> PackageStatus(c),
                    dirty |-> stirred[c] /\ asked[c].op # "rollback"]

(* Mutant of CloseZip: the checksum is taken before the ZIP is closed. *)
CloseZipLate(c, whole, held) ==
  /\ GoOn(c, "write", "hash")
  /\ held \in Packing(c)
  /\ whole \/ contended[c]
  /\ read' = [read EXCEPT ![c].manifest = {}]
  /\ UNCHANGED <<tree, tables, edits, troubles, contended>>

(* Of two that have written at a time, each at its own offsets, parts of   *)
(* both are left, or all that the last of them wrote.                      *)
CloseZip(c, whole, held) ==
  /\ GoOn(c, "write", "hash")
  /\ held \in Packing(c)
  /\ whole \/ contended[c]
  /\ package' = [package EXCEPT ![Path(c)] = IF whole THEN Packed(c, held) ELSE Torn]
  /\ read' = [read EXCEPT ![c].manifest = {}]
  /\ UNCHANGED <<tree, channel, memory, executions, edits, troubles, contended>>

(* A file that cannot be read or written ends the request and leaves what  *)
(* there is of the ZIP.                                                    *)
AbandonZip(c) ==
  /\ Finish(c, "write")
  /\ Statement(FALSE)
  /\ UNCHANGED <<tree, tables, edits>>

Hash(c) ==
  /\ \/ /\ asked[c].op \in {"publish", "rollback"}
        /\ GoOn(c, "hash", "row")
        /\ Learn(c, [read[c] EXCEPT !.file = package[Path(c)]])
     \/ /\ asked[c].op \in {"plan", "execute"}
        /\ GoOn(c, "hash", "list")
        /\ Learn(c, [Unread EXCEPT !.publishable = read[c].publishable])
  /\ UNCHANGED troubles

(* The row of release_publications or rollback_packages takes the status   *)
(* and the checksum; when it cannot be inserted nobody is told.            *)
InsertRow(c) ==
  /\ Finish(c, "row")
  /\ UNCHANGED <<tree, tables, edits, troubles>>

-----------------------------------------------------------------------------
(* _list_release_channels: the table, then what the process remembers of a *)
(* channel that is not in it, then the default.                            *)
Remembered(c) == memory[Home[c]][asked[c].tenant]
Stored(c, ok) == IF ok THEN channel[asked[c].tenant] ELSE NoRow

Listed(c, ok) ==
  IF Stored(c, ok) # NoRow THEN Stored(c, ok)
  ELSE IF Remembered(c) # NoRow THEN Remembered(c) ELSE Seeded

List(c, ok) ==
  /\ GoOn(c, "list", "deliver")
  /\ Statement(ok)
  /\ Learn(c, [read[c] EXCEPT !.channel = Listed(c, ok)])

(* A plan is answered here; that it may fail to record it shows nowhere.   *)
EndPlan(c) ==
  /\ asked[c].op = "plan"
  /\ Finish(c, "deliver")
  /\ UNCHANGED <<tree, tables, edits, troubles>>

(* Mutant of Ready: whatever the preflight and the checksums said. *)
ReadyAnyhow(c) == read[c].channel.enabled /\ read[c].channel.sound

(* _evaluate_release_channel_item *)
Ready(c) == read[c].channel.enabled /\ read[c].channel.sound /\ read[c].publishable

(* _execute_release_channel_item, which copies the file that is at the     *)
(* path by now.                                                            *)
Execution(c, sent) ==
  IF ~Ready(c) THEN "blocked"
  ELSE IF read[c].channel.kind = "file_drop" /\ ~asked[c].bundle THEN "blocked"
  ELSE IF ~asked[c].live THEN "dry_run"
  ELSE CASE read[c].channel.kind = "manual_inspection" -> "prepared"
         [] read[c].channel.kind = "file_drop" -> "delivered"
         [] OTHER -> sent

Deliver(c, sent) ==
  /\ asked[c].op = "execute"
  /\ GoOn(c, "deliver", "record")
  /\ read' = [read EXCEPT ![c].outcome = Execution(c, sent), ![c].file = package[Path(c)]]
  /\ UNCHANGED <<tree, tables, edits, troubles, contended>>

(* The record names the tenant of the planned item, and a planned item has *)
(* none, so that the default stands in.                                    *)
Record(c, ok) ==
  /\ Finish(c, "record")
  /\ Statement(ok)
  /\ executions' = IF ok THEN executions \cup {Default} ELSE executions
  /\ UNCHANGED <<tree, package, channel, memory, edits>>

-----------------------------------------------------------------------------
(* _upsert_release_channel: the row, then what this process remembers.     *)
Upsert(c, ok) ==
  /\ GoOn(c, "upsert", "remember")
  /\ Statement(ok)
  /\ channel' = IF ok THEN [channel EXCEPT ![asked[c].tenant] = asked[c].settings] ELSE channel
  /\ UNCHANGED <<tree, package, memory, executions, read, edits, contended>>

Remember(c) ==
  /\ Finish(c, "remember")
  /\ memory' = [memory EXCEPT ![Home[c]][asked[c].tenant] = asked[c].settings]
  /\ UNCHANGED <<tree, package, channel, executions, edits, troubles>>

(* Somebody edits the tree. *)
Edit(files) ==
  /\ edits < MaxEdits /\ edits' = edits + 1
  /\ files # tree /\ tree' = files
  /\ stirred' = [c \in Callers |-> stirred[c] \/ stage[c] # "idle"]
  /\ UNCHANGED <<tables, stage, asked, read, troubles, contended>>

(* A process forgets, and seeds the channel of the default tenant unless   *)
(* there is one (seed_release_channel_defaults).                           *)
Restart(p) ==
  LET Lost(f, blank) == [c \in Callers |-> IF Home[c] = p THEN blank ELSE f[c]]
  IN /\ troubles < MaxTroubles /\ troubles' = troubles + 1
     /\ memory' = [memory EXCEPT ![p] = [t \in Tenants |-> NoRow]]
     /\ channel' = IF channel[Default] = NoRow THEN [channel EXCEPT ![Default] = Seeded]
                    ELSE channel
     /\ stage' = Lost(stage, "idle")
     /\ asked' = Lost(asked, Nothing) /\ read' = Lost(read, Unread)
     /\ stirred' = Lost(stirred, FALSE) /\ contended' = Lost(contended, FALSE)
     /\ UNCHANGED <<tree, package, executions, edits>>

-----------------------------------------------------------------------------
ReleaseNext ==
  \/ \E c \in Callers :
       \/ \E a \in Requests : Begin(c, a)
       \/ Manifest(c) \/ Checksum(c) \/ PreManifest(c) \/ PreCheck(c)
       \/ OpenZip(c) \/ Append(c) \/ AbandonZip(c)
       \/ \E whole \in BOOLEAN, held \in Trees : CloseZip(c, whole, held)
       \/ Hash(c) \/ InsertRow(c) \/ EndPlan(c) \/ Remember(c)
       \/ \E ok \in BOOLEAN : List(c, ok) \/ Record(c, ok) \/ Upsert(c, ok)
       \/ \E sent \in {"delivered", "failed", "prepared"} : Deliver(c, sent)
  \/ \E files \in Trees : Edit(files)
  \/ \E p \in Processes : Restart(p)

ReleaseSpec == ReleaseInit /\ [][ReleaseNext]_releaseVars

-----------------------------------------------------------------------------
ReleaseTypeOK ==
  /\ tree \in Trees
  /\ package \in [Paths -> Package \cup {NoPackage}]
  /\ channel \in [Tenants -> Channel \cup {NoRow}]
  /\ memory \in [Processes -> [Tenants -> Channel \cup {NoRow}]]
  /\ stage \in [Callers -> Stages]
  /\ asked \in [Callers -> ReleaseRequest] /\ read \in [Callers -> Read]
  /\ executions \subseteq Tenants
  /\ edits \in 0..MaxEdits /\ troubles \in 0..MaxTroubles
  /\ stirred \in [Callers -> BOOLEAN] /\ contended \in [Callers -> BOOLEAN]

(* A bundle that a file_drop delivers says "published" and holds all that  *)
(* the preflight requires, unless the tree was edited while the request    *)
(* that delivered it, or the one that wrote the file last, was running, or *)
(* the file is torn and another request wrote it since this one opened it. *)
(* The readiness is of before the bundle was built, and the file is shared.*)
DeliveredWasReady ==
  \A c \in Callers :
    stage[c] = "record" /\ read[c].outcome = "delivered" /\ read[c].channel.kind = "file_drop" =>
      \/ stirred[c] \/ read[c].file.dirty
      \/ read[c].file = Torn /\ contended[c]
      \/ read[c].file.status = "published" /\ Required \subseteq read[c].file.tree

(* A row of release_publications or rollback_packages has the status of    *)
(* the whole package whose checksum it has, unless another request wrote   *)
(* the file between the opening of the ZIP and its checksum.               *)
RowTellsPackage ==
  \A c \in Callers :
    stage[c] = "row" =>
      \/ contended[c]
      \/ read[c].file # NoPackage /\ read[c].file.status = PackageStatus(c)

=============================================================================
