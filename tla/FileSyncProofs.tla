--------------------------- MODULE FileSyncProofs ---------------------------
(***************************************************************************)
(* Machine-checked proof that an edit is lost only at the places FileSync  *)
(* names, for any number of devices, edits and mishaps.                    *)
(*                                                                         *)
(* What counts is which bytes are safe: in the log, a copy, or exposed or  *)
(* dropped before.  The bytes a row of the index names are safe once the   *)
(* upload stage of a pass is over (RowInv); until then they are on disk    *)
(* with an upload job.  So what a poll compares with the row, and a        *)
(* download or a deletion then takes off the disk, is safe (TakenInv), as  *)
(* is what the trash slot holds (SlotsInv).  A step is one device's: it    *)
(* keeps what is said of that device, every byte that was safe, and what   *)
(* was on its disk (Advances), which is enough for all (AdvancesKeeps).    *)
(***************************************************************************)
EXTENDS FileSync, TLAPS

-----------------------------------------------------------------------------
(* The inductive invariant.                                                *)

\* What is kept whatever becomes of the disks and trash slots.
Safe == Logged \cup Copied \cup exposed \cup dropped

Disks == UNION {Bytes(disk[d][p]) : d \in Devices, p \in Paths}

(* Types of the pass: plans are what is left of one.                       *)
Polling  == <<"poll", "down", "missing">>
Sending  == <<"up", "poll", "down", "missing">>
Scanning == <<"scan", "up", "poll", "down", "missing">>
Plans == {<<>>, <<"missing">>, <<"down", "missing">>, Polling,
          Sending, Cycle, Scanning,
          <<"down", "scan", "up", "poll", "down", "missing">>, Initial}

Steps == {"begin", "delete", "untree", "head", "lookup", "commit", "entry",
          "finish", "op", "merge", "fetch", "keep", "trash", "check", "swap",
          "mark"}

Notes == [read : Content \cup {Gone}, path : Paths, base : Nat, at : Nat,
          expect : Content \cup {Gone}, kept : BOOLEAN, again : BOOLEAN]

PassType == /\ plan \in [Devices -> Plans]
            /\ step \in [Devices -> Steps]
            /\ mem \in [Devices -> Notes]

\* The first stage met, if any.
Stage(d) == IF plan[d] = <<>> THEN "none" ELSE Head(plan[d])

InUpload(d) == step[d] \in {"head", "lookup", "commit", "entry", "finish"}
InPoll(d) == Stage(d) = "poll" /\ step[d] # "begin"

\* Where a pass stands, and what it has noted by then.
ControlInv(d) ==
  /\ InUpload(d) => Stage(d) = "up" /\ mem[d].read # Gone
  /\ InUpload(d) <=> up[d].status = "in_progress"
  /\ step[d] \in {"entry", "finish"} =>
       mem[d].at \in 1..Len(log) /\ mem[d].read = log[mem[d].at].content
  /\ step[d] \in {"op", "merge", "fetch", "trash"} => Stage(d) = "poll"
  /\ InPoll(d) => /\ mem[d].at \in Nat \ {0} /\ mem[d].base \in 1..Len(log)
                  /\ step[d] # "op" => mem[d].at <= mem[d].base
  /\ step[d] \in {"check", "swap", "mark"} => Stage(d) = "down"
  /\ step[d] = "keep" => Stage(d) \in {"poll", "down"}
  /\ step[d] \in {"delete", "untree"} => Stage(d) \in {"collect", "missing"}

Unsafe(d) == idx[d].hash \ Safe

\* What the row names but nothing keeps is on disk and has its upload to come.
RowInv(d) ==
  Unsafe(d) # {} =>
    /\ Unsafe(d) \subseteq Bytes(disk[d].path)
    /\ idx[d].path = "path" /\ up[d].path = "path"
    /\ up[d].status \in {"queued", "in_progress"}
    /\ InUpload(d) => Unsafe(d) \subseteq mem[d].read
    /\ Stage(d) \in {"none", "collect", "up", "missing"}

\* What a download goes over, and what the trash slot holds, is kept.
SlotsInv(d) ==
  /\ trash[d] \subseteq Safe
  /\ Bytes(down[d].decided) \subseteq Safe
  /\ down[d].content \subseteq Logged

\* What a poll or a download is about to take off the disk is kept.
TakenInv(d) ==
  /\ step[d] \in {"fetch", "trash"} => Bytes(mem[d].read) \subseteq Safe
  /\ step[d] = "merge" =>
       /\ mem[d].read # Gone
       /\ mem[d].read \subseteq Safe \cup Bytes(disk[d][mem[d].path])
  /\ step[d] \in {"check", "swap"} => Bytes(mem[d].expect) \subseteq Safe

MadeInv == \A d \in Devices : made[d] \subseteq Safe \cup Disks

KeptInv ==
  /\ TypeOK
  /\ PassType
  /\ \A d \in Devices : ControlInv(d) /\ RowInv(d) /\ SlotsInv(d) /\ TakenInv(d)
  /\ MadeInv

-----------------------------------------------------------------------------
(* Plans.                                                                  *)

(* Leaving a stage leads to the next one of the pass: what was collected   *)
(* or scanned is uploaded before anything is polled.                       *)
LEMMA PlanTail ==
  ASSUME NEW p \in Plans, p # <<>>
  PROVE  /\ Tail(p) \in Plans
         /\ Head(p) \in {"collect", "scan", "up", "poll", "down", "missing"}
         /\ Head(p) \in {"collect", "scan"} => Tail(p) # <<>> /\ Head(Tail(p)) = "up"
         /\ Head(p) = "missing" => Tail(p) = <<>>
<1>s. Sending # <<>> /\ Head(Sending) = "up"
  BY DEF Sending
<1>1. CASE p = <<"missing">>
  <2>1. Tail(p) = <<>> /\ Head(p) = "missing"
    BY <1>1
  <2>2. QED
    BY <2>1 DEF Plans
<1>2. CASE p = <<"down", "missing">>
  <2>1. Tail(p) = <<"missing">> /\ Head(p) = "down"
    BY <1>2
  <2>2. QED
    BY <2>1 DEF Plans
<1>3. CASE p = Polling
  <2>1. Tail(p) = <<"down", "missing">> /\ Head(p) = "poll"
    BY <1>3 DEF Polling
  <2>2. QED
    BY <2>1 DEF Plans
<1>4. CASE p = Sending
  <2>1. Tail(p) = Polling /\ Head(p) = "up"
    BY <1>4 DEF Polling, Sending
  <2>2. QED
    BY <2>1 DEF Plans
<1>5. CASE p = Cycle
  <2>1. Tail(p) = Sending /\ Head(p) = "collect"
    BY <1>5 DEF Cycle, Sending
  <2>2. Tail(p) # <<>> /\ Head(Tail(p)) = "up"
    BY <2>1, <1>s
  <2>3. QED
    BY <2>1, <2>2 DEF Plans
<1>6. CASE p = Scanning
  <2>1. Tail(p) = Sending /\ Head(p) = "scan"
    BY <1>6 DEF Scanning, Sending
  <2>2. Tail(p) # <<>> /\ Head(Tail(p)) = "up"
    BY <2>1, <1>s
  <2>3. QED
    BY <2>1, <2>2 DEF Plans
<1>7. CASE p = <<"down", "scan", "up", "poll", "down", "missing">>
  <2>1. Tail(p) = Scanning /\ Head(p) = "down"
    BY <1>7 DEF Scanning
  <2>2. QED
    BY <2>1 DEF Plans
<1>8. CASE p = Initial
  <2>1. /\ Tail(p) = <<"down", "scan", "up", "poll", "down", "missing">>
        /\ Head(p) = "up"
    BY <1>8 DEF Initial
  <2>2. QED
    BY <2>1 DEF Plans
<1>9. QED
  BY <1>1, <1>2, <1>3, <1>4, <1>5, <1>6, <1>7, <1>8 DEF Plans

-----------------------------------------------------------------------------
(* What a step of one device may change.                                   *)

UpJobs == [status : Status, retries : 0..MaxRetries, path : Paths]
DownJobs == [status : Status, retries : 0..MaxRetries, path : Paths,
             content : Content, decided : Content \cup {Gone}]
Events == SUBSET {"changed", "deleted"}
Conflicts == SUBSET {"edit_edit", "delete_edit"}

\* The state of d, the last of its row in a log of n operations, has its type.
RowsOf(n) == [hash : Content, rev : 1..n, path : Paths,
              state : {"synced", "pending_upload", "pending_download",
                       "conflicted", "deleted"}]
FileType(d) == /\ disk[d] \in [Paths -> Content \cup {Gone}]
               /\ copied[d] \in Content /\ trash[d] \in Content /\ made[d] \in Content
               /\ events[d] \in Events
RowType(d) == /\ idx[d] \in RowsOf(Len(log)) /\ open[d] \in Conflicts
              /\ ckpt[d] \in 1..Len(log)
              /\ known[d] \in SUBSET (1..Len(log)) /\ idx[d].rev \in known[d]
JobType(d) == up[d] \in UpJobs /\ down[d] \in DownJobs
NoteType(d) == plan[d] \in Plans /\ step[d] \in Steps /\ mem[d] \in Notes

\* g is f but at d.
Only(f, g, d) == /\ g = [e \in Devices |-> g[e]]
                 /\ \A e \in Devices : e # d => g[e] = f[e]

LogMoves == /\ log' = log \/ \E o \in Operations : log' = Append(log, o)
            /\ tree' \in 0..Len(log')
FileMoves(d) == /\ Only(disk, disk', d) /\ Only(copied, copied', d)
                /\ Only(trash, trash', d) /\ Only(made, made', d)
                /\ Only(events, events', d) /\ FileType(d)'
RowMoves(d) == /\ Only(idx, idx', d) /\ Only(open, open', d)
               /\ Only(ckpt, ckpt', d) /\ Only(known, known', d) /\ RowType(d)'
JobMoves(d) == Only(up, up', d) /\ Only(down, down', d) /\ JobType(d)'
NoteMoves(d) == /\ Only(plan, plan', d) /\ Only(step, step', d)
                /\ Only(mem, mem', d) /\ NoteType(d)'
Grows(d) == /\ copied[d] \subseteq copied'[d]
            /\ exposed \subseteq exposed' /\ dropped \subseteq dropped'
            /\ exposed' \in Content /\ dropped' \in Content
            /\ met' \in Happened

\* A step of d keeps what the invariant says of d, and every byte it knew.
Advances(d) ==
  /\ LogMoves /\ FileMoves(d) /\ RowMoves(d) /\ JobMoves(d) /\ NoteMoves(d) /\ Grows(d)
  /\ ControlInv(d)' /\ RowInv(d)' /\ SlotsInv(d)' /\ TakenInv(d)'
  /\ \A p \in Paths : Bytes(disk[d][p]) \subseteq Safe' \cup Bytes(disk'[d][p])
  /\ made'[d] \subseteq made[d] \cup Safe' \cup Bytes(disk'[d].path)

\* f is a function of the devices.
Fun(f) == f = [e \in Devices |-> f[e]]
Functions ==
  /\ Fun(disk) /\ Fun(copied) /\ Fun(trash) /\ Fun(made) /\ Fun(events)
  /\ Fun(idx) /\ Fun(open) /\ Fun(ckpt) /\ Fun(known) /\ Fun(up) /\ Fun(down)
  /\ Fun(plan) /\ Fun(step) /\ Fun(mem)
Typed(d) == FileType(d) /\ RowType(d) /\ JobType(d) /\ NoteType(d)

(* The types, device by device. *)
LEMMA DeviceTypes ==
  ASSUME TypeOK, PassType
  PROVE  Functions /\ \A d \in Devices : Typed(d)
<1>1. Functions
  BY DEF TypeOK, PassType, Functions, Fun
<1>2. ASSUME NEW d \in Devices PROVE Typed(d)
  <2>1. FileType(d)
    BY DEF TypeOK, FileType, Events
  <2>2. RowType(d)
    <3>1. Rows = RowsOf(Len(log))
      BY DEF Rows, RowsOf
    <3>2. QED
      BY <3>1 DEF TypeOK, RowType, Conflicts
  <2>3. JobType(d)
    BY DEF TypeOK, JobType, UpJobs, DownJobs
  <2>4. NoteType(d)
    BY DEF PassType, NoteType
  <2>5. QED
    BY <2>1, <2>2, <2>3, <2>4 DEF Typed
<1>3. QED
  BY <1>1, <1>2

(* ... and back, after a step. *)
LEMMA TypesOfDevices ==
  ASSUME Functions', \A d \in Devices : Typed(d)',
         log' \in Seq(Operations), log' # <<>>, tree' \in 0..Len(log'),
         dropped' \in Content, exposed' \in Content, met' \in Happened
  PROVE  TypeOK' /\ PassType'
<1>0. Rows' = RowsOf(Len(log'))
  BY DEF Rows, RowsOf
<1>1. /\ disk' \in [Devices -> [Paths -> Content \cup {Gone}]]
      /\ copied' \in [Devices -> Content] /\ trash' \in [Devices -> Content]
      /\ made' \in [Devices -> Content] /\ events' \in [Devices -> Events]
  BY DEF Functions, Fun, Typed, FileType
<1>2. /\ idx' \in [Devices -> RowsOf(Len(log'))] /\ open' \in [Devices -> Conflicts]
      /\ ckpt' \in [Devices -> 1..Len(log')] /\ known' \in [Devices -> SUBSET (1..Len(log'))]
      /\ \A d \in Devices : idx'[d].rev \in known'[d]
  BY DEF Functions, Fun, Typed, RowType
<1>3. up' \in [Devices -> UpJobs] /\ down' \in [Devices -> DownJobs]
  BY DEF Functions, Fun, Typed, JobType
<1>4. PassType'
  BY DEF Functions, Fun, Typed, NoteType, PassType
<1>5. TypeOK'
  BY <1>0, <1>1, <1>2, <1>3 DEF TypeOK, Events, Conflicts, UpJobs, DownJobs
<1>6. QED
  BY <1>4, <1>5

(* What is in the log are operations. *)
LEMMA LogType ==
  ASSUME TypeOK
  PROVE  /\ Len(log) \in Nat \ {0} /\ DOMAIN log = 1..Len(log)
         /\ \A r \in 1..Len(log) : log[r] \in Operations /\ log[r].content \in Content
<1>1. log \in Seq(Operations) /\ log # <<>>
  BY DEF TypeOK
<1>2. /\ Len(log) \in Nat \ {0} /\ DOMAIN log = 1..Len(log)
      /\ \A r \in 1..Len(log) : log[r] \in Operations
  BY <1>1
<1>3. QED
  BY <1>2 DEF Operations

(* The log only grows. *)
LEMMA LogGrows ==
  ASSUME TypeOK, LogMoves
  PROVE  /\ log' \in Seq(Operations) /\ log' # <<>>
         /\ Len(log') \in Nat \ {0} /\ Len(log) <= Len(log')
         /\ \A r \in 1..Len(log) : r \in 1..Len(log') /\ log'[r] = log[r]
         /\ Logged \subseteq Logged'
<1>1. log \in Seq(Operations) /\ log # <<>>
  BY DEF TypeOK
<1>2. CASE log' = log
  <2>1. Logged' = Logged
    BY <1>2 DEF Logged
  <2>2. QED
    BY <1>1, <1>2, <2>1
<1>3. CASE \E o \in Operations : log' = Append(log, o)
  <2>1. PICK o \in Operations : log' = Append(log, o)
    BY <1>3
  <2>2. /\ log' \in Seq(Operations) /\ log' # <<>>
        /\ Len(log') = Len(log) + 1 /\ Len(log) \in Nat \ {0}
        /\ \A r \in 1..Len(log) : log'[r] = log[r]
    BY <1>1, <2>1
  <2>3. \A r \in 1..Len(log) : r \in 1..Len(log') /\ log'[r] = log[r]
    BY <2>2
  <2>4. Logged \subseteq Logged'
    BY <2>3 DEF Logged
  <2>5. QED
    BY <2>2, <2>3, <2>4
<1>4. QED
  BY <1>2, <1>3 DEF LogMoves

(* What is safe stays safe, as do copies made now. *)
LEMMA SafeGrows ==
  ASSUME TypeOK, LogMoves, NEW d \in Devices, Only(copied, copied', d), Grows(d)
  PROVE  /\ Safe \subseteq Safe' /\ Logged \subseteq Logged' /\ Logged' \subseteq Safe'
         /\ copied'[d] \subseteq Safe' /\ exposed' \subseteq Safe' /\ dropped' \subseteq Safe'
<1>1. Logged \subseteq Logged'
  BY LogGrows
<1>2. \A e \in Devices : copied[e] \subseteq copied'[e]
  BY DEF Only, Grows
<1>3. Copied \subseteq Copied'
  BY <1>2 DEF Copied
<1>4. copied'[d] \subseteq Copied'
  BY DEF Copied
<1>5. QED
  BY <1>1, <1>3, <1>4 DEF Safe, Grows

(* What a step leaves alone stays of its type. *)
LEMMA Still ==
  ASSUME TypeOK, PassType, NEW d \in Devices, LogMoves
  PROVE  /\ UNCHANGED <<files, made, events>> => FileMoves(d)
         /\ UNCHANGED index => RowMoves(d)
         /\ UNCHANGED jobs => JobMoves(d)
         /\ UNCHANGED pass => NoteMoves(d)
<1>1. Functions /\ Typed(d)
  BY DeviceTypes
<1>2. /\ Len(log') \in Nat /\ Len(log) \in Nat /\ Len(log) <= Len(log')
  BY LogGrows, LogType
<1>3. UNCHANGED <<files, made, events>> => FileMoves(d)
  BY <1>1 DEF files, FileMoves, Only, Functions, Fun, Typed, FileType
<1>4. ASSUME UNCHANGED index PROVE RowMoves(d)
  <2>1. 1..Len(log) \subseteq 1..Len(log')
    BY <1>2
  <2>2. RowsOf(Len(log)) \subseteq RowsOf(Len(log'))
    BY <2>1 DEF RowsOf
  <2>3. RowType(d)'
    BY <1>1, <1>4, <2>1, <2>2 DEF index, Typed, RowType
  <2>4. QED
    BY <1>1, <1>4, <2>3 DEF index, RowMoves, Only, Functions, Fun
<1>5. UNCHANGED jobs => JobMoves(d)
  BY <1>1 DEF jobs, JobMoves, Only, Functions, Fun, Typed, JobType
<1>6. UNCHANGED pass => NoteMoves(d)
  BY <1>1 DEF pass, NoteMoves, Only, Functions, Fun, Typed, NoteType
<1>7. QED
  BY <1>3, <1>4, <1>5, <1>6

(* Such a step keeps the invariant. *)
LEMMA AdvancesKeeps ==
  ASSUME KeptInv, NEW d \in Devices, Advances(d)
  PROVE  KeptInv'
<1>0. TypeOK /\ PassType /\ Functions /\ \A e \in Devices : Typed(e)
  BY DeviceTypes DEF KeptInv
<1>1. /\ log' \in Seq(Operations) /\ log' # <<>>
      /\ Len(log) \in Nat \ {0} /\ Len(log') \in Nat \ {0} /\ Len(log) <= Len(log')
      /\ \A r \in 1..Len(log) : r \in 1..Len(log') /\ log'[r] = log[r]
  BY <1>0, LogGrows, LogType DEF Advances
<1>2. /\ Safe \subseteq Safe' /\ Logged \subseteq Logged'
  BY <1>0, SafeGrows DEF Advances, FileMoves
<1>3. Functions'
  BY DEF Advances, FileMoves, RowMoves, JobMoves, NoteMoves, Only, Functions, Fun
<1>4. ASSUME NEW e \in Devices, e # d
      PROVE  /\ disk'[e] = disk[e] /\ copied'[e] = copied[e] /\ trash'[e] = trash[e]
             /\ made'[e] = made[e] /\ events'[e] = events[e] /\ idx'[e] = idx[e]
             /\ open'[e] = open[e] /\ ckpt'[e] = ckpt[e] /\ known'[e] = known[e]
             /\ up'[e] = up[e] /\ down'[e] = down[e] /\ plan'[e] = plan[e]
             /\ step'[e] = step[e] /\ mem'[e] = mem[e]
  BY <1>4 DEF Advances, FileMoves, RowMoves, JobMoves, NoteMoves, Only
<1>5. ASSUME NEW e \in Devices PROVE Typed(e)'
  <2>1. CASE e = d
    BY <2>1 DEF Advances, FileMoves, RowMoves, JobMoves, NoteMoves, Typed
  <2>2. CASE e # d
    <3>1. 1..Len(log) \subseteq 1..Len(log')
      BY <1>1
    <3>2. RowsOf(Len(log)) \subseteq RowsOf(Len(log'))
      BY <3>1 DEF RowsOf
    <3>3. RowType(e)'
      BY <1>0, <1>4, <2>2, <3>1, <3>2 DEF Typed, RowType
    <3>4. FileType(e)' /\ JobType(e)' /\ NoteType(e)'
      BY <1>0, <1>4, <2>2 DEF Typed, FileType, JobType, NoteType
    <3>5. QED
      BY <3>3, <3>4 DEF Typed
  <2>3. QED
    BY <2>1, <2>2
<1>6. TypeOK' /\ PassType'
  <2>1. /\ tree' \in 0..Len(log') /\ exposed' \in Content /\ dropped' \in Content
        /\ met' \in Happened
    BY DEF Advances, LogMoves, Grows
  <2>2. QED
    BY <1>1, <1>3, <1>5, <2>1, TypesOfDevices
<1>7. ASSUME NEW e \in Devices
      PROVE  ControlInv(e)' /\ RowInv(e)' /\ SlotsInv(e)' /\ TakenInv(e)'
  <2>0. ControlInv(e) /\ RowInv(e) /\ SlotsInv(e) /\ TakenInv(e)
    BY DEF KeptInv
  <2>1. CASE e = d
    BY <2>1 DEF Advances
  <2>2. CASE e # d
    <3>1. ControlInv(e)'
      BY <1>1, <1>4, <2>0, <2>2 DEF ControlInv, InUpload, InPoll, Stage
    <3>2. RowInv(e)'
      BY <1>2, <1>4, <2>0, <2>2 DEF RowInv, Unsafe, InUpload, Stage
    <3>3. SlotsInv(e)' /\ TakenInv(e)'
      BY <1>2, <1>4, <2>0, <2>2 DEF SlotsInv, TakenInv
    <3>4. QED
      BY <3>1, <3>2, <3>3
  <2>3. QED
    BY <2>1, <2>2
<1>8. MadeInv'
  <2>1. ASSUME NEW e \in Devices, NEW p \in Paths
        PROVE  Bytes(disk[e][p]) \subseteq Safe' \cup Disks'
    <3>1. Bytes(disk[e][p]) \subseteq Safe' \cup Bytes(disk'[e][p])
      BY <1>4 DEF Advances
    <3>2. QED
      BY <3>1 DEF Disks
  <2>2. Disks \subseteq Safe' \cup Disks'
    BY <2>1 DEF Disks
  <2>3. ASSUME NEW e \in Devices PROVE made[e] \subseteq Safe' \cup Disks'
    BY <1>2, <2>2 DEF KeptInv, MadeInv
  <2>4. Bytes(disk'[d].path) \subseteq Disks'
    <3>1. disk'[d].path = disk'[d]["path"] /\ "path" \in Paths
      BY <1>5 DEF Typed, FileType, Paths
    <3>2. QED
      BY <3>1 DEF Disks
  <2>5. ASSUME NEW e \in Devices PROVE made'[e] \subseteq Safe' \cup Disks'
    BY <1>4, <2>3, <2>4 DEF Advances
  <2>6. QED
    BY <2>5 DEF MadeInv
<1>9. QED
  BY <1>6, <1>7, <1>8 DEF KeptInv

-----------------------------------------------------------------------------
(* How a pass goes on.                                                     *)

(* The parts of what is known of a device have their types. *)
LEMMA Parts ==
  ASSUME KeptInv, NEW d \in Devices
  PROVE  /\ TypeOK /\ PassType /\ Functions /\ Typed(d)
         /\ ControlInv(d) /\ RowInv(d) /\ SlotsInv(d) /\ TakenInv(d)
         /\ idx[d].hash \in Content /\ idx[d].rev \in 1..Len(log) /\ idx[d].path \in Paths
         /\ up[d].path \in Paths
         /\ down[d].path \in Paths /\ down[d].content \in Content
         /\ down[d].decided \in Content \cup {Gone}
         /\ mem[d].read \in Content \cup {Gone}
         /\ mem[d].path \in Paths /\ mem[d].base \in Nat /\ mem[d].at \in Nat
         /\ mem[d].expect \in Content \cup {Gone}
         /\ \A p \in Paths : /\ disk[d][p] \in Content \cup {Gone}
                             /\ Bytes(disk[d][p]) \in Content
         /\ disk[d].path = disk[d]["path"] /\ "path" \in Paths
<1>1. /\ TypeOK /\ PassType /\ Functions /\ Typed(d)
      /\ ControlInv(d) /\ RowInv(d) /\ SlotsInv(d) /\ TakenInv(d)
  BY DeviceTypes DEF KeptInv
<1>2. disk[d] \in [Paths -> Content \cup {Gone}] /\ "path" \in Paths
  BY <1>1 DEF Typed, FileType, Paths
<1>3. /\ \A p \in Paths : /\ disk[d][p] \in Content \cup {Gone}
                          /\ Bytes(disk[d][p]) \in Content
      /\ disk[d].path = disk[d]["path"]
  BY <1>2 DEF Bytes, Content
<1>4. /\ idx[d].hash \in Content /\ idx[d].rev \in 1..Len(log) /\ idx[d].path \in Paths
  BY <1>1 DEF Typed, RowType, RowsOf
<1>5. /\ up[d].path \in Paths
      /\ down[d].path \in Paths /\ down[d].content \in Content
      /\ down[d].decided \in Content \cup {Gone}
  BY <1>1 DEF Typed, JobType, UpJobs, DownJobs
<1>6. /\ mem[d].read \in Content \cup {Gone}
      /\ mem[d].path \in Paths /\ mem[d].base \in Nat /\ mem[d].at \in Nat
      /\ mem[d].expect \in Content \cup {Gone}
  BY <1>1 DEF Typed, NoteType, Notes
<1>7. QED
  BY <1>1, <1>2, <1>3, <1>4, <1>5, <1>6

(* A pass notes what it read and goes on in its stage. *)
LEMMA Going ==
  ASSUME PassType, NEW d \in Devices, NEW there \in Steps, NEW noted \in Notes,
         Goto(d, there, noted)
  PROVE  /\ NoteMoves(d) /\ plan'[d] = plan[d] /\ Stage(d)' = Stage(d)
         /\ step'[d] = there /\ mem'[d] = noted
  BY DEF PassType, Goto, NoteMoves, Only, NoteType, Stage

LEMMA NoMemNoted == NoMem \in Notes /\ "begin" \in Steps
  BY DEF NoMem, Notes, Paths, Steps, Content

(* Or it goes on with the rest of its plan, or with another one. *)
LEMMA Leaving ==
  ASSUME PassType, NEW d \in Devices, NEW rest \in Plans, Leave(d, rest)
  PROVE  /\ NoteMoves(d) /\ plan'[d] = rest /\ step'[d] = "begin"
         /\ Stage(d)' = IF rest = <<>> THEN "none" ELSE Head(rest)
  BY NoMemNoted DEF PassType, Leave, NoteMoves, Only, NoteType, Stage

LEMMA GoesOn ==
  ASSUME PassType, NEW d \in Devices, NextStage(d), plan[d] # <<>>
  PROVE  /\ NoteMoves(d) /\ step'[d] = "begin"
         /\ Stage(d) \in {"collect", "scan"} => Stage(d)' = "up"
         /\ Stage(d) = "missing" => Stage(d)' = "none"
<1>1. plan[d] \in Plans
  BY DEF PassType
<1>2. Tail(plan[d]) \in Plans
  BY <1>1, PlanTail
<1>3. /\ NoteMoves(d) /\ plan'[d] = Tail(plan[d]) /\ step'[d] = "begin"
      /\ Stage(d)' = IF Tail(plan[d]) = <<>> THEN "none" ELSE Head(Tail(plan[d]))
  BY <1>2, Leaving DEF NextStage
<1>4. QED
  BY <1>1, <1>3, PlanTail DEF Stage

(* At the start of a stage a pass holds nothing. *)
LEMMA AtBegin ==
  ASSUME NEW d \in Devices, step'[d] = "begin", up'[d].status # "in_progress"
  PROVE  ControlInv(d)' /\ TakenInv(d)'
  BY DEF ControlInv, TakenInv, InUpload, InPoll, Stage

(* Outside the uploads of a pass the row names only what is safe. *)
LEMMA RowSafe ==
  ASSUME KeptInv, NEW d \in Devices,
         \/ Stage(d) \notin {"none", "collect", "up", "missing"}
         \/ up[d].status \notin {"queued", "in_progress"}
  PROVE  idx[d].hash \subseteq Safe
  BY Parts DEF RowInv, Unsafe

LEMMA SafeRow ==
  ASSUME NEW d \in Devices, idx'[d].hash \subseteq Safe'
  PROVE  RowInv(d)'
  BY DEF RowInv, Unsafe

(* An upload that is given up or copied leaves no byte of the row unsafe. *)
LEMMA RowOnDisk ==
  ASSUME KeptInv, NEW d \in Devices
  PROVE  idx[d].hash \subseteq Safe \cup Bytes(disk[d][up[d].path])
  BY Parts DEF RowInv, Unsafe

(* A job is replaced. *)
LEMMA UpSet ==
  ASSUME TypeOK, PassType, NEW d \in Devices, NEW job \in UpJobs,
         up' = [up EXCEPT ![d] = job], UNCHANGED down
  PROVE  JobMoves(d) /\ up'[d] = job /\ down'[d] = down[d]
<1>1. Functions /\ Typed(d)
  BY DeviceTypes
<1>2. QED
  BY <1>1 DEF Functions, Fun, Typed, JobType, JobMoves, Only

LEMMA DownSet ==
  ASSUME TypeOK, PassType, NEW d \in Devices, NEW job \in DownJobs,
         down' = [down EXCEPT ![d] = job], UNCHANGED up
  PROVE  JobMoves(d) /\ down'[d] = job /\ up'[d] = up[d]
<1>1. Functions /\ Typed(d)
  BY DeviceTypes
<1>2. QED
  BY <1>1 DEF Functions, Fun, Typed, JobType, JobMoves, Only

(* Its status and its retries are. *)
LEMMA UpStatus ==
  ASSUME TypeOK, PassType, NEW d \in Devices, NEW status \in Status,
         NEW retries \in 0..MaxRetries,
         up' = [up EXCEPT ![d].status = status, ![d].retries = retries], UNCHANGED down
  PROVE  /\ JobMoves(d) /\ up'[d].status = status /\ up'[d].path = up[d].path
         /\ down'[d] = down[d]
<1>1. Functions /\ up[d] \in UpJobs
  BY DeviceTypes DEF Typed, JobType
<1> DEFINE job == [up[d] EXCEPT !.status = status, !.retries = retries]
<1>2. job \in UpJobs /\ job.status = status /\ job.path = up[d].path
  BY <1>1 DEF UpJobs
<1>3. up' = [up EXCEPT ![d] = job]
  BY <1>1, <1>2 DEF Functions, Fun, UpJobs
<1>4. QED
  BY <1>2, <1>3, UpSet

(* A step that does not touch a group of variables leaves d its part of it. *)
LEMMA StillHere ==
  ASSUME NEW d \in Devices
  PROVE  /\ UNCHANGED files => disk'[d] = disk[d] /\ copied'[d] = copied[d] /\ trash'[d] = trash[d]
         /\ UNCHANGED index => /\ idx'[d] = idx[d] /\ open'[d] = open[d] /\ ckpt'[d] = ckpt[d]
                               /\ known'[d] = known[d]
         /\ UNCHANGED jobs => up'[d] = up[d] /\ down'[d] = down[d]
         /\ UNCHANGED pass => /\ plan'[d] = plan[d] /\ step'[d] = step[d] /\ mem'[d] = mem[d]
                              /\ Stage(d)' = Stage(d)
         /\ UNCHANGED remote => (TypeOK => LogMoves)
  BY DEF files, index, jobs, pass, Stage, remote, LogMoves, TypeOK

(* A step of which nothing is said but that the log, the jobs and files it *)
(* leaves alone grows nothing.                                             *)
LEMMA NoGrowth ==
  ASSUME TypeOK, NEW d \in Devices, UNCHANGED copied, UNCHANGED <<dropped, exposed>>,
         met' \in Happened
  PROVE  Grows(d)
  BY DEF Grows, TypeOK

LEMMA FilesStay ==
  ASSUME KeptInv, NEW d \in Devices, UNCHANGED <<disk, made>>, Safe \subseteq Safe'
  PROVE  /\ \A p \in Paths : Bytes(disk[d][p]) \subseteq Safe' \cup Bytes(disk'[d][p])
         /\ made'[d] \subseteq made[d] \cup Safe' \cup Bytes(disk'[d].path)
  OBVIOUS

-----------------------------------------------------------------------------
(* One action after the other: first the ones that only move the pass.     *)

LEMMA Quiet ==
  ASSUME KeptInv, NEW d \in Devices,
         UNCHANGED <<remote, index, jobs, files, past, events>>, met' \in Happened,
         NoteMoves(d), ControlInv(d)', TakenInv(d)',
         Unsafe(d) # {} => /\ InUpload(d)' => Unsafe(d) \subseteq mem'[d].read
                           /\ Stage(d)' \in {"none", "collect", "up", "missing"}
  PROVE  Advances(d)
<1>1. TypeOK /\ PassType /\ RowInv(d) /\ SlotsInv(d)
  BY Parts
<1>2. LogMoves
  BY <1>1, StillHere
<1>3. FileMoves(d) /\ RowMoves(d) /\ JobMoves(d)
  BY <1>1, <1>2, Still DEF past
<1>4. Grows(d)
  BY <1>1, NoGrowth DEF past, files
<1>5. Safe' = Safe /\ Logged' = Logged
  BY DEF Safe, Logged, Copied, remote, files, past
<1>6. RowInv(d)'
  BY <1>1, <1>5 DEF RowInv, Unsafe, index, jobs, files
<1>7. SlotsInv(d)'
  BY <1>1, <1>5, StillHere DEF SlotsInv
<1>8. /\ \A p \in Paths : Bytes(disk[d][p]) \subseteq Safe' \cup Bytes(disk'[d][p])
      /\ made'[d] \subseteq made[d] \cup Safe' \cup Bytes(disk'[d].path)
  BY <1>5, FilesStay DEF files, past
<1>9. QED
  BY <1>2, <1>3, <1>4, <1>6, <1>7, <1>8 DEF Advances

(* A step that leaves disk and trash alone. *)
LEMMA Middle ==
  ASSUME KeptInv, NEW d \in Devices, LogMoves, RowMoves(d), JobMoves(d), FileMoves(d),
         NoteMoves(d), Grows(d), UNCHANGED <<disk, trash, made>>,
         ControlInv(d)', RowInv(d)', TakenInv(d)',
         Bytes(down'[d].decided) \subseteq Safe', down'[d].content \subseteq Logged'
  PROVE  Advances(d)
<1>1. TypeOK /\ SlotsInv(d)
  BY Parts
<1>2. Safe \subseteq Safe'
  BY <1>1, SafeGrows DEF FileMoves
<1>3. SlotsInv(d)'
  BY <1>1, <1>2 DEF SlotsInv
<1>4. QED
  BY <1>2, <1>3, FilesStay DEF Advances

(* What it says of the download when that job is left alone. *)
LEMMA SameDownload ==
  ASSUME KeptInv, NEW d \in Devices, LogMoves, FileMoves(d), Grows(d),
         down'[d].decided = down[d].decided, down'[d].content = down[d].content
  PROVE  /\ Bytes(down'[d].decided) \subseteq Safe' /\ down'[d].content \subseteq Logged'
         /\ Safe \subseteq Safe' /\ Logged \subseteq Logged' /\ Logged' \subseteq Safe'
         /\ copied'[d] \subseteq Safe' /\ exposed' \subseteq Safe'
<1>1. TypeOK /\ SlotsInv(d)
  BY Parts
<1>2. QED
  BY <1>1, SafeGrows DEF FileMoves, SlotsInv

LEMMA MishapCounted ==
  ASSUME TypeOK, NEW kind, NEW hit \in Hits, Mishap(kind, hit)
  PROVE  met' \in Happened
<1>1. met \in Seq(Hits) /\ Len(met) \in Nat /\ Len(met) < MaxMishaps /\ met' = Append(met, hit)
  BY DEF TypeOK, Mishap, Happened
<1>2. met' \in Seq(Hits) /\ Len(met') = Len(met) + 1
  BY <1>1
<1>3. QED
  BY <1>1, <1>2, MishapAssumption DEF Happened

LEMMA PlansKnown ==
  /\ Cycle \in Plans /\ Initial \in Plans /\ <<>> \in Plans /\ <<"missing">> \in Plans
  /\ Cycle # <<>> /\ Head(Cycle) = "collect" /\ Initial # <<>> /\ Head(Initial) = "up"
  /\ <<"missing">> # <<>> /\ Head(<<"missing">>) = "missing"
  BY DEF Plans, Cycle, Initial

LEMMA StartPassAdvances ==
  ASSUME KeptInv, NEW d \in Devices, StartPass(d)
  PROVE  Advances(d)
<1>1. TypeOK /\ PassType /\ ControlInv(d) /\ RowInv(d)
  BY Parts
<1>2. NoteMoves(d) /\ step'[d] = "begin" /\ Stage(d)' \in {"collect", "up"}
  BY <1>1, Leaving, PlansKnown DEF StartPass
<1>3. Stage(d) = "none" /\ up'[d] = up[d]
  BY StillHere DEF StartPass, Stage
<1>4. up[d].status # "in_progress"
  BY <1>1, <1>3 DEF ControlInv
<1>5. ControlInv(d)' /\ TakenInv(d)'
  BY <1>2, <1>3, <1>4, AtBegin
<1>6. QED
  BY <1>1, <1>2, <1>5, Quiet DEF StartPass, TypeOK, InUpload

LEMMA PassFullAdvances ==
  ASSUME KeptInv, NEW d \in Devices, PassFull(d)
  PROVE  Advances(d)
<1>1. TypeOK /\ PassType /\ ControlInv(d)
  BY Parts
<1>2. NoteMoves(d) /\ step'[d] = "begin" /\ Stage(d)' = "missing"
  BY <1>1, Leaving, PlansKnown DEF PassFull
<1>3. up'[d] = up[d] /\ step[d] = "begin"
  BY StillHere DEF PassFull, At
<1>4. up[d].status # "in_progress"
  BY <1>1, <1>3 DEF ControlInv, InUpload
<1>5. ControlInv(d)' /\ TakenInv(d)'
  BY <1>2, <1>3, <1>4, AtBegin
<1>6. met' \in Happened
  BY <1>1, MishapCounted DEF Hits, PassFull
<1>7. QED
  BY <1>2, <1>5, <1>6, Quiet DEF PassFull, InUpload

LEMMA UploadHeadAdvances ==
  ASSUME KeptInv, NEW d \in Devices, UploadHead(d)
  PROVE  Advances(d)
<1>1. /\ TypeOK /\ PassType /\ ControlInv(d) /\ RowInv(d) /\ mem[d] \in Notes
      /\ Len(log) \in Nat
  BY Parts, LogType DEF Typed, NoteType
<1> DEFINE noted == [mem[d] EXCEPT !.base = Len(log)]
<1>2. noted \in Notes /\ noted.read = mem[d].read /\ "lookup" \in Steps
  BY <1>1 DEF Notes, Steps
<1>3. /\ NoteMoves(d) /\ step'[d] = "lookup" /\ mem'[d].read = mem[d].read
      /\ Stage(d)' = Stage(d)
  BY <1>1, <1>2, Going DEF UploadHead
<1>4. up'[d] = up[d] /\ step[d] = "head" /\ Stage(d) = "up"
  BY StillHere DEF UploadHead, At, Stage
<1>5. ControlInv(d)' /\ TakenInv(d)'
  BY <1>1, <1>3, <1>4 DEF ControlInv, TakenInv, InUpload, InPoll
<1>6. Unsafe(d) # {} => Unsafe(d) \subseteq mem[d].read
  BY <1>1, <1>4 DEF RowInv, InUpload
<1>7. QED
  BY <1>1, <1>3, <1>4, <1>5, <1>6, Quiet DEF UploadHead, TypeOK

LEMMA UploadsDoneAdvances ==
  ASSUME KeptInv, NEW d \in Devices, UploadsDone(d)
  PROVE  Advances(d)
<1>1. TypeOK /\ PassType /\ ControlInv(d) /\ RowInv(d)
  BY Parts
<1>2. NoteMoves(d) /\ step'[d] = "begin"
  BY <1>1, GoesOn DEF UploadsDone, At
<1>3. up'[d] = up[d] /\ step[d] = "begin" /\ up[d].status # "queued"
  BY StillHere DEF UploadsDone, At
<1>4. up[d].status # "in_progress"
  BY <1>1, <1>3 DEF ControlInv, InUpload
<1>5. ControlInv(d)' /\ TakenInv(d)'
  BY <1>2, <1>3, <1>4, AtBegin
<1>6. Unsafe(d) = {}
  BY <1>1, <1>3, <1>4 DEF RowInv
<1>7. QED
  BY <1>1, <1>2, <1>5, <1>6, Quiet DEF UploadsDone, TypeOK

LEMMA DownloadsDoneAdvances ==
  ASSUME KeptInv, NEW d \in Devices, DownloadsDone(d)
  PROVE  Advances(d)
<1>1. TypeOK /\ PassType /\ ControlInv(d) /\ RowInv(d)
  BY Parts
<1>2. NoteMoves(d) /\ step'[d] = "begin"
  BY <1>1, GoesOn DEF DownloadsDone, At
<1>3. up'[d] = up[d] /\ step[d] = "begin" /\ Stage(d) = "down"
  BY StillHere DEF DownloadsDone, At, Stage
<1>4. up[d].status # "in_progress"
  BY <1>1, <1>3 DEF ControlInv, InUpload
<1>5. ControlInv(d)' /\ TakenInv(d)'
  BY <1>2, <1>3, <1>4, AtBegin
<1>6. Unsafe(d) = {}
  BY <1>1, <1>3 DEF RowInv
<1>7. QED
  BY <1>1, <1>2, <1>5, <1>6, Quiet DEF DownloadsDone, TypeOK

(* In the poll and the downloads no upload is under way. *)
LEMMA Polls ==
  ASSUME KeptInv, NEW d \in Devices, Stage(d) \in {"poll", "down"}
  PROVE  /\ up[d].status # "in_progress" /\ ~InUpload(d)
         /\ Unsafe(d) = {} /\ idx[d].hash \subseteq Safe
<1>1. ControlInv(d) /\ RowInv(d)
  BY Parts
<1>2. Unsafe(d) = {} /\ ~InUpload(d)
  BY <1>1 DEF RowInv, ControlInv
<1>3. QED
  BY <1>1, <1>2 DEF ControlInv, Unsafe

(* On to an operation of the log. *)
LEMMA ToOp ==
  ASSUME KeptInv, NEW d \in Devices, NEW base \in Nat, NEW at \in Nat,
         Goto(d, "op", [NoMem EXCEPT !.base = base, !.at = at])
  PROVE  /\ NoteMoves(d) /\ step'[d] = "op" /\ Stage(d)' = Stage(d)
         /\ mem'[d].base = base /\ mem'[d].at = at
<1> DEFINE noted == [NoMem EXCEPT !.base = base, !.at = at]
<1>1. PassType
  BY Parts
<1>2. noted \in Notes /\ noted.base = base /\ noted.at = at /\ "op" \in Steps
  BY DEF NoMem, Notes, Steps, Paths
<1>3. Goto(d, "op", noted)
  OBVIOUS
<1> HIDE DEF noted
<1>4. QED
  BY <1>1, <1>2, <1>3, Going

(* There the poll holds nothing. *)
LEMMA AtOp ==
  ASSUME KeptInv, NEW d \in Devices, Stage(d)' = "poll", step'[d] = "op",
         mem'[d].at \in Nat \ {0}, mem'[d].base \in 1..Len(log'),
         up'[d].status # "in_progress"
  PROVE  ControlInv(d)' /\ TakenInv(d)'
  BY DEF ControlInv, TakenInv, InUpload, InPoll

LEMMA PollStartAdvances ==
  ASSUME KeptInv, NEW d \in Devices, PollStart(d)
  PROVE  Advances(d)
<1>1. TypeOK /\ PassType /\ Len(log) \in Nat \ {0} /\ Len(log') = Len(log)
  BY Parts, LogType DEF PollStart, remote
<1>2. up'[d] = up[d] /\ Stage(d) = "poll" /\ plan[d] # <<>>
  BY StillHere DEF PollStart, At, Stage
<1>3. up[d].status # "in_progress" /\ Unsafe(d) = {}
  BY <1>2, Polls
<1>4. CASE NextStage(d)
  <2>1. NoteMoves(d) /\ step'[d] = "begin"
    BY <1>1, <1>2, <1>4, GoesOn
  <2>2. ControlInv(d)' /\ TakenInv(d)'
    BY <1>2, <1>3, <2>1, AtBegin
  <2>3. QED
    BY <1>1, <1>3, <2>1, <2>2, Quiet DEF PollStart, TypeOK
<1>5. CASE Goto(d, "op", [NoMem EXCEPT !.base = Len(log), !.at = ckpt[d] + 1])
  <2>1. ckpt[d] + 1 \in Nat \ {0}
    BY Parts DEF Typed, RowType
  <2>2. /\ NoteMoves(d) /\ step'[d] = "op" /\ Stage(d)' = "poll"
        /\ mem'[d].base = Len(log) /\ mem'[d].at = ckpt[d] + 1
    BY <1>1, <1>2, <1>5, <2>1, ToOp
  <2>3. ControlInv(d)' /\ TakenInv(d)'
    BY <1>1, <1>2, <1>3, <2>1, <2>2, AtOp
  <2>4. QED
    BY <1>1, <1>3, <2>2, <2>3, Quiet DEF PollStart, TypeOK
<1>6. QED
  BY <1>4, <1>5 DEF PollStart

LEMMA PollUnusableAdvances ==
  ASSUME KeptInv, NEW d \in Devices, PollUnusable(d)
  PROVE  Advances(d)
<1>1. TypeOK /\ PassType
  BY Parts
<1>2. up'[d] = up[d] /\ Stage(d) = "poll" /\ plan[d] # <<>>
  BY StillHere DEF PollUnusable, At, Stage
<1>3. up[d].status # "in_progress" /\ Unsafe(d) = {}
  BY <1>2, Polls
<1>4. NoteMoves(d) /\ step'[d] = "begin"
  BY <1>1, <1>2, GoesOn DEF PollUnusable
<1>5. ControlInv(d)' /\ TakenInv(d)'
  BY <1>2, <1>3, <1>4, AtBegin
<1>6. met' \in Happened
  BY <1>1, MishapCounted DEF Hits, PollUnusable, Fault
<1>7. QED
  BY <1>3, <1>4, <1>5, <1>6, Quiet DEF PollUnusable

(* What a poll decides on was compared with the row; unchanged bytes are   *)
(* those of the row, which are safe.                                       *)
LEMMA PollOpAdvances ==
  ASSUME KeptInv, NEW d \in Devices, PollOp(d)
  PROVE  Advances(d)
<1> DEFINE path == IF Op(d).kind = "write" THEN Placed ELSE idx[d].path
           acts == IF Op(d).kind = "write"
                   THEN IF Changed(d, path) THEN "merge" ELSE "fetch"
                   ELSE IF Changed(d, path) THEN "keep" ELSE "trash"
           noted == [mem[d] EXCEPT !.path = path, !.read = disk[d][path]]
<1>1. /\ TypeOK /\ PassType /\ ControlInv(d) /\ mem[d] \in Notes
      /\ Len(log) \in Nat \ {0} /\ Len(log') = Len(log)
  BY Parts, LogType DEF PollOp, remote, Typed, NoteType
<1>2. /\ up'[d] = up[d] /\ Stage(d) = "poll" /\ step[d] = "op"
      /\ mem[d].at <= mem[d].base
  BY StillHere DEF PollOp, At, Stage
<1>3. up[d].status # "in_progress" /\ Unsafe(d) = {} /\ idx[d].hash \subseteq Safe
  BY <1>2, Polls
<1>4. mem[d].at \in Nat \ {0} /\ mem[d].base \in 1..Len(log)
  BY <1>1, <1>2 DEF ControlInv, InPoll
<1>5. Safe' = Safe /\ disk' = disk
  BY DEF PollOp, Safe, Logged, Copied, remote, files, past
<1>6. CASE NextOp(d)
  <2>1. mem[d].base \in Nat /\ mem[d].at + 1 \in Nat \ {0}
    BY <1>1, <1>4
  <2>2. /\ NoteMoves(d) /\ step'[d] = "op" /\ Stage(d)' = "poll"
        /\ mem'[d].base = mem[d].base /\ mem'[d].at = mem[d].at + 1
    BY <1>2, <1>6, <2>1, ToOp DEF NextOp
  <2>3. ControlInv(d)' /\ TakenInv(d)'
    BY <1>1, <1>2, <1>3, <1>4, <2>1, <2>2, AtOp
  <2>4. QED
    BY <1>1, <1>3, <2>2, <2>3, Quiet DEF PollOp, TypeOK
<1>7. CASE Goto(d, acts, noted)
  <2>1. path \in Paths
    BY Parts DEF Placed, Paths
  <2>2. disk[d][path] \in Content \cup {Gone}
    BY <2>1, Parts
  <2>3. /\ noted \in Notes /\ noted.read = disk[d][path] /\ noted.path = path
        /\ noted.base = mem[d].base /\ noted.at = mem[d].at
    <3> HIDE DEF path
    <3>1. QED
      BY <1>1, <2>1, <2>2 DEF Notes
  <2>4. acts \in {"merge", "fetch", "keep", "trash"}
    BY DEF acts
  <2>5. acts \in Steps
    BY <2>4 DEF Steps
  <2>6. acts \in {"fetch", "trash"} => ~Changed(d, path)
    BY DEF acts
  <2>7. acts = "merge" => Changed(d, path)
    BY DEF acts
  <2> HIDE DEF acts, path, noted
  <2>8. /\ NoteMoves(d) /\ step'[d] = acts /\ Stage(d)' = "poll" /\ mem'[d] = noted
    BY <1>1, <1>2, <1>7, <2>3, <2>5, Going
  <2>9. ControlInv(d)'
    BY <1>1, <1>2, <1>3, <1>4, <2>3, <2>4, <2>8 DEF ControlInv, InUpload, InPoll
  <2>10. TakenInv(d)'
    <3>1. acts \in {"fetch", "trash"} => Bytes(disk[d][path]) \subseteq Safe
      BY <1>3, <2>6 DEF Changed, Bytes
    <3>2. acts = "merge" => /\ disk[d][path] # Gone
                            /\ disk[d][path] \subseteq Bytes(disk[d][path])
      BY <2>7 DEF Changed, Bytes
    <3>3. QED
      BY <1>5, <2>3, <2>4, <2>8, <3>1, <3>2 DEF TakenInv
  <2>11. QED
    BY <1>1, <1>3, <2>8, <2>9, <2>10, Quiet DEF PollOp, TypeOK
<1>8. QED
  BY <1>6, <1>7 DEF PollOp

-----------------------------------------------------------------------------
(* Users, restarts and what the passes do on the spot.                     *)

(* A save is on the disk, which keeps what was made before. *)
LEMMA UserEditsAdvances ==
  ASSUME KeptInv, NEW d \in Devices, UserEdits(d)
  PROVE  Advances(d)
<1>1. /\ TypeOK /\ PassType /\ Functions /\ Typed(d)
      /\ ControlInv(d) /\ RowInv(d) /\ SlotsInv(d) /\ TakenInv(d)
  BY Parts
<1>2. PICK e \in Edits :
        /\ made' = [made EXCEPT ![d] = @ \cup {e}]
        /\ disk' = [disk EXCEPT ![d].path = Bytes(@) \cup {e}]
        /\ events' = [events EXCEPT ![d] = @ \cup {"changed"}]
        /\ UNCHANGED <<remote, index, jobs, copied, trash, pass, dropped, exposed, met>>
  BY DEF UserEdits
<1>3. LogMoves /\ UNCHANGED <<log, copied>>
  BY <1>1, <1>2, StillHere DEF remote
<1>4. RowMoves(d) /\ JobMoves(d) /\ NoteMoves(d)
  BY <1>1, <1>2, <1>3, Still
<1>5. /\ Only(disk, disk', d) /\ disk'[d] \in [Paths -> Content \cup {Gone}]
      /\ disk'[d].path = Bytes(disk[d].path) \cup {e}
      /\ disk'[d]["path"] = Bytes(disk[d].path) \cup {e}
      /\ \A p \in Paths : p # "path" => disk'[d][p] = disk[d][p]
  BY <1>1, <1>2 DEF Functions, Fun, Typed, FileType, Only, Paths, Content, Bytes
<1>6. FileMoves(d) /\ made'[d] = made[d] \cup {e}
  BY <1>1, <1>2, <1>5 DEF Functions, Fun, Typed, FileType, FileMoves, Only, Content, Events
<1>7. Bytes(disk'[d].path) = Bytes(disk[d].path) \cup {e}
  <2>1. disk'[d].path \in SUBSET Edits
    BY <1>2, <1>5, Parts DEF Content
  <2>2. QED
    BY <1>5, <2>1, GoneAssumption DEF Bytes
<1>8. \A p \in Paths : Bytes(disk[d][p]) \subseteq Bytes(disk'[d][p])
  <2>1. disk'[d].path = disk'[d]["path"]
    BY <1>5
  <2>2. QED
    BY <1>5, <1>7, <2>1, Parts
<1>9. Grows(d)
  BY <1>1, <1>2, <1>3, NoGrowth DEF TypeOK
<1>10. Safe' = Safe /\ Logged' = Logged
  BY <1>2, <1>3 DEF Safe, Logged, Copied
<1>11. /\ idx'[d] = idx[d] /\ up'[d] = up[d] /\ down'[d] = down[d] /\ step'[d] = step[d]
       /\ mem'[d] = mem[d] /\ Stage(d)' = Stage(d) /\ trash'[d] = trash[d] /\ log' = log
  BY <1>2, <1>3, StillHere
<1>12. ControlInv(d)' /\ SlotsInv(d)'
  BY <1>1, <1>10, <1>11 DEF ControlInv, InUpload, InPoll, SlotsInv
<1>13. RowInv(d)'
  BY <1>1, <1>7, <1>10, <1>11 DEF RowInv, Unsafe, InUpload
<1>14. TakenInv(d)'
  <2>1. Bytes(disk[d][mem[d].path]) \subseteq Bytes(disk'[d][mem[d].path])
    BY <1>8, Parts
  <2>2. QED
    BY <1>1, <1>10, <1>11, <2>1 DEF TakenInv
<1>15. made'[d] \subseteq made[d] \cup Safe' \cup Bytes(disk'[d].path)
  BY <1>6, <1>7
<1>16. QED
  BY <1>3, <1>4, <1>6, <1>8, <1>9, <1>12, <1>13, <1>14, <1>15 DEF Advances

(* What a user deletes was dropped on purpose. *)
LEMMA UserDeletesAdvances ==
  ASSUME KeptInv, NEW d \in Devices, UserDeletes(d)
  PROVE  Advances(d)
<1>1. /\ TypeOK /\ PassType /\ Functions /\ Typed(d)
      /\ ControlInv(d) /\ RowInv(d) /\ SlotsInv(d) /\ TakenInv(d)
  BY Parts
<1>2. /\ LogMoves /\ UNCHANGED <<log, copied, trash, made, exposed>>
      /\ UNCHANGED <<index, jobs, pass>> /\ dropped' = dropped \cup disk[d].path
      /\ disk[d].path # Gone /\ disk[d].path \in Content
      /\ disk' = [disk EXCEPT ![d].path = Gone]
      /\ events' = [events EXCEPT ![d] = @ \cup {"deleted"}]
  BY <1>1, StillHere, Parts DEF UserDeletes, remote
<1>3. RowMoves(d) /\ JobMoves(d) /\ NoteMoves(d)
  BY <1>1, <1>2, Still
<1>4. /\ Only(disk, disk', d) /\ disk'[d] \in [Paths -> Content \cup {Gone}]
      /\ \A p \in Paths : p # "path" => disk'[d][p] = disk[d][p]
  BY <1>1, <1>2 DEF Functions, Fun, Typed, FileType, Only, Paths
<1>5. FileMoves(d)
  BY <1>1, <1>2, <1>4 DEF Functions, Fun, Typed, FileType, FileMoves, Only, Events
<1>6. Grows(d)
  <2>1. met' \in Happened
    BY <1>1, MishapCounted DEF Hits, UserDeletes
  <2>2. QED
    BY <1>1, <1>2, <2>1 DEF Grows, TypeOK, Content
<1>7. /\ Safe \subseteq Safe' /\ Logged \subseteq Logged' /\ dropped' \subseteq Safe'
  BY <1>1, <1>2, <1>5, <1>6, SafeGrows DEF FileMoves
<1>8. Bytes(disk[d].path) \subseteq Safe'
  BY <1>2, <1>7 DEF Bytes
<1>9. \A p \in Paths : Bytes(disk[d][p]) \subseteq Safe' \cup Bytes(disk'[d][p])
  BY <1>4, <1>8, Parts
<1>10. /\ idx'[d] = idx[d] /\ up'[d] = up[d] /\ down'[d] = down[d] /\ step'[d] = step[d]
       /\ mem'[d] = mem[d] /\ Stage(d)' = Stage(d) /\ trash'[d] = trash[d]
  BY <1>2, StillHere
<1>11. ControlInv(d)' /\ SlotsInv(d)'
  BY <1>1, <1>2, <1>7, <1>10 DEF ControlInv, InUpload, InPoll, SlotsInv
<1>12. RowInv(d)'
  BY <1>1, <1>7, <1>8, <1>10 DEF RowInv, Unsafe, InUpload
<1>13. TakenInv(d)'
  <2>1. Bytes(disk[d][mem[d].path]) \subseteq Safe' \cup Bytes(disk'[d][mem[d].path])
    BY <1>9, Parts
  <2>2. QED
    BY <1>1, <1>7, <1>10, <2>1 DEF TakenInv
<1>14. QED
  BY <1>2, <1>3, <1>5, <1>6, <1>9, <1>11, <1>12, <1>13 DEF Advances

(* After a restart a transfer that was under way is to come. *)
LEMMA RestartAdvances ==
  ASSUME KeptInv, NEW d \in Devices, Restart(d)
  PROVE  Advances(d)
<1> DEFINE again(job) == IF job.status = "in_progress"
                         THEN [job EXCEPT !.status = "queued"] ELSE job
<1>1. /\ TypeOK /\ PassType /\ Functions /\ Typed(d)
      /\ ControlInv(d) /\ RowInv(d) /\ SlotsInv(d)
  BY Parts
<1>2. /\ LogMoves /\ UNCHANGED <<log, disk, copied, trash, made, dropped, exposed, index>>
      /\ events' = [events EXCEPT ![d] = {}]
      /\ up' = [up EXCEPT ![d] = again(@)] /\ down' = [down EXCEPT ![d] = again(@)]
  BY <1>1, StillHere DEF Restart, remote, files, past
<1>3. RowMoves(d)
  BY <1>1, <1>2, Still
<1>4. FileMoves(d)
  BY <1>1, <1>2 DEF Functions, Fun, Typed, FileType, FileMoves, Only, Events
<1>5. /\ again(up[d]) \in UpJobs /\ again(up[d]).path = up[d].path
      /\ again(up[d]).status # "in_progress"
      /\ up[d].status \in {"queued", "in_progress"} => again(up[d]).status = "queued"
  BY <1>1 DEF Typed, JobType, UpJobs, Status
<1>6. /\ again(down[d]) \in DownJobs /\ again(down[d]).decided = down[d].decided
      /\ again(down[d]).content = down[d].content
  BY <1>1 DEF Typed, JobType, DownJobs, Status
<1> HIDE DEF again
<1>7. up'[d] = again(up[d]) /\ down'[d] = again(down[d]) /\ JobMoves(d)
  BY <1>1, <1>2, <1>5, <1>6 DEF Functions, Fun, JobMoves, Only, JobType
<1>8. NoteMoves(d) /\ step'[d] = "begin" /\ Stage(d)' = "up"
  BY <1>1, Leaving, PlansKnown DEF Restart
<1>9. Grows(d)
  <2>1. PICK hit \in {"committed", "pass"} : Mishap("restart", hit)
    BY DEF Restart
  <2>2. met' \in Happened
    BY <1>1, <2>1, MishapCounted DEF Hits
  <2>3. QED
    BY <1>1, <1>2, <2>2, NoGrowth
<1>10. Safe' = Safe /\ disk'[d] = disk[d] /\ idx'[d] = idx[d]
  BY <1>2, StillHere DEF Safe, Logged, Copied
<1>11. ControlInv(d)' /\ TakenInv(d)'
  BY <1>5, <1>7, <1>8, AtBegin
<1>12. RowInv(d)'
  BY <1>1, <1>5, <1>7, <1>8, <1>10 DEF RowInv, Unsafe, InUpload
<1>13. /\ Bytes(down'[d].decided) \subseteq Safe' /\ down'[d].content \subseteq Logged'
  BY <1>2, <1>4, <1>6, <1>7, <1>9, SameDownload
<1>14. QED
  BY <1>2, <1>3, <1>4, <1>7, <1>8, <1>9, <1>11, <1>12, <1>13, Middle

(* What a pass notices on disk it registers, and queues for upload. *)
LEMMA Noticed ==
  ASSUME KeptInv, NEW d \in Devices, Notice(d), step[d] = "begin",
         UNCHANGED <<log, tree, open, ckpt, known, down>>
  PROVE  /\ LogMoves /\ RowMoves(d) /\ JobMoves(d) /\ Only(copied, copied', d)
         /\ copied[d] \subseteq copied'[d] /\ copied'[d] \in Content
         /\ up'[d].status # "in_progress" /\ down'[d] = down[d]
         /\ \/ idx'[d] = idx[d] /\ up'[d] = up[d]
            \/ /\ idx'[d].hash = Bytes(disk[d].path) /\ idx'[d].path = "path"
               /\ up'[d].path = "path" /\ up'[d].status = "queued"
<1>1. /\ TypeOK /\ PassType /\ Functions /\ Typed(d) /\ ControlInv(d)
      /\ disk[d].path \in Content \cup {Gone}
  BY Parts
<1>2. LogMoves
  BY <1>1 DEF LogMoves, TypeOK
<1>3. up[d].status # "in_progress" /\ down'[d] = down[d]
  BY <1>1 DEF ControlInv, InUpload
<1>4. CASE UNCHANGED <<idx, up>> /\ (UNCHANGED copied \/ disk[d].path # Gone)
  <2>1. RowMoves(d) /\ JobMoves(d)
    BY <1>1, <1>2, <1>4, Still DEF index, jobs
  <2>2. /\ Only(copied, copied', d) /\ copied[d] \subseteq copied'[d] /\ copied'[d] \in Content
    <3>1. CASE UNCHANGED copied
      BY <1>1, <3>1 DEF Functions, Fun, Only, Typed, FileType
    <3>2. CASE /\ disk[d].path # Gone
               /\ copied' = [copied EXCEPT ![d] = @ \cup disk[d].path]
      BY <1>1, <3>2 DEF Functions, Fun, Only, Typed, FileType, Content
    <3>3. CASE idx' = [idx EXCEPT ![d].hash = disk[d].path, ![d].state = "pending_upload"]
               /\ UNCHANGED copied
      BY <3>1, <3>3
    <3>4. QED
      BY <3>1, <3>2, <3>3 DEF Notice
  <2>3. QED
    BY <1>2, <1>3, <1>4, <2>1, <2>2
<1>5. CASE /\ disk[d].path # Gone /\ idx[d].path = "path"
           /\ idx' = [idx EXCEPT ![d].hash = disk[d].path, ![d].state = "pending_upload"]
           /\ up' = [up EXCEPT ![d] = Upload("path")]
           /\ UNCHANGED copied
  <2>1. Upload("path") \in UpJobs /\ Upload("path").status = "queued"
        /\ Upload("path").path = "path"
    BY RetryAssumption DEF Upload, UpJobs, Status, Paths
  <2>2. JobMoves(d) /\ up'[d] = Upload("path")
    BY <1>1, <1>5, <2>1, UpSet
  <2>3. /\ Only(idx, idx', d) /\ idx'[d] \in RowsOf(Len(log)) /\ idx'[d].hash = disk[d].path
        /\ idx'[d].path = "path" /\ idx'[d].rev = idx[d].rev
    BY <1>1, <1>5 DEF Functions, Fun, Only, Typed, RowType, RowsOf, Content
  <2>4. RowMoves(d)
    BY <1>1, <2>3 DEF RowMoves, RowType, Typed, Functions, Fun, Only
  <2>5. Only(copied, copied', d) /\ copied'[d] \in Content
    BY <1>1, <1>5 DEF Functions, Fun, Only, Typed, FileType
  <2>6. disk[d].path = Bytes(disk[d].path)
    BY <1>5 DEF Bytes
  <2>7. QED
    BY <1>2, <1>3, <1>5, <2>1, <2>2, <2>3, <2>4, <2>5, <2>6
<1>6. QED
  BY <1>4, <1>5 DEF Notice

(* Then the upload stage follows, or the deletion of a file that is gone. *)
LEMMA NoticedAdvances ==
  ASSUME KeptInv, NEW d \in Devices, step[d] = "begin",
         Notice(d) \/ UNCHANGED <<idx, up, copied>>,
         UNCHANGED <<log, tree, open, ckpt, known, down, disk, trash, made,
                     dropped, exposed, met>>,
         Only(events, events', d), events'[d] \in Events,
         NoteMoves(d),
         \/ step'[d] = "begin" /\ Stage(d)' = "up"
         \/ step'[d] = "delete" /\ Stage(d)' = "collect" /\ Stage(d) = "collect"
  PROVE  Advances(d)
<1>1. /\ TypeOK /\ PassType /\ Functions /\ Typed(d) /\ ControlInv(d) /\ RowInv(d)
  BY Parts
<1>2. /\ LogMoves /\ RowMoves(d) /\ JobMoves(d) /\ Only(copied, copied', d)
      /\ copied[d] \subseteq copied'[d] /\ copied'[d] \in Content
      /\ up'[d].status # "in_progress" /\ down'[d] = down[d]
      /\ \/ idx'[d] = idx[d] /\ up'[d] = up[d]
         \/ /\ idx'[d].hash = Bytes(disk[d].path) /\ idx'[d].path = "path"
            /\ up'[d].path = "path" /\ up'[d].status = "queued"
  <2>1. CASE Notice(d)
    BY <2>1, Noticed
  <2>2. CASE UNCHANGED <<idx, up, copied>>
    <3>1. LogMoves /\ copied'[d] \in Content
      BY <1>1, <2>2 DEF LogMoves, TypeOK, Typed, FileType
    <3>2. RowMoves(d) /\ JobMoves(d) /\ Only(copied, copied', d)
      BY <1>1, <2>2, <3>1, Still DEF index, jobs, Functions, Fun, Only
    <3>3. up[d].status # "in_progress"
      BY <1>1 DEF ControlInv, InUpload
    <3>4. QED
      BY <2>2, <3>1, <3>2, <3>3
  <2>3. QED
    BY <2>1, <2>2
<1>3. FileMoves(d)
  BY <1>1, <1>2 DEF Functions, Fun, Only, Typed, FileType, FileMoves
<1>4. Grows(d)
  BY <1>1, <1>2 DEF Grows, TypeOK
<1>5. /\ Bytes(down'[d].decided) \subseteq Safe' /\ down'[d].content \subseteq Logged'
      /\ Safe \subseteq Safe'
  BY <1>2, <1>3, <1>4, SameDownload
<1>6. ControlInv(d)' /\ TakenInv(d)'
  <2>1. CASE step'[d] = "begin"
    BY <1>2, <2>1, AtBegin
  <2>2. CASE step'[d] = "delete"
    BY <1>2, <2>2 DEF ControlInv, TakenInv, InUpload, InPoll
  <2>3. QED
    BY <2>1, <2>2
<1>7. RowInv(d)'
  <2>1. ~InUpload(d)' /\ Stage(d)' \in {"up", "collect"}
    BY DEF InUpload
  <2>2. QED
    BY <1>1, <1>2, <1>5, <2>1 DEF RowInv, Unsafe
<1>8. QED
  BY <1>2, <1>3, <1>4, <1>5, <1>6, <1>7, Middle

LEMMA CollectAdvances ==
  ASSUME KeptInv, NEW d \in Devices, Collect(d)
  PROVE  Advances(d)
<1>1. TypeOK /\ PassType /\ Functions
  BY Parts
<1>2. Stage(d) = "collect" /\ step[d] = "begin" /\ plan[d] # <<>>
  BY DEF Collect, At, Stage
<1>3. Only(events, events', d) /\ events'[d] \in Events
  BY <1>1 DEF Collect, Functions, Fun, Only, Events
<1>4. CASE Goto(d, "delete", NoMem)
  <2>1. "delete" \in Steps
    BY DEF Steps
  <2>2. NoteMoves(d) /\ step'[d] = "delete" /\ Stage(d)' = "collect"
    BY <1>1, <1>2, <1>4, <2>1, Going, NoMemNoted
  <2>3. QED
    BY <1>2, <1>3, <2>2, NoticedAdvances DEF Collect, remote
<1>5. CASE NextStage(d)
  <2>1. NoteMoves(d) /\ step'[d] = "begin" /\ Stage(d)' = "up"
    BY <1>1, <1>2, <1>5, GoesOn
  <2>2. QED
    BY <1>2, <1>3, <2>1, NoticedAdvances DEF Collect, remote
<1>6. QED
  BY <1>4, <1>5 DEF Collect

LEMMA ScanAdvances ==
  ASSUME KeptInv, NEW d \in Devices, Scan(d)
  PROVE  Advances(d)
<1>1. TypeOK /\ PassType /\ Functions /\ Typed(d)
  BY Parts
<1>2. Stage(d) = "scan" /\ step[d] = "begin" /\ plan[d] # <<>>
  BY DEF Scan, At, Stage
<1>3. Only(events, events', d) /\ events'[d] \in Events
  BY <1>1 DEF Scan, Functions, Fun, Only, Typed, FileType
<1>4. NoteMoves(d) /\ step'[d] = "begin" /\ Stage(d)' = "up"
  BY <1>1, <1>2, GoesOn DEF Scan
<1>5. QED
  BY <1>2, <1>3, <1>4, NoticedAdvances DEF Scan, remote

(* Jobs are cancelled only for a file that is gone, of which the row then  *)
(* names nothing unsafe.                                                   *)
LEMMA MissingAdvances ==
  ASSUME KeptInv, NEW d \in Devices, Missing(d)
  PROVE  Advances(d)
<1> DEFINE cancelled(job) ==
             IF job.status \in {"queued", "in_progress"}
             THEN [job EXCEPT !.status = "failed", !.retries = 0] ELSE job
<1>1. /\ TypeOK /\ PassType /\ Functions /\ Typed(d) /\ ControlInv(d) /\ RowInv(d)
  BY Parts
<1>2. /\ Stage(d) = "missing" /\ step[d] = "begin" /\ plan[d] # <<>>
      /\ up[d].status # "in_progress" /\ LogMoves
      /\ UNCHANGED <<remote, index, files, past, events, met>>
  BY <1>1, StillHere DEF Missing, At, Stage, ControlInv, InUpload
<1>3. CASE NextStage(d) /\ UNCHANGED jobs
  <2>1. NoteMoves(d) /\ step'[d] = "begin" /\ Stage(d)' = "none"
    BY <1>1, <1>2, <1>3, GoesOn
  <2>2. up'[d].status # "in_progress"
    BY <1>2, <1>3, StillHere
  <2>3. ControlInv(d)' /\ TakenInv(d)'
    BY <2>1, <2>2, AtBegin
  <2>4. QED
    BY <1>1, <1>2, <1>3, <2>1, <2>3, Quiet DEF InUpload, TypeOK
<1>4. CASE /\ disk[d][idx[d].path] = Gone
           /\ up' = [up EXCEPT ![d] = cancelled(@)]
           /\ down' = [down EXCEPT ![d] = cancelled(@)]
           /\ Goto(d, "delete", NoMem)
  <2>1. "delete" \in Steps
    BY DEF Steps
  <2>2. NoteMoves(d) /\ step'[d] = "delete" /\ Stage(d)' = "missing"
    BY <1>1, <1>2, <1>4, <2>1, Going, NoMemNoted
  <2>0. 0 \in 0..MaxRetries /\ "failed" \in Status
    BY RetryAssumption DEF Status
  <2>3. cancelled(up[d]) \in UpJobs /\ cancelled(up[d]).status # "in_progress"
    <3>1. up[d] \in UpJobs
      BY <1>1 DEF Typed, JobType
    <3>2. [up[d] EXCEPT !.status = "failed", !.retries = 0] \in UpJobs
      BY <2>0, <3>1 DEF UpJobs
    <3>3. [up[d] EXCEPT !.status = "failed", !.retries = 0].status = "failed"
      BY <3>1 DEF UpJobs
    <3>4. QED
      BY <3>1, <3>2, <3>3
  <2>4. /\ cancelled(down[d]) \in DownJobs /\ cancelled(down[d]).decided = down[d].decided
        /\ cancelled(down[d]).content = down[d].content
    <3>1. down[d] \in DownJobs
      BY <1>1 DEF Typed, JobType
    <3> DEFINE ended == [down[d] EXCEPT !.status = "failed", !.retries = 0]
    <3>2. /\ ended \in DownJobs /\ ended.decided = down[d].decided
          /\ ended.content = down[d].content
      BY <2>0, <3>1 DEF DownJobs
    <3>3. QED
      BY <3>1, <3>2
  <2> HIDE DEF cancelled
  <2>5. up'[d] = cancelled(up[d]) /\ down'[d] = cancelled(down[d]) /\ JobMoves(d)
    BY <1>1, <1>4, <2>3, <2>4 DEF Functions, Fun, JobMoves, Only, JobType
  <2>6. RowMoves(d) /\ FileMoves(d) /\ Grows(d)
    BY <1>1, <1>2, Still, NoGrowth DEF past, files, TypeOK
  <2>7. Safe' = Safe /\ idx'[d] = idx[d]
    BY <1>2, StillHere DEF Safe, Logged, Copied, remote, files, past
  <2>8. idx[d].hash \subseteq Safe
    BY <1>1, <1>4, Parts DEF RowInv, Unsafe, Bytes
  <2>9. RowInv(d)'
    BY <2>7, <2>8, SafeRow
  <2>10. ControlInv(d)' /\ TakenInv(d)'
    BY <2>2, <2>3, <2>5 DEF ControlInv, TakenInv, InUpload, InPoll
  <2>11. /\ Bytes(down'[d].decided) \subseteq Safe' /\ down'[d].content \subseteq Logged'
    BY <1>2, <2>4, <2>5, <2>6, SameDownload
  <2>12. QED
    BY <1>2, <2>2, <2>5, <2>6, <2>9, <2>10, <2>11, Middle DEF files, past
<1>5. QED
  BY <1>2, <1>3, <1>4 DEF Missing

LEMMA DeleteCommitAdvances ==
  ASSUME KeptInv, NEW d \in Devices, DeleteCommit(d)
  PROVE  Advances(d)
<1>1. /\ TypeOK /\ PassType /\ Functions /\ Typed(d) /\ ControlInv(d) /\ RowInv(d)
  BY Parts
<1>2. /\ step[d] = "delete" /\ Stage(d) \in {"collect", "missing"} /\ plan[d] # <<>>
      /\ up[d].status # "in_progress" /\ Head(plan[d]) = Stage(d)
      /\ UNCHANGED <<tree, index, jobs, files, past, events, met>>
  BY <1>1 DEF DeleteCommit, Stage, ControlInv, InUpload
<1>3. CASE log' = Append(log, Delete) /\ Goto(d, "untree", NoMem)
  <2>1. Delete \in Operations /\ "untree" \in Steps
    BY DEF Delete, Operations, Content, Steps
  <2>2. LogMoves
    <3>1. log \in Seq(Operations) /\ tree \in 0..Len(log)
      BY <1>1 DEF TypeOK
    <3>2. Len(log') = Len(log) + 1 /\ Len(log) \in Nat
      BY <1>3, <2>1, <3>1
    <3>3. tree' \in 0..Len(log')
      BY <1>2, <3>1, <3>2
    <3>4. QED
      BY <1>3, <2>1, <3>3 DEF LogMoves
  <2>3. NoteMoves(d) /\ step'[d] = "untree" /\ Stage(d)' = Stage(d)
    BY <1>1, <1>3, <2>1, Going, NoMemNoted
  <2>4. RowMoves(d) /\ FileMoves(d) /\ JobMoves(d) /\ Grows(d)
    BY <1>1, <1>2, <2>2, Still, NoGrowth DEF past, files, TypeOK
  <2>5. idx'[d] = idx[d] /\ up'[d] = up[d] /\ down'[d] = down[d] /\ disk'[d] = disk[d]
    BY <1>2, StillHere
  <2>6. /\ Bytes(down'[d].decided) \subseteq Safe' /\ down'[d].content \subseteq Logged'
        /\ Safe \subseteq Safe'
    BY <2>2, <2>4, <2>5, SameDownload
  <2>7. ControlInv(d)' /\ TakenInv(d)'
    BY <1>2, <2>3, <2>5 DEF ControlInv, TakenInv, InUpload, InPoll
  <2>8. RowInv(d)'
    BY <1>1, <1>2, <2>3, <2>5, <2>6 DEF RowInv, Unsafe, InUpload
  <2>9. QED
    BY <1>2, <2>2, <2>3, <2>4, <2>6, <2>7, <2>8, Middle DEF files, past
<1>4. CASE /\ Leave(d, IF Head(plan[d]) = "collect" THEN <<>> ELSE Tail(plan[d]))
           /\ UNCHANGED log
  <2> DEFINE rest == IF Head(plan[d]) = "collect" THEN <<>> ELSE Tail(plan[d])
  <2>1. rest = <<>>
    BY <1>1, <1>2, PlanTail DEF PassType
  <2>2. NoteMoves(d) /\ step'[d] = "begin" /\ Stage(d)' = "none"
    BY <1>1, <1>4, <2>1, Leaving, PlansKnown
  <2>3. up'[d].status # "in_progress"
    BY <1>2, StillHere
  <2>4. ControlInv(d)' /\ TakenInv(d)'
    BY <2>2, <2>3, AtBegin
  <2>5. QED
    BY <1>1, <1>2, <1>4, <2>2, <2>4, Quiet DEF InUpload, TypeOK, remote
<1>5. QED
  BY <1>3, <1>4 DEF DeleteCommit

LEMMA DeleteEntryAdvances ==
  ASSUME KeptInv, NEW d \in Devices, DeleteEntry(d)
  PROVE  Advances(d)
<1>1. /\ TypeOK /\ PassType /\ Functions /\ Typed(d) /\ ControlInv(d) /\ RowInv(d)
      /\ Len(log) \in Nat
  BY Parts, LogType
<1>2. /\ step[d] = "untree" /\ Stage(d) \in {"collect", "missing"} /\ plan[d] # <<>>
      /\ up[d].status # "in_progress"
      /\ UNCHANGED <<log, open, ckpt, known, jobs, files, past, events, met>>
      /\ idx' = [idx EXCEPT ![d].state = "deleted"]
  BY <1>1 DEF DeleteEntry, Stage, ControlInv, InUpload
<1>3. LogMoves
  BY <1>1 DEF DeleteEntry, LogMoves, TypeOK
<1>4. NoteMoves(d) /\ step'[d] = "begin" /\ Stage(d)' \in {"up", "none"}
  BY <1>1, <1>2, GoesOn DEF DeleteEntry
<1>5. FileMoves(d) /\ JobMoves(d) /\ Grows(d)
  BY <1>1, <1>2, <1>3, Still, NoGrowth DEF past, files, TypeOK
<1>6. /\ Only(idx, idx', d) /\ idx'[d] \in RowsOf(Len(log)) /\ idx'[d].hash = idx[d].hash
      /\ idx'[d].path = idx[d].path /\ idx'[d].rev = idx[d].rev
  BY <1>1, <1>2 DEF Functions, Fun, Only, Typed, RowType, RowsOf
<1>7. RowMoves(d)
  BY <1>1, <1>2, <1>6 DEF RowMoves, RowType, Typed, Functions, Fun, Only
<1>8. up'[d] = up[d] /\ down'[d] = down[d] /\ disk'[d] = disk[d]
  BY <1>2, StillHere
<1>9. /\ Bytes(down'[d].decided) \subseteq Safe' /\ down'[d].content \subseteq Logged'
      /\ Safe \subseteq Safe'
  BY <1>3, <1>5, <1>8, SameDownload
<1>10. ControlInv(d)' /\ TakenInv(d)'
  BY <1>2, <1>4, <1>8, AtBegin
<1>11. RowInv(d)'
  BY <1>1, <1>2, <1>4, <1>6, <1>8, <1>9 DEF RowInv, Unsafe, InUpload
<1>12. QED
  BY <1>2, <1>3, <1>4, <1>5, <1>7, <1>9, <1>10, <1>11, Middle DEF files, past

-----------------------------------------------------------------------------
(* The uploads.                                                            *)

(* Of an attempt the row is on disk, or in what it read. *)
LEMMA InHand ==
  ASSUME KeptInv, NEW d \in Devices, InUpload(d)
  PROVE  /\ Stage(d) = "up" /\ mem[d].read # Gone /\ mem[d].read \in Content
         /\ idx[d].hash \subseteq Safe \cup mem[d].read
  BY Parts DEF ControlInv, RowInv, Unsafe

(* An attempt goes on with what it read. *)
LEMMA UploadGoesOn ==
  ASSUME KeptInv, NEW d \in Devices, InUpload(d), NEW there \in Steps,
         NEW noted \in Notes, Goto(d, there, noted), noted.read = mem[d].read,
         there \in {"head", "lookup", "commit", "entry", "finish"},
         LogMoves, UNCHANGED <<index, jobs, files, past, events>>, met' \in Happened,
         there \in {"entry", "finish"} =>
            noted.at \in 1..Len(log') /\ mem[d].read = log'[noted.at].content
  PROVE  Advances(d)
<1>1. /\ TypeOK /\ PassType /\ ControlInv(d) /\ RowInv(d)
  BY Parts
<1>2. /\ NoteMoves(d) /\ Stage(d)' = Stage(d) /\ step'[d] = there /\ mem'[d] = noted
  BY <1>1, Going
<1>3. RowMoves(d) /\ FileMoves(d) /\ JobMoves(d) /\ Grows(d)
  BY <1>1, Still, NoGrowth DEF past, files
<1>4. up'[d] = up[d] /\ idx'[d] = idx[d] /\ disk'[d] = disk[d] /\ down'[d] = down[d]
  BY StillHere
<1>5. /\ Bytes(down'[d].decided) \subseteq Safe' /\ down'[d].content \subseteq Logged'
      /\ Safe \subseteq Safe'
  BY <1>3, <1>4, SameDownload
<1>6. ControlInv(d)' /\ TakenInv(d)'
  BY <1>1, <1>2, <1>4 DEF ControlInv, TakenInv, InUpload, InPoll
<1>7. RowInv(d)'
  BY <1>1, <1>2, <1>4, <1>5 DEF RowInv, Unsafe, InUpload
<1>8. QED
  BY <1>2, <1>3, <1>5, <1>6, <1>7, Middle DEF files, past

(* An attempt ends with its job, and the row is safe or still queued. *)
LEMMA UploadEnds ==
  ASSUME KeptInv, NEW d \in Devices, Goto(d, "begin", NoMem), LogMoves, RowMoves(d),
         JobMoves(d), FileMoves(d), Grows(d), UNCHANGED <<disk, trash, made>>,
         Stage(d) = "up", up'[d].status # "in_progress", down'[d] = down[d],
         \/ idx'[d].hash \subseteq Safe'
         \/ idx'[d] = idx[d] /\ up'[d].path = up[d].path /\ up'[d].status = "queued"
            /\ up[d].status \in {"queued", "in_progress"}
  PROVE  Advances(d)
<1>1. PassType /\ RowInv(d)
  BY Parts
<1>2. NoteMoves(d) /\ step'[d] = "begin" /\ Stage(d)' = "up"
  BY <1>1, Going, NoMemNoted
<1>3. /\ Bytes(down'[d].decided) \subseteq Safe' /\ down'[d].content \subseteq Logged'
      /\ Safe \subseteq Safe'
  BY SameDownload
<1>4. ControlInv(d)' /\ TakenInv(d)'
  BY <1>2, AtBegin
<1>5. RowInv(d)'
  <2>1. CASE idx'[d].hash \subseteq Safe'
    BY <2>1, SafeRow
  <2>2. CASE idx'[d] = idx[d] /\ up'[d].path = up[d].path /\ up'[d].status = "queued"
    BY <1>1, <1>2, <1>3, <2>2 DEF RowInv, Unsafe, InUpload
  <2>3. QED
    BY <2>1, <2>2
<1>6. QED
  BY <1>2, <1>3, <1>4, <1>5, Middle

(* Given up without a copy, the bytes on disk count as exposed. *)
LEMMA GivenUp ==
  ASSUME KeptInv, NEW d \in Devices, GiveUp(d), LogMoves, UNCHANGED <<copied, dropped, down>>,
         met' \in Happened
  PROVE  /\ JobMoves(d) /\ Grows(d) /\ up'[d].status # "in_progress" /\ down'[d] = down[d]
         /\ idx[d].hash \subseteq Safe'
<1>1. TypeOK /\ PassType /\ Functions /\ Typed(d) /\ Bytes(disk[d][up[d].path]) \in Content
  BY Parts
<1>2. "failed" \in Status /\ 0 \in 0..MaxRetries
  BY RetryAssumption DEF Status
<1>3. JobMoves(d) /\ up'[d].status = "failed" /\ down'[d] = down[d]
  BY <1>1, <1>2, UpStatus DEF GiveUp
<1>4. Grows(d)
  BY <1>1 DEF GiveUp, Grows, TypeOK, Content
<1>5. Only(copied, copied', d)
  BY <1>1 DEF Functions, Fun, Only
<1>6. Safe \subseteq Safe' /\ exposed' \subseteq Safe'
  BY <1>1, <1>4, <1>5, SafeGrows
<1>7. idx[d].hash \subseteq Safe'
  BY <1>6, RowOnDisk DEF GiveUp
<1>8. QED
  BY <1>3, <1>4, <1>7

LEMMA UploadStartAdvances ==
  ASSUME KeptInv, NEW d \in Devices, UploadStart(d)
  PROVE  Advances(d)
<1> DEFINE here == disk[d][up[d].path]
<1>1. /\ TypeOK /\ PassType /\ Functions /\ Typed(d) /\ ControlInv(d) /\ RowInv(d)
      /\ here \in Content \cup {Gone} /\ disk[d].path = disk[d]["path"]
  BY Parts
<1>2. /\ Stage(d) = "up" /\ step[d] = "begin" /\ LogMoves
      /\ UNCHANGED <<remote, index, down, files, past, events, met>>
  BY <1>1, StillHere DEF UploadStart, At, Stage
<1>3. /\ RowMoves(d) /\ FileMoves(d) /\ Grows(d) /\ UNCHANGED <<disk, trash, made, copied>>
      /\ idx'[d] = idx[d] /\ disk'[d] = disk[d] /\ Safe' = Safe
  BY <1>1, <1>2, Still, NoGrowth, StillHere
  DEF past, files, TypeOK, Safe, Logged, Copied, remote
<1>4. CASE /\ here = Gone
           /\ up' = [up EXCEPT ![d].status = "failed", ![d].retries = 0]
           /\ UNCHANGED pass
  <2>1. "failed" \in Status /\ 0 \in 0..MaxRetries
    BY RetryAssumption DEF Status
  <2>2. JobMoves(d) /\ up'[d].status = "failed" /\ down'[d] = down[d]
    BY <1>1, <1>2, <1>4, <2>1, UpStatus
  <2>3. NoteMoves(d) /\ step'[d] = "begin"
    BY <1>1, <1>2, <1>4, Still, StillHere
  <2>4. idx[d].hash \subseteq Safe
    BY <1>4, RowOnDisk DEF Bytes
  <2>5. RowInv(d)' /\ ControlInv(d)' /\ TakenInv(d)'
    BY <1>3, <2>2, <2>3, <2>4, SafeRow, AtBegin
  <2>6. /\ Bytes(down'[d].decided) \subseteq Safe' /\ down'[d].content \subseteq Logged'
    BY <1>2, <1>3, <2>2, SameDownload
  <2>7. QED
    BY <1>2, <1>3, <2>2, <2>3, <2>5, <2>6, Middle
<1>5. CASE /\ here # Gone
           /\ up' = [up EXCEPT ![d].status = "in_progress"]
           /\ Goto(d, "head", [NoMem EXCEPT !.read = here])
  <2> DEFINE job == [up[d] EXCEPT !.status = "in_progress"]
             noted == [NoMem EXCEPT !.read = here]
  <2>1. job \in UpJobs /\ job.status = "in_progress" /\ job.path = up[d].path
    BY <1>1 DEF Typed, JobType, UpJobs, Status
  <2>2. up' = [up EXCEPT ![d] = job]
    BY <1>5
  <2>3. noted \in Notes /\ noted.read = here /\ "head" \in Steps
    BY <1>1 DEF NoMem, Notes, Steps, Paths
  <2>4. Goto(d, "head", noted)
    BY <1>5
  <2> HIDE DEF job, noted
  <2>5. JobMoves(d) /\ up'[d] = job /\ down'[d] = down[d]
    BY <1>1, <1>2, <2>1, <2>2, UpSet
  <2>6. NoteMoves(d) /\ step'[d] = "head" /\ mem'[d].read = here /\ Stage(d)' = "up"
    BY <1>1, <1>2, <2>3, <2>4, Going
  <2>7. ControlInv(d)' /\ TakenInv(d)'
    BY <1>5, <2>1, <2>5, <2>6 DEF ControlInv, TakenInv, InUpload, InPoll
  <2>8. RowInv(d)'
    BY <1>1, <1>3, <1>5, <2>1, <2>5, <2>6 DEF RowInv, Unsafe, InUpload, Bytes
  <2>9. /\ Bytes(down'[d].decided) \subseteq Safe' /\ down'[d].content \subseteq Logged'
    BY <1>2, <1>3, <2>5, SameDownload
  <2>10. QED
    BY <1>2, <1>3, <2>5, <2>6, <2>7, <2>8, <2>9, Middle
<1>6. QED
  BY <1>4, <1>5 DEF UploadStart

LEMMA ConflictCopied ==
  ASSUME KeptInv, NEW d \in Devices, NEW type \in {"edit_edit", "delete_edit"},
         UploadConflict(d, type), Goto(d, "begin", NoMem), Stage(d) = "up",
         UNCHANGED <<remote, ckpt, known, down, disk, trash, made, dropped, exposed,
                     events, met>>
  PROVE  Advances(d)
<1>1. /\ TypeOK /\ PassType /\ Functions /\ Typed(d)
      /\ Bytes(disk[d][up[d].path]) \in Content
  BY Parts
<1>2. LogMoves
  BY <1>1, StillHere
<1>3. "failed" \in Status /\ 0 \in 0..MaxRetries
  BY RetryAssumption DEF Status
<1>4. JobMoves(d) /\ up'[d].status = "failed" /\ down'[d] = down[d]
  BY <1>1, <1>3, UpStatus DEF UploadConflict
<1>5. /\ Only(copied, copied', d)
      /\ copied'[d] = copied[d] \cup Bytes(disk[d][up[d].path])
  BY <1>1 DEF UploadConflict, Functions, Fun, Only
<1>6. FileMoves(d) /\ Grows(d)
  BY <1>1, <1>5 DEF Functions, Fun, Only, Typed, FileType, FileMoves, Grows, Content, TypeOK
<1>7. /\ Only(idx, idx', d) /\ idx'[d] \in RowsOf(Len(log)) /\ idx'[d].hash = idx[d].hash
      /\ idx'[d].rev = idx[d].rev
  BY <1>1 DEF UploadConflict, Functions, Fun, Only, Typed, RowType, RowsOf
<1>8. Only(open, open', d) /\ open'[d] \in Conflicts
  BY <1>1 DEF UploadConflict, Functions, Fun, Only, Typed, RowType, Conflicts
<1>9. RowMoves(d)
  BY <1>1, <1>7, <1>8 DEF RowMoves, RowType, Typed, Functions, Fun, Only, remote
<1>10. Safe \subseteq Safe' /\ copied'[d] \subseteq Safe'
  BY <1>1, <1>2, <1>5, <1>6, SafeGrows
<1>11. idx'[d].hash \subseteq Safe'
  BY <1>5, <1>7, <1>10, RowOnDisk
<1>12. QED
  BY <1>2, <1>4, <1>6, <1>9, <1>11, UploadEnds

LEMMA UploadLookupAdvances ==
  ASSUME KeptInv, NEW d \in Devices, UploadLookup(d)
  PROVE  Advances(d)
<1>1. /\ TypeOK /\ PassType /\ Typed(d) /\ Stage(d) = "up" /\ InUpload(d)
  BY Parts DEF UploadLookup, At, Stage, InUpload
<1>2. LogMoves
  BY <1>1, StillHere DEF UploadLookup
<1>3. CASE /\ (UNCHANGED met \/ Mishap("fault", "lookup"))
           /\ Goto(d, "commit", mem[d])
           /\ UNCHANGED <<idx, open, up, copied, exposed>>
  <2>1. mem[d] \in Notes /\ "commit" \in Steps /\ met' \in Happened
    BY <1>1, <1>3, MishapCounted DEF Hits, Typed, NoteType, Steps, TypeOK
  <2>2. UNCHANGED <<index, jobs, files, past, events>>
    BY <1>3 DEF UploadLookup, index, jobs, files, past
  <2>3. QED
    BY <1>1, <1>2, <1>3, <2>1, <2>2, UploadGoesOn
<1>4. CASE /\ UploadConflict(d, "edit_edit") \/ UploadConflict(d, "delete_edit")
           /\ Goto(d, "begin", NoMem) /\ UNCHANGED <<met, exposed>>
  BY <1>1, <1>4, ConflictCopied DEF UploadLookup
<1>5. CASE GiveUp(d) /\ Goto(d, "begin", NoMem) /\ UNCHANGED <<met, idx, open, copied>>
  <2>1. /\ JobMoves(d) /\ Grows(d) /\ up'[d].status # "in_progress" /\ down'[d] = down[d]
        /\ idx[d].hash \subseteq Safe'
    BY <1>1, <1>2, <1>5, GivenUp DEF UploadLookup, TypeOK
  <2>2. /\ UNCHANGED <<files, made, events, index>> /\ UNCHANGED <<disk, trash, made>>
        /\ idx'[d] = idx[d]
    BY <1>5 DEF UploadLookup, index, files
  <2>3. RowMoves(d) /\ FileMoves(d)
    BY <1>1, <1>2, <2>2, Still
  <2>4. QED
    BY <1>1, <1>2, <1>5, <2>1, <2>2, <2>3, UploadEnds
<1>6. QED
  BY <1>3, <1>4, <1>5 DEF UploadLookup

LEMMA UploadCommitAdvances ==
  ASSUME KeptInv, NEW d \in Devices, UploadCommit(d)
  PROVE  Advances(d)
<1>1. /\ TypeOK /\ PassType /\ Typed(d) /\ Stage(d) = "up" /\ InUpload(d)
      /\ Len(log) \in Nat \ {0}
  BY Parts, LogType DEF UploadCommit, At, Stage, InUpload
<1>2. UNCHANGED <<tree, index, down, files, made, dropped, events, met>>
  BY DEF UploadCommit
<1>3. CASE /\ log' = Append(log, Write(mem[d].read))
           /\ Goto(d, "entry", [mem[d] EXCEPT !.at = Len(log) + 1])
           /\ UNCHANGED <<up, exposed>>
  <2> DEFINE noted == [mem[d] EXCEPT !.at = Len(log) + 1]
  <2>1. /\ Write(mem[d].read) \in Operations /\ Write(mem[d].read).content = mem[d].read
        /\ "entry" \in Steps
    BY <1>1, InHand DEF Write, Operations, Steps
  <2>2. /\ Len(log') = Len(log) + 1 /\ log'[Len(log) + 1] = Write(mem[d].read)
        /\ log \in Seq(Operations) /\ tree \in 0..Len(log)
    BY <1>1, <1>3, <2>1 DEF TypeOK
  <2>3. LogMoves
    <3>1. tree' \in 0..Len(log')
      BY <1>1, <1>2, <2>2
    <3>2. QED
      BY <1>3, <2>1, <3>1 DEF LogMoves
  <2>4. noted \in Notes /\ noted.read = mem[d].read /\ noted.at = Len(log) + 1
    BY <1>1 DEF Typed, NoteType, Notes
  <2>5. noted.at \in 1..Len(log') /\ mem[d].read = log'[noted.at].content
    BY <1>1, <2>1, <2>2, <2>4
  <2>6. Goto(d, "entry", noted)
    BY <1>3
  <2>7. UNCHANGED <<index, jobs, files, past, events>> /\ met' \in Happened
    BY <1>1, <1>2, <1>3 DEF jobs, past, TypeOK
  <2> HIDE DEF noted
  <2>8. QED
    BY <1>1, <2>1, <2>3, <2>4, <2>5, <2>6, <2>7, UploadGoesOn
<1>4. CASE GiveUp(d) /\ Goto(d, "begin", NoMem) /\ UNCHANGED log
  <2>1. LogMoves
    BY <1>1, <1>2, <1>4 DEF LogMoves, TypeOK
  <2>2. /\ JobMoves(d) /\ Grows(d) /\ up'[d].status # "in_progress" /\ down'[d] = down[d]
        /\ idx[d].hash \subseteq Safe'
    BY <1>1, <1>2, <1>4, <2>1, GivenUp DEF files, TypeOK
  <2>3. /\ UNCHANGED <<disk, trash, made>> /\ idx'[d] = idx[d]
    BY <1>2 DEF index, files
  <2>4. RowMoves(d) /\ FileMoves(d)
    BY <1>1, <1>2, <2>1, Still
  <2>5. QED
    BY <1>1, <1>4, <2>1, <2>2, <2>3, <2>4, UploadEnds
<1>5. QED
  BY <1>3, <1>4 DEF UploadCommit

LEMMA UploadEntryAdvances ==
  ASSUME KeptInv, NEW d \in Devices, UploadEntry(d)
  PROVE  Advances(d)
<1>1. /\ TypeOK /\ PassType /\ Typed(d) /\ Stage(d) = "up" /\ InUpload(d)
      /\ Len(log) \in Nat \ {0}
      /\ mem[d].at \in 1..Len(log) /\ mem[d].read = log[mem[d].at].content
  BY Parts, LogType DEF UploadEntry, At, Stage, InUpload, ControlInv
<1>2. LogMoves
  BY <1>1 DEF UploadEntry, LogMoves, TypeOK
<1>3. mem[d] \in Notes /\ "finish" \in Steps /\ met' \in Happened
  BY <1>1, MishapCounted DEF Hits, UploadEntry, Typed, NoteType, Steps, Fault, TypeOK
<1>4. UNCHANGED <<index, jobs, files, past, events>> /\ log' = log
  BY DEF UploadEntry
<1>5. QED
  BY <1>1, <1>2, <1>3, <1>4, UploadGoesOn DEF UploadEntry

LEMMA UploadFinishAdvances ==
  ASSUME KeptInv, NEW d \in Devices, UploadFinish(d)
  PROVE  Advances(d)
<1>1. /\ TypeOK /\ PassType /\ Functions /\ Typed(d) /\ Stage(d) = "up" /\ InUpload(d)
      /\ mem[d].at \in 1..Len(log) /\ mem[d].read = log[mem[d].at].content
      /\ mem[d].read \in Content
  BY Parts, InHand DEF UploadFinish, At, Stage, InUpload, ControlInv
<1>2. LogMoves /\ UNCHANGED <<remote, log, open, ckpt, down, files, made, events>>
  BY <1>1, StillHere DEF UploadFinish, remote, past
<1>3. NoUpload \in UpJobs /\ NoUpload.status = "none"
  BY RetryAssumption DEF NoUpload, UpJobs, Status, Paths
<1>4. JobMoves(d) /\ up'[d] = NoUpload /\ down'[d] = down[d]
  BY <1>1, <1>2, <1>3, UpSet DEF UploadFinish
<1>5. /\ Only(idx, idx', d) /\ idx'[d] \in RowsOf(Len(log)) /\ idx'[d].hash = mem[d].read
      /\ idx'[d].rev = mem[d].at
  BY <1>1 DEF UploadFinish, Functions, Fun, Only, Typed, RowType, RowsOf
<1>6. Only(known, known', d) /\ known'[d] = known[d] \cup {mem[d].at}
  BY <1>1 DEF UploadFinish, Functions, Fun, Only
<1>7. RowMoves(d)
  BY <1>1, <1>2, <1>5, <1>6 DEF RowMoves, RowType, Typed, Functions, Fun, Only
<1>8. FileMoves(d) /\ Grows(d)
  BY <1>1, <1>2, Still, NoGrowth DEF UploadFinish, files, past, TypeOK
<1>9. Logged \subseteq Safe'
  BY <1>1, <1>2, <1>8, SafeGrows DEF FileMoves
<1>10. mem[d].read \subseteq Logged
  BY <1>1 DEF Logged
<1>11. QED
  BY <1>1, <1>2, <1>3, <1>4, <1>5, <1>7, <1>8, <1>9, <1>10, UploadEnds DEF UploadFinish, files

LEMMA UploadRetryAdvances ==
  ASSUME KeptInv, NEW d \in Devices, UploadRetry(d)
  PROVE  Advances(d)
<1>1. /\ TypeOK /\ PassType /\ Functions /\ Typed(d) /\ Stage(d) = "up" /\ InUpload(d)
      /\ ControlInv(d)
  BY Parts DEF UploadRetry, At, Stage, InUpload
<1>2. /\ LogMoves /\ UNCHANGED <<remote, index, down, files, made, dropped, events>>
      /\ met' \in Happened
  BY <1>1, StillHere, MishapCounted DEF Hits, UploadRetry, Fault
<1>3. /\ RowMoves(d) /\ FileMoves(d) /\ idx'[d] = idx[d] /\ UNCHANGED <<disk, trash, made>>
  BY <1>1, <1>2, Still, StillHere DEF files
<1>4. CASE /\ up[d].retries + 1 < MaxRetries
           /\ up' = [up EXCEPT ![d].status = "queued", ![d].retries = @ + 1]
           /\ UNCHANGED exposed
  <2>1. "queued" \in Status /\ up[d].retries + 1 \in 0..MaxRetries
    BY <1>1, <1>4, RetryAssumption DEF Status, Typed, JobType, UpJobs
  <2>2. up' = [up EXCEPT ![d].status = "queued", ![d].retries = up[d].retries + 1]
    BY <1>4
  <2>3. /\ JobMoves(d) /\ up'[d].status = "queued" /\ up'[d].path = up[d].path
        /\ down'[d] = down[d]
    BY <1>1, <1>2, <2>1, <2>2, UpStatus
  <2>4. Grows(d)
    BY <1>1, <1>2, <1>4, NoGrowth DEF files
  <2>5. up[d].status = "in_progress"
    BY <1>1 DEF ControlInv
  <2>6. QED
    BY <1>1, <1>2, <1>3, <2>3, <2>4, <2>5, UploadEnds DEF UploadRetry
<1>5. CASE GiveUp(d)
  <2>1. /\ JobMoves(d) /\ Grows(d) /\ up'[d].status # "in_progress" /\ down'[d] = down[d]
        /\ idx[d].hash \subseteq Safe'
    BY <1>2, <1>5, GivenUp DEF files
  <2>2. QED
    BY <1>1, <1>2, <1>3, <2>1, UploadEnds DEF UploadRetry
<1>6. QED
  BY <1>4, <1>5 DEF UploadRetry

-----------------------------------------------------------------------------
(* The poll.                                                               *)

(* What a poll works on. *)
LEMMA InThePoll ==
  ASSUME KeptInv, NEW d \in Devices, Stage(d) = "poll", step[d] # "begin"
  PROVE  /\ TypeOK /\ PassType /\ Functions /\ Typed(d)
         /\ mem[d].at \in Nat \ {0} /\ mem[d].base \in 1..Len(log)
         /\ Len(log) \in Nat \ {0}
         /\ step[d] # "op" => /\ mem[d].at \in 1..Len(log)
                              /\ Op(d).content \in Content /\ Op(d).content \subseteq Logged
         /\ up[d].status # "in_progress" /\ idx[d].hash \subseteq Safe
<1>1. /\ TypeOK /\ PassType /\ Functions /\ Typed(d) /\ ControlInv(d)
      /\ Len(log) \in Nat \ {0}
  BY Parts, LogType
<1>2. /\ mem[d].at \in Nat \ {0} /\ mem[d].base \in 1..Len(log)
      /\ step[d] # "op" => mem[d].at \in 1..Len(log)
  BY <1>1 DEF ControlInv, InPoll
<1>3. step[d] # "op" => Op(d).content \in Content /\ Op(d).content \subseteq Logged
  BY <1>1, <1>2, LogType DEF Op, Logged
<1>4. QED
  BY <1>1, <1>2, <1>3, Polls

LEMMA NextOpMoves ==
  ASSUME KeptInv, NEW d \in Devices, Stage(d) = "poll", step[d] # "begin", NextOp(d)
  PROVE  /\ mem[d].base \in 1..Len(log) /\ mem[d].at + 1 \in Nat \ {0}
         /\ NoteMoves(d) /\ step'[d] = "op" /\ Stage(d)' = "poll"
         /\ mem'[d].base = mem[d].base /\ mem'[d].at = mem[d].at + 1
<1>1. mem[d].base \in 1..Len(log) /\ mem[d].base \in Nat /\ mem[d].at + 1 \in Nat \ {0}
  BY InThePoll
<1>2. mem[d].at + 1 \in Nat
  BY <1>1
<1>3. Goto(d, "op", [NoMem EXCEPT !.base = mem[d].base, !.at = mem[d].at + 1])
  BY DEF NextOp
<1>4. /\ NoteMoves(d) /\ step'[d] = "op" /\ Stage(d)' = Stage(d)
      /\ mem'[d].base = mem[d].base /\ mem'[d].at = mem[d].at + 1
  BY <1>1, <1>2, <1>3, ToOp
<1>5. QED
  BY <1>1, <1>4

(* The poll goes on to the next operation with a row that is safe. *)
LEMMA PollGoesOn ==
  ASSUME KeptInv, NEW d \in Devices, Stage(d) = "poll", step[d] # "begin", NextOp(d),
         LogMoves, Len(log') = Len(log), RowMoves(d), JobMoves(d), FileMoves(d), Grows(d),
         up'[d].status # "in_progress", UNCHANGED made,
         idx'[d].hash \subseteq Safe', SlotsInv(d)',
         \A p \in Paths : Bytes(disk[d][p]) \subseteq Safe' \cup Bytes(disk'[d][p])
  PROVE  Advances(d)
<1>1. /\ mem[d].base \in 1..Len(log) /\ mem[d].at + 1 \in Nat \ {0}
      /\ NoteMoves(d) /\ step'[d] = "op" /\ Stage(d)' = "poll"
      /\ mem'[d].base = mem[d].base /\ mem'[d].at = mem[d].at + 1
  BY NextOpMoves
<1>2. ControlInv(d)' /\ TakenInv(d)'
  BY <1>1, AtOp
<1>3. RowInv(d)'
  BY SafeRow
<1>4. QED
  BY <1>1, <1>2, <1>3 DEF Advances

(* Nothing is taken off the disk. *)
LEMMA PollGoesOnBeside ==
  ASSUME KeptInv, NEW d \in Devices, Stage(d) = "poll", step[d] # "begin", NextOp(d),
         LogMoves, Len(log') = Len(log), RowMoves(d), JobMoves(d), FileMoves(d), Grows(d),
         up'[d].status # "in_progress", UNCHANGED <<disk, trash, made>>,
         idx'[d].hash \subseteq Safe',
         Bytes(down'[d].decided) \subseteq Safe', down'[d].content \subseteq Logged'
  PROVE  Advances(d)
<1>1. TypeOK /\ SlotsInv(d)
  BY Parts
<1>2. Safe \subseteq Safe'
  BY <1>1, SafeGrows DEF FileMoves
<1>3. SlotsInv(d)'
  BY <1>1, <1>2 DEF SlotsInv
<1>4. QED
  BY <1>2, <1>3, FilesStay, PollGoesOn

LEMMA PollEndAdvances ==
  ASSUME KeptInv, NEW d \in Devices, PollEnd(d)
  PROVE  Advances(d)
<1>1. /\ Stage(d) = "poll" /\ step[d] = "op" /\ plan[d] # <<>>
      /\ UNCHANGED <<remote, idx, open, known, jobs, files, past, events, met>>
      /\ ckpt' = [ckpt EXCEPT ![d] = mem[d].base]
  BY DEF PollEnd, At, Stage
<1>2. /\ TypeOK /\ PassType /\ Functions /\ Typed(d) /\ mem[d].base \in 1..Len(log)
      /\ up[d].status # "in_progress" /\ idx[d].hash \subseteq Safe
  BY <1>1, InThePoll
<1>3. LogMoves /\ log' = log
  BY <1>1, <1>2, StillHere DEF remote
<1>4. Only(ckpt, ckpt', d) /\ ckpt'[d] \in 1..Len(log)
  BY <1>1, <1>2 DEF Functions, Fun, Only
<1>5. RowMoves(d)
  BY <1>1, <1>2, <1>3, <1>4 DEF RowMoves, RowType, Typed, Functions, Fun, Only
<1>6. FileMoves(d) /\ JobMoves(d) /\ Grows(d)
  BY <1>1, <1>2, <1>3, Still, NoGrowth DEF past, files, TypeOK
<1>7. NoteMoves(d) /\ step'[d] = "begin"
  BY <1>1, <1>2, GoesOn DEF PollEnd
<1>8. up'[d] = up[d] /\ down'[d] = down[d] /\ idx'[d] = idx[d]
  BY <1>1, StillHere
<1>9. /\ Bytes(down'[d].decided) \subseteq Safe' /\ down'[d].content \subseteq Logged'
      /\ Safe \subseteq Safe'
  BY <1>3, <1>6, <1>8, SameDownload
<1>10. ControlInv(d)' /\ TakenInv(d)' /\ RowInv(d)'
  BY <1>2, <1>7, <1>8, <1>9, AtBegin, SafeRow
<1>11. QED
  BY <1>1, <1>3, <1>5, <1>6, <1>7, <1>9, <1>10, Middle DEF files, past

(* A conflict is copied and leaves all else. *)
LEMMA PollCopies ==
  ASSUME KeptInv, NEW d \in Devices, Stage(d) = "poll", step[d] # "begin",
         NEW type \in {"edit_edit", "delete_edit"},
         copied' = [copied EXCEPT ![d] = @ \cup Bytes(disk[d][mem[d].path])],
         open' = [open EXCEPT ![d] = @ \cup {type}],
         idx' = [idx EXCEPT ![d].state = "conflicted"],
         NextOp(d), met' \in Happened,
         UNCHANGED <<remote, ckpt, known, jobs, disk, trash, past, events>>
  PROVE  Advances(d)
<1>1. /\ TypeOK /\ PassType /\ Functions /\ Typed(d)
      /\ up[d].status # "in_progress" /\ idx[d].hash \subseteq Safe
      /\ Bytes(disk[d][mem[d].path]) \in Content
  BY InThePoll, Parts
<1>2. LogMoves /\ log' = log
  BY <1>1, StillHere DEF remote
<1>3. /\ Only(copied, copied', d) /\ copied[d] \subseteq copied'[d] /\ copied'[d] \in Content
  BY <1>1 DEF Functions, Fun, Only, Typed, FileType, Content
<1>4. FileMoves(d) /\ Grows(d)
  BY <1>1, <1>3
  DEF Functions, Fun, Only, Typed, FileType, FileMoves, Grows, TypeOK, past
<1>5. /\ Only(idx, idx', d) /\ idx'[d] \in RowsOf(Len(log)) /\ idx'[d].hash = idx[d].hash
      /\ idx'[d].rev = idx[d].rev
  BY <1>1 DEF Functions, Fun, Only, Typed, RowType, RowsOf
<1>6. Only(open, open', d) /\ open'[d] \in Conflicts
  BY <1>1 DEF Functions, Fun, Only, Typed, RowType, Conflicts
<1>7. RowMoves(d)
  BY <1>1, <1>2, <1>5, <1>6 DEF RowMoves, RowType, Typed, Functions, Fun, Only
<1>8. JobMoves(d) /\ up'[d] = up[d] /\ down'[d] = down[d]
  BY <1>1, <1>2, Still, StillHere
<1>9. /\ Bytes(down'[d].decided) \subseteq Safe' /\ down'[d].content \subseteq Logged'
      /\ Safe \subseteq Safe'
  BY <1>2, <1>4, <1>8, SameDownload
<1>10. QED
  BY <1>1, <1>2, <1>4, <1>5, <1>7, <1>8, <1>9, PollGoesOnBeside DEF past

LEMMA PollConflictAdvances ==
  ASSUME KeptInv, NEW d \in Devices, PollConflict(d)
  PROVE  Advances(d)
<1>1. Stage(d) = "poll" /\ step[d] # "begin" /\ TypeOK
  BY Parts DEF PollConflict, At, Stage
<1>2. met' \in Happened
  BY <1>1, MishapCounted DEF Hits, PollConflict, Fault, TypeOK
<1>3. QED
  BY <1>1, <1>2, PollCopies DEF PollConflict

LEMMA PollKeepAdvances ==
  ASSUME KeptInv, NEW d \in Devices, PollKeep(d)
  PROVE  Advances(d)
<1>1. Stage(d) = "poll" /\ step[d] # "begin" /\ TypeOK
  BY Parts DEF PollKeep, At, Stage
<1>2. met' \in Happened
  BY <1>1 DEF PollKeep, TypeOK
<1>3. QED
  BY <1>1, <1>2, PollCopies DEF PollKeep

(* A merge holds what it was made of, all of which is safe by now. *)
LEMMA PollMergeAdvances ==
  ASSUME KeptInv, NEW d \in Devices, PollMerge(d)
  PROVE  Advances(d)
<1> DEFINE path == mem[d].path
           merged == Merge3(Base(d), mem[d].read, Op(d).content)
<1>1. /\ Stage(d) = "poll" /\ step[d] = "merge"
      /\ disk' = [disk EXCEPT ![d][path] = merged]
      /\ exposed' = exposed \cup Bytes(disk[d][path])
      /\ idx' = [idx EXCEPT ![d].hash = merged, ![d].path = path,
                            ![d].state = "conflicted"]
      /\ up' = [up EXCEPT ![d] = Upload(path)]
      /\ NextOp(d)
      /\ UNCHANGED <<remote, open, ckpt, known, down, copied, trash, made,
                     dropped, events, met>>
  BY DEF PollMerge, At, Stage
<1>2. /\ TypeOK /\ PassType /\ Functions /\ Typed(d) /\ TakenInv(d) /\ SlotsInv(d)
      /\ Op(d).content \in Content /\ Op(d).content \subseteq Logged
      /\ path \in Paths /\ Bytes(disk[d][path]) \in Content
      /\ mem[d].read # Gone /\ mem[d].read \in Content
      /\ mem[d].read \subseteq Safe \cup Bytes(disk[d][path])
      /\ idx[d].rev \in 1..Len(log)
  <2>1. /\ TypeOK /\ PassType /\ Functions /\ Typed(d) /\ TakenInv(d) /\ SlotsInv(d)
        /\ path \in Paths /\ Bytes(disk[d][path]) \in Content
        /\ mem[d].read \in Content \cup {Gone} /\ idx[d].rev \in 1..Len(log)
    BY Parts
  <2>2. Op(d).content \in Content /\ Op(d).content \subseteq Logged
    BY <1>1, InThePoll
  <2>3. QED
    BY <1>1, <2>1, <2>2 DEF TakenInv
<1>3. Base(d) \in Content /\ Base(d) \subseteq Logged
  BY <1>2, LogType DEF Base, Logged
<1>4. /\ merged \in Content
      /\ merged \subseteq Base(d) \cup mem[d].read \cup Op(d).content
  BY <1>2, <1>3 DEF Merge3, Content
<1> HIDE DEF merged, path
<1>5. LogMoves /\ log' = log
  BY <1>1, <1>2, StillHere DEF remote
<1>6. /\ Only(disk, disk', d) /\ disk'[d] \in [Paths -> Content \cup {Gone}]
      /\ \A p \in Paths : p # path => disk'[d][p] = disk[d][p]
  BY <1>1, <1>2, <1>4 DEF Functions, Fun, Typed, FileType, Only
<1>7. FileMoves(d) /\ Grows(d)
  <2>1. FileMoves(d)
    BY <1>1, <1>2, <1>6 DEF Functions, Fun, Typed, FileType, FileMoves, Only
  <2>2. Grows(d)
    BY <1>1, <1>2 DEF Grows, TypeOK, Content
  <2>3. QED
    BY <2>1, <2>2
<1>8. /\ Safe \subseteq Safe' /\ Logged \subseteq Safe' /\ exposed' \subseteq Safe'
  BY <1>2, <1>5, <1>7, SafeGrows DEF FileMoves
<1>9. /\ Only(idx, idx', d) /\ idx'[d] \in RowsOf(Len(log)) /\ idx'[d].hash = merged
      /\ idx'[d].rev = idx[d].rev
  BY <1>1, <1>2, <1>4 DEF Functions, Fun, Only, Typed, RowType, RowsOf
<1>10. RowMoves(d)
  BY <1>1, <1>2, <1>5, <1>9 DEF RowMoves, RowType, Typed, Functions, Fun, Only
<1>11. Upload(path) \in UpJobs /\ Upload(path).status = "queued"
  BY <1>2, RetryAssumption DEF Upload, UpJobs, Status
<1>12. JobMoves(d) /\ up'[d] = Upload(path) /\ down'[d] = down[d]
  BY <1>1, <1>2, <1>11, UpSet
<1>13. idx'[d].hash \subseteq Safe'
  BY <1>1, <1>2, <1>3, <1>4, <1>8, <1>9
<1>14. SlotsInv(d)'
  BY <1>1, <1>2, <1>5, <1>8, <1>12 DEF SlotsInv, Logged
<1>15. \A p \in Paths : Bytes(disk[d][p]) \subseteq Safe' \cup Bytes(disk'[d][p])
  BY <1>1, <1>6, <1>8
<1>16. QED
  BY <1>1, <1>5, <1>7, <1>10, <1>11, <1>12, <1>13, <1>14, <1>15, PollGoesOn

LEMMA PollFetchAdvances ==
  ASSUME KeptInv, NEW d \in Devices, PollFetch(d)
  PROVE  Advances(d)
<1> DEFINE path == mem[d].path
           here == disk[d][path]
           rec == [hash |-> Op(d).content, rev |-> mem[d].at,
                   state |-> "pending_download", path |-> path]
           job == Download(path, Op(d).content, here)
<1>1. /\ Stage(d) = "poll" /\ step[d] = "fetch"
      /\ idx' = [idx EXCEPT ![d] = rec]
      /\ known' = [known EXCEPT ![d] = @ \cup {mem[d].at}]
      /\ down' = [down EXCEPT ![d] = job]
      /\ exposed' = exposed \cup (Bytes(here) \ Bytes(mem[d].read))
      /\ NextOp(d)
      /\ UNCHANGED <<remote, open, ckpt, up, files, made, dropped, events, met>>
  BY DEF PollFetch, At, Stage
<1>2. /\ TypeOK /\ PassType /\ Functions /\ Typed(d) /\ TakenInv(d) /\ SlotsInv(d)
      /\ path \in Paths /\ Bytes(here) \in Content /\ here \in Content \cup {Gone}
      /\ Bytes(mem[d].read) \subseteq Safe
  BY <1>1, Parts DEF TakenInv
<1>3. /\ Op(d).content \in Content /\ Op(d).content \subseteq Logged
      /\ mem[d].at \in 1..Len(log) /\ up[d].status # "in_progress"
  BY <1>1, InThePoll
<1>4. /\ rec \in RowsOf(Len(log)) /\ rec.hash = Op(d).content /\ rec.rev = mem[d].at
  BY <1>2, <1>3 DEF RowsOf
<1>5. /\ job \in DownJobs /\ job.content = Op(d).content /\ job.decided = here
  BY <1>2, <1>3, RetryAssumption DEF Download, DownJobs, Status
<1> HIDE DEF rec, job, here, path
<1>6. LogMoves /\ log' = log
  BY <1>1, <1>2, StillHere DEF remote
<1>7. FileMoves(d) /\ UNCHANGED <<disk, trash, made>>
  BY <1>1, <1>2, <1>6, Still DEF files
<1>8. Grows(d)
  BY <1>1, <1>2 DEF Grows, TypeOK, Content, files
<1>9. /\ Safe \subseteq Safe' /\ Logged' \subseteq Safe' /\ exposed' \subseteq Safe'
      /\ Logged' = Logged
  BY <1>2, <1>6, <1>7, <1>8, SafeGrows DEF FileMoves, Logged
<1>10. Only(idx, idx', d) /\ idx'[d] = rec
  BY <1>1, <1>2 DEF Functions, Fun, Only
<1>11. Only(known, known', d) /\ known'[d] = known[d] \cup {mem[d].at}
  BY <1>1, <1>2 DEF Functions, Fun, Only
<1>12. RowMoves(d)
  BY <1>1, <1>2, <1>3, <1>4, <1>6, <1>10, <1>11
  DEF RowMoves, RowType, Typed, Functions, Fun, Only
<1>13. JobMoves(d) /\ down'[d] = job /\ up'[d] = up[d]
  BY <1>1, <1>2, <1>5, DownSet
<1>14. /\ Bytes(down'[d].decided) \subseteq Safe' /\ down'[d].content \subseteq Logged'
       /\ idx'[d].hash \subseteq Safe'
  BY <1>1, <1>2, <1>3, <1>4, <1>5, <1>9, <1>10, <1>13
<1>15. QED
  BY <1>1, <1>3, <1>6, <1>7, <1>8, <1>12, <1>13, <1>14, PollGoesOnBeside

(* The bytes a deletion takes to the trash slot are safe, so that the next *)
(* one may replace them.                                                   *)
LEMMA PollTrashAdvances ==
  ASSUME KeptInv, NEW d \in Devices, PollTrash(d)
  PROVE  Advances(d)
<1> DEFINE here == disk[d][mem[d].path]
<1>1. /\ Stage(d) = "poll" /\ step[d] = "trash"
      /\ exposed' = exposed \cup (Bytes(here) \ Bytes(mem[d].read))
      /\ idx' = [idx EXCEPT ![d].state = "deleted"]
      /\ NextOp(d)
      /\ UNCHANGED <<remote, open, ckpt, known, jobs, copied, made, dropped, events, met>>
  BY DEF PollTrash, At, Stage
<1>2. /\ TypeOK /\ PassType /\ Functions /\ Typed(d) /\ TakenInv(d) /\ SlotsInv(d)
      /\ mem[d].path \in Paths /\ Bytes(here) \in Content /\ here \in Content \cup {Gone}
      /\ Bytes(mem[d].read) \subseteq Safe
  BY <1>1, Parts DEF TakenInv
<1>3. up[d].status # "in_progress" /\ idx[d].hash \subseteq Safe
  BY <1>1, InThePoll
<1>4. LogMoves /\ log' = log
  BY <1>1, <1>2, StillHere DEF remote
<1>5. /\ Only(disk, disk', d) /\ disk'[d] \in [Paths -> Content \cup {Gone}]
      /\ \A p \in Paths : p # mem[d].path => disk'[d][p] = disk[d][p]
  <2>1. CASE UNCHANGED <<disk, trash>>
    BY <1>2, <2>1 DEF Functions, Fun, Typed, FileType, Only
  <2>2. CASE disk' = [disk EXCEPT ![d][mem[d].path] = Gone]
    BY <1>2, <2>2 DEF Functions, Fun, Typed, FileType, Only
  <2>3. QED
    BY <2>1, <2>2 DEF PollTrash
<1>6. /\ Only(trash, trash', d) /\ trash'[d] \in Content
      /\ trash'[d] = trash[d] \/ trash'[d] = Bytes(here)
  <2>1. CASE UNCHANGED <<disk, trash>>
    BY <1>2, <2>1 DEF Functions, Fun, Typed, FileType, Only
  <2>2. CASE here # Gone /\ trash' = [trash EXCEPT ![d] = here]
    BY <1>2, <2>2 DEF Functions, Fun, Typed, FileType, Only, Bytes
  <2>3. QED
    BY <2>1, <2>2 DEF PollTrash
<1> HIDE DEF here
<1>7. FileMoves(d)
  BY <1>1, <1>2, <1>5, <1>6 DEF Functions, Fun, Typed, FileType, FileMoves, Only
<1>8. Grows(d)
  BY <1>1, <1>2 DEF Grows, TypeOK, Content
<1>9. /\ Safe \subseteq Safe' /\ exposed' \subseteq Safe' /\ Logged' = Logged
  BY <1>2, <1>4, <1>7, <1>8, SafeGrows DEF FileMoves, Logged
<1>10. Bytes(here) \subseteq Safe'
  BY <1>1, <1>2, <1>9
<1>11. /\ Only(idx, idx', d) /\ idx'[d] \in RowsOf(Len(log)) /\ idx'[d].hash = idx[d].hash
       /\ idx'[d].rev = idx[d].rev
  BY <1>1, <1>2 DEF Functions, Fun, Only, Typed, RowType, RowsOf
<1>12. RowMoves(d)
  BY <1>1, <1>2, <1>4, <1>11 DEF RowMoves, RowType, Typed, Functions, Fun, Only
<1>13. JobMoves(d) /\ up'[d] = up[d] /\ down'[d] = down[d]
  BY <1>1, <1>2, <1>4, Still, StillHere
<1>14. SlotsInv(d)'
  BY <1>2, <1>6, <1>9, <1>10, <1>13 DEF SlotsInv
<1>15. \A p \in Paths : Bytes(disk[d][p]) \subseteq Safe' \cup Bytes(disk'[d][p])
  BY <1>5, <1>10 DEF here
<1>16. QED
  BY <1>1, <1>3, <1>4, <1>7, <1>8, <1>9, <1>11, <1>12, <1>13, <1>14, <1>15, PollGoesOn

-----------------------------------------------------------------------------
(* The downloads.                                                          *)

(* A download goes on in its stage, or ends there, with the log and the row *)
(* of the file as they are; what it is about to replace is safe.            *)
LEMMA DownloadGoesOn ==
  ASSUME KeptInv, NEW d \in Devices, Stage(d) = "down", Stage(d)' = "down",
         LogMoves, RowMoves(d), JobMoves(d), FileMoves(d), Grows(d), NoteMoves(d),
         UNCHANGED <<trash, made>>, up'[d] = up[d],
         step'[d] \in {"begin", "check", "swap", "keep", "mark"},
         step'[d] \in {"check", "swap"} => Bytes(mem'[d].expect) \subseteq Safe',
         idx'[d].hash \subseteq Safe',
         Bytes(down'[d].decided) \subseteq Safe', down'[d].content \subseteq Logged',
         \A p \in Paths : Bytes(disk[d][p]) \subseteq Safe' \cup Bytes(disk'[d][p])
  PROVE  Advances(d)
<1>1. TypeOK /\ SlotsInv(d) /\ up[d].status # "in_progress"
  BY Parts, Polls
<1>2. Safe \subseteq Safe'
  BY <1>1, SafeGrows DEF FileMoves
<1>3. SlotsInv(d)'
  BY <1>1, <1>2 DEF SlotsInv
<1>4. ControlInv(d)' /\ TakenInv(d)'
  BY <1>1 DEF ControlInv, TakenInv, InUpload, InPoll
<1>5. RowInv(d)'
  BY SafeRow
<1>6. QED
  BY <1>3, <1>4, <1>5 DEF Advances

(* What a download stands on. *)
LEMMA InADownload ==
  ASSUME KeptInv, NEW d \in Devices, Stage(d) = "down"
  PROVE  /\ TypeOK /\ PassType /\ Functions /\ Typed(d) /\ SlotsInv(d) /\ TakenInv(d)
         /\ mem[d] \in Notes /\ down[d] \in DownJobs /\ down[d].path \in Paths
         /\ disk[d][down[d].path] \in Content \cup {Gone}
         /\ Bytes(disk[d][down[d].path]) \in Content
         /\ idx[d].hash \subseteq Safe
         /\ "begin" \in Steps /\ "check" \in Steps /\ "swap" \in Steps
         /\ "keep" \in Steps /\ "mark" \in Steps
  BY Parts, Polls DEF Typed, NoteType, JobType, Steps

(* A download tried again, or ended for good, is of the same bytes. *)
LEMMA RetriedDownload ==
  ASSUME KeptInv, NEW d \in Devices, Stage(d) = "down", RetryDownload(d), UNCHANGED up
  PROVE  /\ JobMoves(d) /\ up'[d] = up[d] /\ down'[d].decided = down[d].decided
         /\ down'[d].content = down[d].content
         /\ NoteMoves(d) /\ step'[d] = "begin" /\ Stage(d)' = "down"
<1> DEFINE job == IF down[d].retries + 1 < MaxRetries
                  THEN [down[d] EXCEPT !.status = "queued", !.retries = down[d].retries + 1]
                  ELSE [down[d] EXCEPT !.status = "failed", !.retries = 0]
<1>1. TypeOK /\ PassType /\ down[d] \in DownJobs
  BY InADownload
<1>2. job \in DownJobs /\ job.decided = down[d].decided /\ job.content = down[d].content
  <2>0. /\ 0 \in 0..MaxRetries /\ "failed" \in Status /\ "queued" \in Status
        /\ down[d].retries \in 0..MaxRetries
    BY <1>1, RetryAssumption DEF Status, DownJobs
  <2>1. CASE down[d].retries + 1 < MaxRetries
    <3>1. down[d].retries + 1 \in 0..MaxRetries
      BY <2>0, <2>1, RetryAssumption
    <3>2. QED
      BY <1>1, <2>0, <2>1, <3>1 DEF DownJobs
  <2>2. CASE ~(down[d].retries + 1 < MaxRetries)
    BY <1>1, <2>0, <2>2 DEF DownJobs
  <2>3. QED
    BY <2>1, <2>2
<1>3. down' = [down EXCEPT ![d] = job]
  <2>1. CASE down[d].retries + 1 < MaxRetries
    BY <2>1 DEF RetryDownload
  <2>2. CASE ~(down[d].retries + 1 < MaxRetries)
    BY <2>2 DEF RetryDownload
  <2>3. QED
    BY <2>1, <2>2
<1> HIDE DEF job
<1>4. JobMoves(d) /\ down'[d] = job /\ up'[d] = up[d]
  BY <1>1, <1>2, <1>3, DownSet
<1>5. NoteMoves(d) /\ step'[d] = "begin" /\ Stage(d)' = "down"
  BY <1>1, Going, NoMemNoted DEF RetryDownload
<1>6. QED
  BY <1>2, <1>4, <1>5

LEMMA StaleGoesOn ==
  ASSUME KeptInv, NEW d \in Devices, Stage(d) = "down",
         NEW displaced \in Content \cup {Gone}, Stale(d, displaced), UNCHANGED up
  PROVE  /\ JobMoves(d) /\ up'[d] = up[d] /\ down'[d].decided = down[d].decided
         /\ down'[d].content = down[d].content
         /\ NoteMoves(d) /\ step'[d] \in {"begin", "keep"} /\ Stage(d)' = "down"
<1>1. TypeOK /\ PassType /\ Functions /\ Typed(d) /\ mem[d] \in Notes /\ "keep" \in Steps
  BY InADownload
<1>2. CASE RetryDownload(d)
  BY <1>2, RetriedDownload
<1>3. CASE /\ Goto(d, "keep", [mem[d] EXCEPT !.read = displaced])
           /\ UNCHANGED down
  <2> DEFINE noted == [mem[d] EXCEPT !.read = displaced]
  <2>1. noted \in Notes
    BY <1>1 DEF Notes
  <2>2. Goto(d, "keep", noted)
    BY <1>3
  <2> HIDE DEF noted
  <2>3. NoteMoves(d) /\ step'[d] = "keep" /\ Stage(d)' = "down"
    BY <1>1, <2>1, <2>2, Going
  <2>4. JobMoves(d)
    BY <1>1, <1>3 DEF JobMoves, Only, JobType, Typed, Functions, Fun
  <2>5. QED
    BY <1>3, <2>3, <2>4
<1>4. QED
  BY <1>2, <1>3 DEF Stale

(* The bucket, the row and the files are left alone. *)
LEMMA DownloadBeside ==
  ASSUME KeptInv, NEW d \in Devices, Stage(d) = "down", Stage(d)' = "down",
         UNCHANGED <<remote, index, files, past, events>>, met' \in Happened,
         JobMoves(d), NoteMoves(d), up'[d] = up[d],
         down'[d].decided = down[d].decided, down'[d].content = down[d].content,
         step'[d] \in {"begin", "check", "swap", "keep", "mark"},
         step'[d] \in {"check", "swap"} => Bytes(mem'[d].expect) \subseteq Safe
  PROVE  Advances(d)
<1>1. TypeOK /\ PassType /\ idx[d].hash \subseteq Safe /\ LogMoves
  BY InADownload, StillHere
<1>2. RowMoves(d) /\ FileMoves(d) /\ Grows(d) /\ idx'[d] = idx[d]
  BY <1>1, Still, NoGrowth, StillHere DEF past, files
<1>3. /\ Bytes(down'[d].decided) \subseteq Safe' /\ down'[d].content \subseteq Logged'
      /\ Safe \subseteq Safe'
  BY <1>1, <1>2, SameDownload
<1>4. /\ idx'[d].hash \subseteq Safe' /\ UNCHANGED <<trash, made>>
      /\ \A p \in Paths : Bytes(disk[d][p]) \subseteq Safe' \cup Bytes(disk'[d][p])
      /\ step'[d] \in {"check", "swap"} => Bytes(mem'[d].expect) \subseteq Safe'
  BY <1>1, <1>2, <1>3 DEF files, past
<1>5. QED
  BY <1>1, <1>2, <1>3, <1>4, DownloadGoesOn

LEMMA DownloadStartAdvances ==
  ASSUME KeptInv, NEW d \in Devices, DownloadStart(d)
  PROVE  Advances(d)
<1> DEFINE job == [down[d] EXCEPT !.status = "in_progress"]
           noted == [NoMem EXCEPT !.read = down[d].content, !.expect = down[d].decided]
<1>1. /\ Stage(d) = "down" /\ down' = [down EXCEPT ![d] = job] /\ Goto(d, "check", noted)
      /\ UNCHANGED <<remote, index, up, files, past, events, met>>
  BY DEF DownloadStart, At, Stage
<1>2. /\ TypeOK /\ PassType /\ SlotsInv(d) /\ down[d] \in DownJobs /\ "check" \in Steps
  BY <1>1, InADownload
<1>3. /\ job \in DownJobs /\ job.decided = down[d].decided /\ job.content = down[d].content
  BY <1>2 DEF DownJobs, Status
<1>4. noted \in Notes /\ noted.expect = down[d].decided
  BY <1>2 DEF NoMem, Notes, DownJobs, Paths
<1> HIDE DEF job, noted
<1>5. JobMoves(d) /\ down'[d] = job /\ up'[d] = up[d]
  BY <1>1, <1>2, <1>3, DownSet
<1>6. NoteMoves(d) /\ step'[d] = "check" /\ mem'[d] = noted /\ Stage(d)' = "down"
  BY <1>1, <1>2, <1>4, Going
<1>7. Bytes(mem'[d].expect) \subseteq Safe
  BY <1>2, <1>4, <1>6 DEF SlotsInv
<1>8. QED
  BY <1>1, <1>2, <1>3, <1>5, <1>6, <1>7, DownloadBeside DEF TypeOK

LEMMA DownloadFaultAdvances ==
  ASSUME KeptInv, NEW d \in Devices, DownloadFault(d)
  PROVE  Advances(d)
<1>1. Stage(d) = "down" /\ TypeOK
  BY Parts DEF DownloadFault, At, Stage
<1>2. met' \in Happened
  BY <1>1, MishapCounted DEF Hits, DownloadFault, Fault
<1>3. QED
  BY <1>1, <1>2, RetriedDownload, DownloadBeside DEF DownloadFault

LEMMA DownloadCheckAdvances ==
  ASSUME KeptInv, NEW d \in Devices, DownloadCheck(d)
  PROVE  Advances(d)
<1>1. /\ Stage(d) = "down" /\ step[d] = "check"
      /\ UNCHANGED <<remote, index, up, files, past, events, met>>
  BY DEF DownloadCheck, At, Stage
<1>2. /\ TypeOK /\ PassType /\ Functions /\ Typed(d) /\ TakenInv(d) /\ mem[d] \in Notes
      /\ "swap" \in Steps /\ mem[d].read \in Content \cup {Gone} /\ met' \in Happened
  BY <1>1, InADownload, Parts DEF TypeOK
<1>3. CASE Goto(d, "swap", mem[d]) /\ UNCHANGED down
  <2>1. NoteMoves(d) /\ step'[d] = "swap" /\ mem'[d] = mem[d] /\ Stage(d)' = "down"
    BY <1>1, <1>2, <1>3, Going
  <2>2. JobMoves(d) /\ up'[d] = up[d] /\ down'[d] = down[d]
    BY <1>1, <1>2, <1>3 DEF JobMoves, Only, JobType, Typed, Functions, Fun
  <2>3. Bytes(mem'[d].expect) \subseteq Safe
    BY <1>1, <1>2, <2>1 DEF TakenInv
  <2>4. QED
    BY <1>1, <1>2, <2>1, <2>2, <2>3, DownloadBeside
<1>4. CASE Stale(d, mem[d].read)
  <2>1. /\ JobMoves(d) /\ up'[d] = up[d] /\ down'[d].decided = down[d].decided
        /\ down'[d].content = down[d].content
        /\ NoteMoves(d) /\ step'[d] \in {"begin", "keep"} /\ Stage(d)' = "down"
    BY <1>1, <1>2, <1>4, StaleGoesOn
  <2>2. QED
    BY <1>1, <1>2, <2>1, DownloadBeside
<1>5. QED
  BY <1>3, <1>4 DEF DownloadCheck

(* The bytes put in place are those the download staged: a file. *)
LEMMA DownloadSwapAdvances ==
  ASSUME KeptInv, NEW d \in Devices, DownloadSwap(d)
  PROVE  Advances(d)
<1> DEFINE path == down[d].path
           here == disk[d][path]
<1>1. /\ Stage(d) = "down" /\ step[d] = "swap"
      /\ UNCHANGED <<remote, index, up, copied, trash, made, dropped, events, met>>
  BY DEF DownloadSwap, At, Stage
<1>2. /\ TypeOK /\ PassType /\ Functions /\ Typed(d) /\ TakenInv(d) /\ mem[d] \in Notes
      /\ "mark" \in Steps /\ mem[d].read \in Content \cup {Gone}
      /\ path \in Paths /\ here \in Content \cup {Gone} /\ Bytes(here) \in Content
      /\ Bytes(mem[d].expect) \subseteq Safe /\ idx[d].hash \subseteq Safe
  <2>1. /\ TypeOK /\ PassType /\ Functions /\ Typed(d) /\ TakenInv(d) /\ mem[d] \in Notes
        /\ "mark" \in Steps /\ mem[d].read \in Content \cup {Gone}
        /\ path \in Paths /\ here \in Content \cup {Gone} /\ Bytes(here) \in Content
        /\ idx[d].hash \subseteq Safe
    BY <1>1, InADownload, Parts
  <2>2. QED
    BY <1>1, <2>1 DEF TakenInv
<1>3. /\ LogMoves /\ RowMoves(d) /\ idx'[d] = idx[d]
  BY <1>1, <1>2, Still, StillHere
<1>4. /\ JobMoves(d) /\ up'[d] = up[d] /\ down'[d].decided = down[d].decided
      /\ down'[d].content = down[d].content
      /\ NoteMoves(d) /\ step'[d] \in {"begin", "keep", "mark"} /\ Stage(d)' = "down"
  <2>1. CASE Goto(d, "mark", mem[d]) /\ UNCHANGED down
    <3>1. NoteMoves(d) /\ step'[d] = "mark" /\ Stage(d)' = "down"
      BY <1>1, <1>2, <2>1, Going
    <3>2. JobMoves(d) /\ up'[d] = up[d] /\ down'[d] = down[d]
      BY <1>1, <1>2, <2>1 DEF JobMoves, Only, JobType, Typed, Functions, Fun
    <3>3. QED
      BY <3>1, <3>2
  <2>2. CASE Stale(d, mem[d].read)
    BY <1>1, <1>2, <2>2, StaleGoesOn
  <2>3. CASE RetryDownload(d)
    BY <1>1, <2>3, RetriedDownload
  <2>4. CASE Stale(d, here)
    BY <1>1, <1>2, <2>4, StaleGoesOn
  <2>5. QED
    BY <2>1, <2>2, <2>3, <2>4 DEF DownloadSwap
<1>5. /\ \/ UNCHANGED disk /\ UNCHANGED exposed
         \/ disk' = [disk EXCEPT ![d][path] = mem[d].read]
      /\ disk' # disk => \/ UNCHANGED exposed /\ here = mem[d].expect
                         \/ exposed' = exposed \cup Bytes(here)
      /\ UNCHANGED exposed \/ exposed' = exposed \cup Bytes(here)
  BY DEF DownloadSwap, Bytes
<1>6. /\ Only(disk, disk', d) /\ disk'[d] \in [Paths -> Content \cup {Gone}]
      /\ \A p \in Paths : p # path => disk'[d][p] = disk[d][p]
  <2>1. CASE UNCHANGED disk
    BY <1>2, <2>1 DEF Functions, Fun, Typed, FileType, Only
  <2>2. CASE disk' = [disk EXCEPT ![d][path] = mem[d].read]
    BY <1>2, <2>2 DEF Functions, Fun, Typed, FileType, Only
  <2>3. QED
    BY <1>5, <2>1, <2>2
<1> HIDE DEF here, path
<1>7. FileMoves(d)
  BY <1>1, <1>2, <1>6 DEF Functions, Fun, Typed, FileType, FileMoves, Only
<1>8. Grows(d)
  BY <1>1, <1>2, <1>5 DEF Grows, TypeOK, Content
<1>9. /\ Safe \subseteq Safe' /\ exposed' \subseteq Safe'
      /\ Bytes(down'[d].decided) \subseteq Safe' /\ down'[d].content \subseteq Logged'
  BY <1>3, <1>4, <1>7, <1>8, SameDownload
<1>10. \A p \in Paths : Bytes(disk[d][p]) \subseteq Safe' \cup Bytes(disk'[d][p])
  <2>1. CASE UNCHANGED disk
    BY <2>1
  <2>2. CASE disk' # disk
    <3>1. Bytes(here) \subseteq Safe'
      BY <1>2, <1>5, <1>9, <2>2
    <3>2. QED
      BY <1>6, <3>1 DEF here
  <2>3. QED
    BY <2>1, <2>2
<1>11. QED
  BY <1>1, <1>2, <1>3, <1>4, <1>7, <1>8, <1>9, <1>10, DownloadGoesOn

(* The copy is made of what the second publish will go over. *)
LEMMA DownloadKeepAdvances ==
  ASSUME KeptInv, NEW d \in Devices, DownloadKeep(d)
  PROVE  Advances(d)
<1> DEFINE here == disk[d][down[d].path]
           noted == [mem[d] EXCEPT !.expect = here, !.again = TRUE, !.kept = here # Gone]
<1>1. /\ Stage(d) = "down" /\ Goto(d, "check", noted)
      /\ copied' = [copied EXCEPT ![d] = @ \cup Bytes(here)]
      /\ UNCHANGED <<remote, index, jobs, disk, trash, past, events, met>>
  BY DEF DownloadKeep, At, Stage
<1>2. /\ TypeOK /\ PassType /\ Functions /\ Typed(d) /\ mem[d] \in Notes
      /\ "check" \in Steps /\ here \in Content \cup {Gone} /\ Bytes(here) \in Content
      /\ idx[d].hash \subseteq Safe
  BY <1>1, InADownload
<1>3. noted \in Notes /\ noted.expect = here
  <2>1. (here # Gone) \in BOOLEAN
    OBVIOUS
  <2>2. QED
    BY <1>2, <2>1 DEF Notes
<1> HIDE DEF here, noted
<1>4. NoteMoves(d) /\ step'[d] = "check" /\ mem'[d] = noted /\ Stage(d)' = "down"
  BY <1>1, <1>2, <1>3, Going
<1>5. /\ LogMoves /\ RowMoves(d) /\ JobMoves(d) /\ idx'[d] = idx[d]
      /\ up'[d] = up[d] /\ down'[d] = down[d]
  BY <1>1, <1>2, Still, StillHere
<1>6. /\ Only(copied, copied', d) /\ copied'[d] = copied[d] \cup Bytes(here)
  BY <1>1, <1>2 DEF Functions, Fun, Only
<1>7. FileMoves(d) /\ Grows(d)
  BY <1>1, <1>2, <1>6
  DEF Functions, Fun, Only, Typed, FileType, FileMoves, Grows, Content, TypeOK, past
<1>8. /\ Bytes(down'[d].decided) \subseteq Safe' /\ down'[d].content \subseteq Logged'
      /\ Safe \subseteq Safe' /\ copied'[d] \subseteq Safe'
  BY <1>5, <1>7, SameDownload
<1>9. Bytes(mem'[d].expect) \subseteq Safe' /\ idx'[d].hash \subseteq Safe'
  BY <1>2, <1>3, <1>4, <1>5, <1>6, <1>8
<1>10. \A p \in Paths : Bytes(disk[d][p]) \subseteq Safe' \cup Bytes(disk'[d][p])
  BY <1>1
<1>11. QED
  BY <1>1, <1>4, <1>5, <1>7, <1>8, <1>9, <1>10, DownloadGoesOn DEF past

LEMMA DownloadMarkAdvances ==
  ASSUME KeptInv, NEW d \in Devices, DownloadMark(d)
  PROVE  Advances(d)
<1>1. /\ Stage(d) = "down"
      /\ open' = [open EXCEPT ![d] = IF mem[d].kept THEN @ \cup {"edit_edit"} ELSE @]
      /\ idx' = [idx EXCEPT ![d].hash = down[d].content, ![d].state = "synced"]
      /\ down' = [down EXCEPT ![d] = NoDownload] /\ Goto(d, "begin", NoMem)
      /\ UNCHANGED <<remote, ckpt, known, up, files, past, events, met>>
  BY DEF DownloadMark, At, Stage
<1>2. /\ TypeOK /\ PassType /\ Functions /\ Typed(d) /\ SlotsInv(d)
      /\ down[d].content \in Content
  BY <1>1, InADownload, Parts
<1>3. LogMoves /\ log' = log
  BY <1>1, <1>2, StillHere DEF remote
<1>4. FileMoves(d) /\ Grows(d)
  BY <1>1, <1>2, <1>3, Still, NoGrowth DEF past, files, TypeOK
<1>5. /\ Only(idx, idx', d) /\ idx'[d] \in RowsOf(Len(log))
      /\ idx'[d].hash = down[d].content /\ idx'[d].rev = idx[d].rev
  BY <1>1, <1>2 DEF Functions, Fun, Only, Typed, RowType, RowsOf
<1>6. Only(open, open', d) /\ open'[d] \in Conflicts
  BY <1>1, <1>2 DEF Functions, Fun, Only, Typed, RowType, Conflicts
<1>7. RowMoves(d)
  BY <1>1, <1>2, <1>3, <1>5, <1>6 DEF RowMoves, RowType, Typed, Functions, Fun, Only
<1>8. /\ NoDownload \in DownJobs /\ Bytes(NoDownload.decided) = {}
      /\ NoDownload.content = {}
  BY RetryAssumption DEF NoDownload, DownJobs, Status, Paths, Content, Bytes
<1>9. JobMoves(d) /\ down'[d] = NoDownload /\ up'[d] = up[d]
  BY <1>1, <1>2, <1>8, DownSet
<1>10. NoteMoves(d) /\ step'[d] = "begin" /\ Stage(d)' = "down"
  BY <1>1, <1>2, Going, NoMemNoted
<1>11. idx'[d].hash \subseteq Safe'
  <2>1. Logged \subseteq Safe'
    BY <1>2, <1>3, <1>4, SafeGrows DEF FileMoves
  <2>2. QED
    BY <1>2, <1>5, <2>1 DEF SlotsInv
<1>12. /\ UNCHANGED <<trash, made>>
       /\ \A p \in Paths : Bytes(disk[d][p]) \subseteq Safe' \cup Bytes(disk'[d][p])
  BY <1>1 DEF files, past
<1>13. QED
  BY <1>1, <1>3, <1>4, <1>7, <1>8, <1>9, <1>10, <1>11, <1>12, DownloadGoesOn

-----------------------------------------------------------------------------
(* The theorems.                                                           *)

LEMMA KeptInvStart == Init => KeptInv
<1> SUFFICES ASSUME Init PROVE KeptInv
  OBVIOUS
<1>1. /\ Write({}) \in Operations /\ Write({}).content = {} /\ {} \in Content
      /\ NoMem \in Notes /\ "begin" \in Steps /\ <<>> \in Plans
      /\ NoUpload \in UpJobs /\ NoDownload \in DownJobs
  BY NoMemNoted, PlansKnown, RetryAssumption
  DEF Write, Operations, Content, NoUpload, NoDownload, UpJobs, DownJobs, Status, Paths
<1>2. log \in Seq(Operations) /\ log # <<>> /\ Len(log) = 1 /\ log[1].content = {}
  BY <1>1 DEF Init
<1>3. TypeOK
  <2>1. /\ disk \in [Devices -> [Paths -> Content \cup {Gone}]]
        /\ copied \in [Devices -> Content] /\ trash \in [Devices -> Content]
        /\ events \in [Devices -> SUBSET {"changed", "deleted"}]
        /\ made \in [Devices -> Content]
    <3>1. [path |-> {}, stray |-> Gone] \in [Paths -> Content \cup {Gone}]
      <4> DEFINE bytes == [path |-> {}, stray |-> Gone]
      <4>1. DOMAIN bytes = Paths
        BY DEF Paths
      <4>2. bytes = [p \in DOMAIN bytes |-> bytes[p]]
        BY Zenon
      <4>3. bytes["path"] = {} /\ bytes["stray"] = Gone
        OBVIOUS
      <4> HIDE DEF bytes
      <4>4. \A p \in Paths : bytes[p] \in Content \cup {Gone}
        BY <1>1, <4>3 DEF Paths
      <4>5. bytes \in [Paths -> Content \cup {Gone}]
        BY <4>1, <4>2, <4>4
      <4>6. QED
        BY <4>5 DEF bytes
    <3>2. QED
      BY <1>1, <3>1 DEF Init
  <2>2. idx \in [Devices -> Rows]
    BY <1>1, <1>2 DEF Init, Rows, Paths
  <2>3. /\ up \in [Devices -> UpJobs] /\ down \in [Devices -> DownJobs]
    BY <1>1 DEF Init
  <2>4. /\ open \in [Devices -> SUBSET {"edit_edit", "delete_edit"}]
        /\ ckpt \in [Devices -> 1..Len(log)] /\ known \in [Devices -> SUBSET (1..Len(log))]
        /\ \A d \in Devices : idx[d].rev \in known[d]
    BY <1>2 DEF Init
  <2>5. tree \in 0..Len(log) /\ dropped \in Content /\ exposed \in Content
        /\ met \in Happened
    BY <1>1, <1>2, MishapAssumption DEF Init, Happened
  <2>6. QED
    BY <1>2, <2>1, <2>2, <2>3, <2>4, <2>5 DEF TypeOK, UpJobs, DownJobs
<1>4. PassType
  BY <1>1 DEF Init, PassType
<1>5. ASSUME NEW d \in Devices
      PROVE  ControlInv(d) /\ RowInv(d) /\ SlotsInv(d) /\ TakenInv(d)
  <2>1. /\ plan[d] = <<>> /\ step[d] = "begin" /\ up[d] = NoUpload /\ down[d] = NoDownload
        /\ idx[d].hash = {} /\ trash[d] = {}
    BY DEF Init
  <2>2. /\ NoUpload.status = "none" /\ Bytes(NoDownload.decided) = {}
        /\ NoDownload.content = {}
    BY DEF NoUpload, NoDownload, Bytes
  <2>3. QED
    BY <2>1, <2>2
    DEF ControlInv, RowInv, SlotsInv, TakenInv, InUpload, InPoll, Stage, Unsafe
<1>6. MadeInv
  BY DEF Init, MadeInv
<1>7. QED
  BY <1>3, <1>4, <1>5, <1>6 DEF KeptInv

LEMMA KeptInvStep == KeptInv /\ [Next]_vars => KeptInv'
<1> SUFFICES ASSUME KeptInv, [Next]_vars PROVE KeptInv'
  OBVIOUS
<1>1. ASSUME NEW d \in Devices,
             Step(d) \/ Fails(d) \/ Restart(d) \/ UserEdits(d) \/ UserDeletes(d)
      PROVE  Advances(d)
  <2>1. CASE Restart(d) \/ UserEdits(d) \/ UserDeletes(d)
    BY <2>1, RestartAdvances, UserEditsAdvances, UserDeletesAdvances
  <2>2. CASE Fails(d)
    BY <2>2, UploadRetryAdvances, PollUnusableAdvances, DownloadFaultAdvances,
       PassFullAdvances
    DEF Fails
  <2>3. CASE \/ StartPass(d) \/ Collect(d) \/ Scan(d) \/ Missing(d)
             \/ DeleteCommit(d) \/ DeleteEntry(d)
    BY <2>3, StartPassAdvances, CollectAdvances, ScanAdvances, MissingAdvances,
       DeleteCommitAdvances, DeleteEntryAdvances
  <2>4. CASE \/ UploadStart(d) \/ UploadHead(d) \/ UploadLookup(d) \/ UploadCommit(d)
             \/ UploadEntry(d) \/ UploadFinish(d) \/ UploadsDone(d)
    BY <2>4, UploadStartAdvances, UploadHeadAdvances, UploadLookupAdvances,
       UploadCommitAdvances, UploadEntryAdvances, UploadFinishAdvances, UploadsDoneAdvances
  <2>5. CASE \/ PollStart(d) \/ PollOp(d) \/ PollEnd(d) \/ PollMerge(d)
             \/ PollConflict(d) \/ PollFetch(d) \/ PollKeep(d) \/ PollTrash(d)
    BY <2>5, PollStartAdvances, PollOpAdvances, PollEndAdvances, PollMergeAdvances,
       PollConflictAdvances, PollFetchAdvances, PollKeepAdvances, PollTrashAdvances
  <2>6. CASE \/ DownloadStart(d) \/ DownloadCheck(d) \/ DownloadSwap(d)
             \/ DownloadKeep(d) \/ DownloadMark(d) \/ DownloadsDone(d)
    BY <2>6, DownloadStartAdvances, DownloadCheckAdvances, DownloadSwapAdvances,
       DownloadKeepAdvances, DownloadMarkAdvances, DownloadsDoneAdvances
  <2>7. QED
    BY <1>1, <2>1, <2>2, <2>3, <2>4, <2>5, <2>6 DEF Step
<1>2. CASE Next
  BY <1>1, <1>2, AdvancesKeeps DEF Next
<1>3. CASE UNCHANGED vars
  <2>1. TypeOK' /\ PassType'
    BY <1>3 DEF vars, remote, index, jobs, files, pass, past, KeptInv, TypeOK, PassType, Rows
  <2>2. Safe' = Safe /\ Logged' = Logged /\ Disks' = Disks
    BY <1>3 DEF vars, remote, files, past, Safe, Logged, Copied, Disks
  <2>3. ASSUME NEW d \in Devices
        PROVE  ControlInv(d)' /\ RowInv(d)' /\ SlotsInv(d)' /\ TakenInv(d)'
    <3>1. ControlInv(d) /\ RowInv(d) /\ SlotsInv(d) /\ TakenInv(d)
      BY DEF KeptInv
    <3>2. QED
      BY <1>3, <2>2, <3>1
      DEF vars, remote, index, jobs, files, pass, past, ControlInv, RowInv, SlotsInv,
          TakenInv, InUpload, InPoll, Stage, Unsafe
  <2>4. MadeInv'
    BY <1>3, <2>2 DEF vars, past, KeptInv, MadeInv
  <2>5. QED
    BY <2>1, <2>3, <2>4 DEF KeptInv
<1>4. QED
  BY <1>2, <1>3

LEMMA KeptInvHolds == Spec => []KeptInv
<1>1. QED
  BY KeptInvStart, KeptInvStep, PTL DEF Spec

(* Jobs, rows, plans and conflicts of every device have their types, and a *)
(* row names a revision of the log the device has recorded.                *)
THEOREM TypeCorrect == Spec => []TypeOK
<1>1. KeptInv => TypeOK
  BY DEF KeptInv
<1>2. QED
  BY <1>1, KeptInvHolds, PTL

(* No edit leaves the disks, copies, trash slots and the log, but at the   *)
(* places named or with the file its user deleted.                         *)
THEOREM EditsKept == Spec => []LostOnlyIfExposed
<1>1. KeptInv => LostOnlyIfExposed
  <2> SUFFICES ASSUME KeptInv PROVE LostOnlyIfExposed
    OBVIOUS
  <2>1. Owed \subseteq (Safe \cup Disks) \ dropped
    BY DEF KeptInv, MadeInv, Owed
  <2>2. Disks \subseteq Saved /\ Logged \subseteq Saved /\ Copied \subseteq Saved
    BY DEF Disks, Saved
  <2>3. QED
    BY <2>1, <2>2 DEF LostOnlyIfExposed, Safe
<1>2. QED
  BY <1>1, KeptInvHolds, PTL
=============================================================================
