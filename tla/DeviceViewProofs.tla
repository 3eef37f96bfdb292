-------------------------- MODULE DeviceViewProofs --------------------------
(***************************************************************************)
(* The device as the pages of the GUI show it, and as it starts.           *)
(*                                                                         *)
(* RuntimeTasks, for every set of CPUs, files, images and scopes and every *)
(* number of connections and changes: what the pages show is true of the   *)
(* device, what they offer is accepted, nothing but what was confirmed is  *)
(* written, and every outcome reaches its page.  The argument follows a    *)
(* task: its context is sound and of the connection that is still open,    *)
(* what it is about to make untrue is no longer shown once it has been     *)
(* announced, and the inputs a Flash task froze stay as they were until it *)
(* ends, because their setters give up while a task is active.             *)
(*                                                                         *)
(* BootDevice, for every layout, image set and build.  The invariant adds  *)
(* to the properties what each step relies on: whatever is published       *)
(* outside reset is intact, the entry points remembered by main and by the *)
(* core stay those of the trusted image until they are used, and a         *)
(* finished RAM load has all its words.                                    *)
(***************************************************************************)
EXTENDS RuntimeTasks, BootDevice, TLAPS

-----------------------------------------------------------------------------
(* RuntimeTasks                                                            *)

(***************************************************************************)
(* The types of the state.  job, ui and the contexts are given by their    *)
(* shape.                                                                  *)
(***************************************************************************)
ImageStates == [path : Files \cup {None}, summary : Contents \cup {None}, status : ParseStatuses]
Evidences == [cpu : Cpus, gen : Nat, id : Contents]
Resources == [program : ImageStates, ram : ImageStates, scope : EraseScopes, mask : Masks \cup {{}},
              verify : Evidences \cup {None}, crc : Evidences \cup {None}]
Memories == [freshness : Freshnesses, words : {"words", None}, gen : Nat]
Journals == [image : Contents \cup {None}, attempts : Nat, confirmed : BOOLEAN]
MetaReadings == [value : Journals \cup {None}, freshness : Freshnesses]
DiagReadings == [value : {"reading", None}, freshness : Freshnesses]
Connections == [gen : Nat, cpu : Cpus]
Stores == [gen : Nat, conn : Connections \cup {None}, res : [Cpus -> Resources],
           mem : [Cpus -> Memories], meta : MetaReadings, diag : [Groups -> DiagReadings]]
Summaries == [cpu : Cpus, id : Contents]
ServiceStates == [status : {"UNVALIDATED", "READY", "STALE", "UNAVAILABLE"}, rev : Nat,
                  summary : Summaries \cup {None}]
Backends == [prog : [Cpus -> Nat], ram : [Cpus -> Nat], tool : Nat, svc : ServiceStates]
Devices == [flash : Contents \cup {"blank", "torn"}, journal : Journals,
            ram : Contents \cup {None, "service"}, link : BOOLEAN]

IsJob(j) == j = [stage |-> j.stage, ctx |-> j.ctx, touched |-> j.touched, result |-> j.result,
                 reason |-> j.reason]
IsUi(u) == u = [suspect |-> u.suspect, pending |-> u.pending]

TaskTypes ==
    /\ rt \in Stores /\ be \in Backends /\ dev \in [Cpus -> Devices]
    /\ disk \in [Files -> Contents] /\ changes \in 0..MaxChanges
    /\ IsUi(ui) /\ IsJob(job)

(***************************************************************************)
(* An image that is being, or has been, prepared has a path.               *)
(***************************************************************************)
Named(i) == i.status # "EMPTY" => i.path # None
AllNamed(s) == \A c \in Cpus : Named(s.res[c].program) /\ Named(s.res[c].ram)
StoreIsSound ==
    /\ SnapshotValid(rt) /\ rt.gen <= MaxGen /\ AllNamed(rt)
    /\ (be.svc.status = "READY") = (be.svc.summary # None)

(***************************************************************************)
(* What is known of the context of a task.                                 *)
(***************************************************************************)
ContextIsSound(x) ==
    /\ x.kind \in Kinds /\ x.cpu \in Cpus
    /\ x.path \in Files \cup {None} /\ (NeedsImage(x) => x.path \in Files)
    /\ x.kind \in FlashKinds \cup RamKinds \cup {"IMAGE_VALID"} => x.id \in Contents
    /\ x.kind \in PrepareKinds => x.id = None
    /\ x.kind \in {"BOOT_ATTEMPT", "APP_CONFIRMED"} =>
          x.meta \in Journals /\ x.meta.image # None /\ ~x.meta.confirmed
    /\ x.kind = "BOOT_ATTEMPT" => x.meta.attempts < Limit
    /\ x.kind = "APP_CONFIRMED" => x.meta.attempts > 0
OnConnection(x, s) == s.conn # None /\ s.conn = [gen |-> x.gen, cpu |-> x.cpu]

JobIsSound ==
    /\ job.stage \in Stages
    /\ job.stage = None => job = NoJob
    /\ ui.pending # NoContext => ui.pending.kind \in WriteKinds
    /\ job.stage # None => ContextIsSound(job.ctx)
    /\ job.stage # None /\ job.ctx.kind \notin PrepareKinds => OnConnection(job.ctx, rt)

(***************************************************************************)
(* Once the worker has announced an operation, nothing is shown any more   *)
(* that the operation may make untrue.                                     *)
(***************************************************************************)
Announced ==
    /\ job.stage \in {"image", "service", "device"} =>
          /\ job.ctx.kind \in FlashKinds => rt.res[job.ctx.cpu].verify = None
          /\ job.ctx.kind \in {"RAM_LOAD", "RAM_CRC"} => rt.res[job.ctx.cpu].crc = None
          /\ job.ctx.kind \in {"ERASE", "PROGRAM"} => rt.meta.freshness # "FRESH"
    /\ job.stage = "device" /\ job.ctx.kind \in AppendKinds => rt.meta.freshness # "FRESH"

(***************************************************************************)
(* The steps a task of each kind goes through.                             *)
(***************************************************************************)
StageFits(v, x) ==
    /\ v = "image" => NeedsImage(x)
    /\ v = "service" => NeedsService(x)
    /\ v = "device" => x.kind \notin PrepareKinds
    /\ v = "refresh" => x.kind \in WriteKinds

(***************************************************************************)
(* What the worker has checked: the evidence an image is trusted by, the   *)
(* journal the user was shown, the content of the file.                    *)
(***************************************************************************)
Checked ==
    /\ StageFits(job.stage, job.ctx)
    /\ job.stage \in {"image", "service", "device"} /\ job.ctx.kind = "IMAGE_VALID" =>
          /\ job.ctx.evidence # None /\ job.ctx.evidence = rt.res[job.ctx.cpu].verify
          /\ job.ctx.evidence.id = job.ctx.id
    /\ /\ job.stage \in {"service", "device"} /\ job.ctx.kind \in {"BOOT_ATTEMPT", "APP_CONFIRMED"}
       /\ dev[job.ctx.cpu].link
       => dev[job.ctx.cpu].journal = job.ctx.meta
    /\ job.stage \in {"queued", "image"} => job.reason = None
    /\ job.stage \in {"service", "device"} =>
          job.reason = IF NeedsImage(job.ctx) THEN job.ctx.id ELSE None
    /\ job.stage = "refresh" /\ job.ctx.kind \in AppendKinds /\ dev[job.ctx.cpu].link =>
          readback_matches(job.ctx, job.reason, dev[job.ctx.cpu].journal)

(***************************************************************************)
(* The inputs of a Flash operation or an append stay as they were frozen   *)
(* until it ends, and the page recognises the result.                      *)
(***************************************************************************)
Pending ==
    job.ctx.kind \in FlashKinds \cup AppendKinds =>
        /\ job.stage \in {"queued", "image", "service", "device", "refresh"} => context_current(job.ctx, rt, be)
        /\ job.stage \in {"done", "ask"} => shown(job.ctx, job.result, rt, be)

TaskParts == JobIsSound /\ Announced /\ Checked /\ Pending /\ NoFalseMismatch

TasksInvariant == TaskTypes /\ StoreIsSound /\ ShownIsTrue /\ TaskParts

-----------------------------------------------------------------------------
(***************************************************************************)
(* A policy leaves the draft alone on an event that is not one of its own. *)
(***************************************************************************)
LEMMA ConnectionSkips ==
    ASSUME NEW e, NEW d, e.type \notin {"ConnectionOpened", "ConnectionClosed"}
    PROVE  ConnectionGenerationPolicy(e, d) = d /\ ConnectionStatePolicy(e, d) = d
BY DEF ConnectionGenerationPolicy, ConnectionStatePolicy

LEMMA MemorySkips ==
    ASSUME NEW e, NEW d,
           e.type \notin {"SessionChanged", "MemoryCleared", "MemoryReadSucceeded", "MemoryReadFailed",
                          "ConnectionOpened", "ConnectionClosed"}
    PROVE  MemoryFreshnessPolicy(e, d) = d
BY DEF MemoryFreshnessPolicy

LEMMA MetadataSkips ==
    ASSUME NEW e, NEW d,
           e.type \notin {"SessionChanged", "MetadataReadSucceeded", "MetadataReadFailed",
                          "MetadataWriteStarted", "OperationStarted", "ConnectionOpened", "ConnectionClosed"}
    PROVE  MetadataFreshnessPolicy(e, d) = d
BY DEF MetadataFreshnessPolicy

LEMMA DiagnosticsSkips ==
    ASSUME NEW e, NEW d,
           e.type \notin {"SessionChanged", "DiagnosticReadSucceeded", "DiagnosticReadFailed",
                          "ConnectionOpened", "ConnectionClosed"}
    PROVE  DiagnosticsFreshnessPolicy(e, d) = d
BY DEF DiagnosticsFreshnessPolicy

LEMMA InvalidationSkips ==
    ASSUME NEW e, NEW d,
           e.type \notin {"SessionChanged", "OperationStarted", "ProgramImageChanged", "RamImageChanged",
                          "ConnectionOpened", "ConnectionClosed"}
    PROVE  EvidenceInvalidationPolicy(e, d) = d
BY DEF EvidenceInvalidationPolicy

LEMMA EvidenceSkips ==
    ASSUME NEW e, NEW d, e.type # "OperationSucceeded"
    PROVE  VerifyEvidencePolicy(e, d) = d /\ RamCrcEvidencePolicy(e, d) = d
BY DEF VerifyEvidencePolicy, RamCrcEvidencePolicy

LEMMA ResourceSkips ==
    ASSUME NEW e, NEW d
    PROVE  /\ e.type # "SectorSelectionChanged" => SectorSelectionPolicy(e, d) = d
           /\ e.type # "SessionChanged" => SessionStatePolicy(e, d) = d
           /\ e.type # "ProgramImageChanged" => ProgramImageStatePolicy(e, d) = d
           /\ e.type # "RamImageChanged" => RamImageStatePolicy(e, d) = d
BY DEF SectorSelectionPolicy, SessionStatePolicy, ProgramImageStatePolicy, RamImageStatePolicy

(***************************************************************************)
(* The policies an event of each kind meets.                               *)
(***************************************************************************)
LEMMA MemoryCandidate ==
    ASSUME NEW e, NEW s, e.type \in {"MemoryCleared", "MemoryReadSucceeded", "MemoryReadFailed"}
    PROVE  Candidate(e, s) = MemoryFreshnessPolicy(e, s)
BY ConnectionSkips, MetadataSkips, DiagnosticsSkips, InvalidationSkips, EvidenceSkips, ResourceSkips
   DEF Candidate

LEMMA MetadataCandidate ==
    ASSUME NEW e, NEW s, e.type \in {"MetadataReadSucceeded", "MetadataReadFailed", "MetadataWriteStarted"}
    PROVE  Candidate(e, s) = MetadataFreshnessPolicy(e, s)
BY ConnectionSkips, MemorySkips, DiagnosticsSkips, InvalidationSkips, EvidenceSkips, ResourceSkips
   DEF Candidate

LEMMA DiagnosticCandidate ==
    ASSUME NEW e, NEW s, e.type \in {"DiagnosticReadSucceeded", "DiagnosticReadFailed"}
    PROVE  Candidate(e, s) = DiagnosticsFreshnessPolicy(e, s)
BY ConnectionSkips, MemorySkips, MetadataSkips, InvalidationSkips, EvidenceSkips, ResourceSkips
   DEF Candidate

LEMMA ProgramCandidate ==
    ASSUME NEW e, NEW s, e.type = "ProgramImageChanged"
    PROVE  Candidate(e, s) = ProgramImageStatePolicy(e, EvidenceInvalidationPolicy(e, s))
BY ConnectionSkips, MemorySkips, MetadataSkips, DiagnosticsSkips, EvidenceSkips, ResourceSkips
   DEF Candidate

LEMMA RamCandidate ==
    ASSUME NEW e, NEW s, e.type = "RamImageChanged"
    PROVE  Candidate(e, s) = RamImageStatePolicy(e, EvidenceInvalidationPolicy(e, s))
BY ConnectionSkips, MemorySkips, MetadataSkips, DiagnosticsSkips, EvidenceSkips, ResourceSkips
   DEF Candidate

LEMMA SectorCandidate ==
    ASSUME NEW e, NEW s, e.type = "SectorSelectionChanged"
    PROVE  Candidate(e, s) = SectorSelectionPolicy(e, s)
BY ConnectionSkips, MemorySkips, MetadataSkips, DiagnosticsSkips, InvalidationSkips, EvidenceSkips,
   ResourceSkips
   DEF Candidate

LEMMA StartedCandidate ==
    ASSUME NEW e, NEW s, e.type = "OperationStarted"
    PROVE  Candidate(e, s) = EvidenceInvalidationPolicy(e, MetadataFreshnessPolicy(e, s))
BY ConnectionSkips, MemorySkips, DiagnosticsSkips, EvidenceSkips, ResourceSkips DEF Candidate

LEMMA SucceededCandidate ==
    ASSUME NEW e, NEW s, e.type = "OperationSucceeded"
    PROVE  Candidate(e, s) = RamCrcEvidencePolicy(e, VerifyEvidencePolicy(e, s))
BY ConnectionSkips, MemorySkips, MetadataSkips, DiagnosticsSkips, InvalidationSkips, ResourceSkips
   DEF Candidate

LEMMA SessionCandidate ==
    ASSUME NEW e, NEW s, e.type = "SessionChanged"
    PROVE  Candidate(e, s) =
               SessionStatePolicy(e, EvidenceInvalidationPolicy(e, DiagnosticsFreshnessPolicy(e,
                   MetadataFreshnessPolicy(e, MemoryFreshnessPolicy(e, s)))))
BY ConnectionSkips, EvidenceSkips, ResourceSkips DEF Candidate

LEMMA ConnectionCandidate ==
    ASSUME NEW e, NEW s, e.type \in {"ConnectionOpened", "ConnectionClosed"}
    PROVE  Candidate(e, s) =
               EvidenceInvalidationPolicy(e, DiagnosticsFreshnessPolicy(e, MetadataFreshnessPolicy(e,
                   MemoryFreshnessPolicy(e, ConnectionStatePolicy(e, ConnectionGenerationPolicy(e, s))))))
BY EvidenceSkips, ResourceSkips DEF Candidate

-----------------------------------------------------------------------------
(***************************************************************************)
(* What each event does to the store.                                      *)
(***************************************************************************)
OnlyMem(s, t) == t.gen = s.gen /\ t.conn = s.conn /\ t.res = s.res /\ t.meta = s.meta /\ t.diag = s.diag
OnlyMeta(s, t) == t.gen = s.gen /\ t.conn = s.conn /\ t.res = s.res /\ t.mem = s.mem /\ t.diag = s.diag
OnlyDiag(s, t) == t.gen = s.gen /\ t.conn = s.conn /\ t.res = s.res /\ t.mem = s.mem /\ t.meta = s.meta
OnlyRes(s, t) == t.gen = s.gen /\ t.conn = s.conn /\ t.mem = s.mem /\ t.meta = s.meta /\ t.diag = s.diag

MemoryOfConnection(s, t) ==
    \A b \in Cpus : \/ t.mem[b] = s.mem[b]
                    \/ t.mem[b].freshness # "FRESH"
                    \/ s.conn # None /\ s.conn.cpu = b /\ s.conn.gen = t.mem[b].gen

WithMem(s, f) == [s EXCEPT !.mem = f]
WithOneMem(s, c, m) == [s EXCEPT !.mem[c] = m]

LEMMA SetMem ==
    ASSUME NEW s \in Stores, NEW f \in [Cpus -> Memories], NEW t, t = WithMem(s, f)
    PROVE  t \in Stores /\ OnlyMem(s, t) /\ t.mem = f
BY DEF Stores, OnlyMem, WithMem

LEMMA SetOneMem ==
    ASSUME NEW s \in Stores, NEW c \in Cpus, NEW m \in Memories, NEW t, t = WithOneMem(s, c, m)
    PROVE  t \in Stores /\ OnlyMem(s, t) /\ t.mem[c] = m /\ \A b \in Cpus \ {c} : t.mem[b] = s.mem[b]
<1>1. s.mem \in [Cpus -> Memories]
  BY DEF Stores
<1>2. PICK f : f = [s.mem EXCEPT ![c] = m]
  OBVIOUS
<1>3. f \in [Cpus -> Memories] /\ f[c] = m /\ \A b \in Cpus \ {c} : f[b] = s.mem[b]
  BY <1>1, <1>2
<1>4. t = WithMem(s, f)
  BY <1>2 DEF WithMem, WithOneMem
<1>q. QED
  BY <1>3, <1>4, SetMem

LEMMA MemoryEffect ==
    ASSUME NEW s \in Stores, NEW c \in Cpus, NEW g \in Nat, NEW e,
           \/ e = MemoryCleared(c)
           \/ e = MemoryReadSucceeded(c, g, "words")
           \/ e = MemoryReadFailed(c, g),
           NEW t, t = Candidate(e, s)
    PROVE  t \in Stores /\ OnlyMem(s, t) /\ MemoryOfConnection(s, t)
<1>0. e.cpu = c /\ e.type \in {"MemoryCleared", "MemoryReadSucceeded", "MemoryReadFailed"}
  BY DEF MemoryCleared, MemoryReadSucceeded, MemoryReadFailed
<1>1. t = MemoryFreshnessPolicy(e, s)
  BY <1>0, MemoryCandidate
<1>2. s.mem[c] \in Memories
  BY DEF Stores
<1>3. CASE e = MemoryCleared(c)
  <2>1. e.type = "MemoryCleared"
    BY <1>3 DEF MemoryCleared
  <2>2. PICK m : m = NewMemory
    OBVIOUS
  <2>3. m \in Memories /\ m.freshness # "FRESH"
    BY <2>2 DEF NewMemory, Memories, Freshnesses
  <2>4. t = WithOneMem(s, c, m)
    BY <1>0, <1>1, <2>1, <2>2 DEF MemoryFreshnessPolicy, WithOneMem
  <2>q. QED
    BY <2>3, <2>4, SetOneMem DEF MemoryOfConnection
<1>4. CASE e = MemoryReadSucceeded(c, g, "words")
  <2>1. e.type = "MemoryReadSucceeded" /\ e.words = "words" /\ e.gen = g
    BY <1>4 DEF MemoryReadSucceeded
  <2>2. PICK m : m = [freshness |-> "FRESH", words |-> "words", gen |-> g]
    OBVIOUS
  <2>3. m \in Memories /\ m.gen = g
    BY <2>2 DEF Memories, Freshnesses
  <2>4. CASE OnCurrentConnection(e, s)
    <3>1. t = WithOneMem(s, c, m)
      BY <1>0, <1>1, <2>1, <2>2, <2>4 DEF MemoryFreshnessPolicy, WithOneMem
    <3>2. s.conn # None /\ s.conn.cpu = c /\ s.conn.gen = g
      BY <2>4, <1>0, <2>1 DEF OnCurrentConnection
    <3>q. QED
      BY <2>3, <3>1, <3>2, SetOneMem DEF MemoryOfConnection
  <2>5. CASE ~OnCurrentConnection(e, s)
    <3>1. t = s
      BY <1>1, <2>1, <2>5 DEF MemoryFreshnessPolicy
    <3>q. QED
      BY <3>1 DEF OnlyMem, MemoryOfConnection
  <2>q. QED
    BY <2>4, <2>5
<1>5. CASE e = MemoryReadFailed(c, g)
  <2>1. e.type = "MemoryReadFailed"
    BY <1>5 DEF MemoryReadFailed
  <2>2. PICK v : v = IF s.mem[c].words # None THEN "STALE" ELSE "EMPTY"
    OBVIOUS
  <2>3. v \in {"STALE", "EMPTY"}
    BY <2>2
  <2>4. PICK m : m = [s.mem[c] EXCEPT !.freshness = v]
    OBVIOUS
  <2>5. m \in Memories /\ m.freshness # "FRESH"
    BY <1>2, <2>3, <2>4 DEF Memories, Freshnesses
  <2>6. CASE OnCurrentConnection(e, s)
    <3>1. t = WithOneMem(s, c, m)
      BY <1>0, <1>1, <2>1, <2>2, <2>4, <2>6 DEF MemoryFreshnessPolicy, WithOneMem
    <3>q. QED
      BY <2>5, <3>1, SetOneMem DEF MemoryOfConnection
  <2>7. CASE ~OnCurrentConnection(e, s)
    <3>1. t = s
      BY <1>1, <2>1, <2>7 DEF MemoryFreshnessPolicy
    <3>q. QED
      BY <3>1 DEF OnlyMem, MemoryOfConnection
  <2>q. QED
    BY <2>6, <2>7
<1>q. QED
  BY <1>3, <1>4, <1>5

WithMeta(s, m) == [s EXCEPT !.meta = m]
WithFreshness(s, v) == [s EXCEPT !.meta.freshness = v]

LEMMA SetMeta ==
    ASSUME NEW s \in Stores, NEW m \in MetaReadings, NEW t, t = WithMeta(s, m)
    PROVE  t \in Stores /\ OnlyMeta(s, t) /\ t.meta = m
BY DEF Stores, OnlyMeta, WithMeta

LEMMA SetMetaFreshness ==
    ASSUME NEW s \in Stores, NEW v \in {"STALE", "EMPTY"}, NEW t, t = WithFreshness(s, v)
    PROVE  t \in Stores /\ OnlyMeta(s, t) /\ t.meta.value = s.meta.value /\ t.meta.freshness = v
<1>1. PICK m : m = [s.meta EXCEPT !.freshness = v]
  OBVIOUS
<1>2. m \in MetaReadings /\ m.value = s.meta.value /\ m.freshness = v
  BY <1>1 DEF Stores, MetaReadings, Freshnesses
<1>3. t = WithMeta(s, m)
  BY <1>1 DEF WithMeta, WithFreshness
<1>q. QED
  BY <1>2, <1>3, SetMeta

LEMMA MetadataReadEffect ==
    ASSUME NEW s \in Stores, NEW c \in Cpus, NEW g \in Nat, NEW j \in Journals, NEW e,
           e = MetadataReadSucceeded(c, g, j), NEW t, t = Candidate(e, s)
    PROVE  /\ t \in Stores /\ OnlyMeta(s, t)
           /\ \/ t.meta = s.meta
              \/ s.conn # None /\ s.conn.cpu = c /\ s.conn.gen = g /\ t.meta.value = j
<1>1. e.type = "MetadataReadSucceeded" /\ e.cpu = c /\ e.gen = g /\ e.value = j
  BY DEF MetadataReadSucceeded
<1>2. t = MetadataFreshnessPolicy(e, s)
  BY <1>1, MetadataCandidate
<1>3. PICK m : m = [value |-> j, freshness |-> "FRESH"]
  OBVIOUS
<1>4. m \in MetaReadings /\ m.value = j
  BY <1>3 DEF MetaReadings, Freshnesses
<1>5. CASE OnCurrentConnection(e, s)
  <2>1. t = WithMeta(s, m)
    BY <1>1, <1>2, <1>3, <1>5 DEF MetadataFreshnessPolicy, WithMeta
  <2>q. QED
    BY <1>1, <1>4, <1>5, <2>1, SetMeta DEF OnCurrentConnection
<1>6. CASE ~OnCurrentConnection(e, s)
  <2>1. t = s
    BY <1>1, <1>2, <1>6 DEF MetadataFreshnessPolicy
  <2>q. QED
    BY <2>1 DEF OnlyMeta
<1>q. QED
  BY <1>5, <1>6

LEMMA MetadataFailEffect ==
    ASSUME NEW s \in Stores, NEW c \in Cpus, NEW g \in Nat, NEW e,
           e = MetadataReadFailed(c, g), NEW t, t = Candidate(e, s)
    PROVE  t \in Stores /\ OnlyMeta(s, t) /\ (t.meta = s.meta \/ t.meta.freshness # "FRESH")
<1>1. e.type = "MetadataReadFailed"
  BY DEF MetadataReadFailed
<1>2. t = MetadataFreshnessPolicy(e, s)
  BY <1>1, MetadataCandidate
<1>3. PICK v : v = IF s.meta.freshness = "STALE" \/ s.meta.value # None THEN "STALE" ELSE "EMPTY"
  OBVIOUS
<1>4. v \in {"STALE", "EMPTY"}
  BY <1>3
<1>5. CASE OnCurrentConnection(e, s)
  <2>1. t = WithFreshness(s, v)
    BY <1>1, <1>2, <1>3, <1>5 DEF MetadataFreshnessPolicy, WithFreshness
  <2>q. QED
    BY <1>4, <2>1, SetMetaFreshness
<1>6. CASE ~OnCurrentConnection(e, s)
  <2>1. t = s
    BY <1>1, <1>2, <1>6 DEF MetadataFreshnessPolicy
  <2>q. QED
    BY <2>1 DEF OnlyMeta
<1>q. QED
  BY <1>5, <1>6

WithDiag(s, f) == [s EXCEPT !.diag = f]
WithOneDiag(s, g, r) == [s EXCEPT !.diag[g] = r]

LEMMA SetDiag ==
    ASSUME NEW s \in Stores, NEW f \in [Groups -> DiagReadings], NEW t, t = WithDiag(s, f)
    PROVE  t \in Stores /\ OnlyDiag(s, t) /\ t.diag = f
BY DEF Stores, OnlyDiag, WithDiag

LEMMA SetOneDiag ==
    ASSUME NEW s \in Stores, NEW g \in Groups, NEW r \in DiagReadings, NEW t, t = WithOneDiag(s, g, r)
    PROVE  t \in Stores /\ OnlyDiag(s, t) /\ t.diag[g] = r /\ \A h \in Groups \ {g} : t.diag[h] = s.diag[h]
<1>1. s.diag \in [Groups -> DiagReadings]
  BY DEF Stores
<1>2. PICK f : f = [s.diag EXCEPT ![g] = r]
  OBVIOUS
<1>3. f \in [Groups -> DiagReadings] /\ f[g] = r /\ \A h \in Groups \ {g} : f[h] = s.diag[h]
  BY <1>1, <1>2
<1>4. t = WithDiag(s, f)
  BY <1>2 DEF WithDiag, WithOneDiag
<1>q. QED
  BY <1>3, <1>4, SetDiag

DiagOfConnection(s, t) == \A g \in Groups : t.diag[g] = s.diag[g] \/ t.diag[g].freshness # "FRESH" \/ s.conn # None

LEMMA DiagnosticEffect ==
    ASSUME NEW s \in Stores, NEW c \in Cpus, NEW g \in Nat, NEW k \in Groups, NEW e,
           \/ e = DiagnosticReadSucceeded(c, g, k, "reading")
           \/ e = DiagnosticReadFailed(c, g, k),
           NEW t, t = Candidate(e, s)
    PROVE  t \in Stores /\ OnlyDiag(s, t) /\ DiagOfConnection(s, t)
<1>0. e.group = k /\ e.type \in {"DiagnosticReadSucceeded", "DiagnosticReadFailed"}
  BY DEF DiagnosticReadSucceeded, DiagnosticReadFailed
<1>1. t = DiagnosticsFreshnessPolicy(e, s)
  BY <1>0, DiagnosticCandidate
<1>2. s.diag[k] \in DiagReadings
  BY DEF Stores
<1>3. CASE ~OnCurrentConnection(e, s)
  <2>1. t = s
    BY <1>0, <1>1, <1>3 DEF DiagnosticsFreshnessPolicy
  <2>q. QED
    BY <2>1 DEF OnlyDiag, DiagOfConnection
<1>4. CASE OnCurrentConnection(e, s)
  <2>0. s.conn # None
    BY <1>4 DEF OnCurrentConnection
  <2>1. CASE e = DiagnosticReadSucceeded(c, g, k, "reading")
    <3>1. e.type = "DiagnosticReadSucceeded" /\ e.value = "reading"
      BY <2>1 DEF DiagnosticReadSucceeded
    <3>2. PICK r : r = [value |-> "reading", freshness |-> "FRESH"]
      OBVIOUS
    <3>3. r \in DiagReadings
      BY <3>2 DEF DiagReadings, Freshnesses
    <3>4. t = WithOneDiag(s, k, r)
      BY <1>0, <1>1, <1>4, <3>1, <3>2 DEF DiagnosticsFreshnessPolicy, WithOneDiag
    <3>q. QED
      BY <2>0, <3>3, <3>4, SetOneDiag DEF DiagOfConnection
  <2>2. CASE e = DiagnosticReadFailed(c, g, k)
    <3>1. e.type = "DiagnosticReadFailed"
      BY <2>2 DEF DiagnosticReadFailed
    <3>2. PICK v : v = IF s.diag[k].value # None THEN "STALE" ELSE "EMPTY"
      OBVIOUS
    <3>3. PICK r : r = [s.diag[k] EXCEPT !.freshness = v]
      OBVIOUS
    <3>4. r \in DiagReadings
      BY <1>2, <3>2, <3>3 DEF DiagReadings, Freshnesses
    <3>5. t = WithOneDiag(s, k, r)
      BY <1>0, <1>1, <1>4, <3>1, <3>2, <3>3 DEF DiagnosticsFreshnessPolicy, WithOneDiag
    <3>q. QED
      BY <2>0, <3>4, <3>5, SetOneDiag DEF DiagOfConnection
  <2>q. QED
    BY <2>1, <2>2
<1>q. QED
  BY <1>3, <1>4

(***************************************************************************)
(* The resources of one CPU.                                               *)
(***************************************************************************)
WithRes(s, f) == [s EXCEPT !.res = f]
WithOneRes(s, c, r) == [s EXCEPT !.res[c] = r]

LEMMA SetRes ==
    ASSUME NEW s \in Stores, NEW f \in [Cpus -> Resources], NEW t, t = WithRes(s, f)
    PROVE  t \in Stores /\ OnlyRes(s, t) /\ t.res = f
BY DEF Stores, OnlyRes, WithRes

LEMMA SetOneRes ==
    ASSUME NEW s \in Stores, NEW c \in Cpus, NEW r \in Resources, NEW t, t = WithOneRes(s, c, r)
    PROVE  t \in Stores /\ OnlyRes(s, t) /\ t.res[c] = r /\ \A b \in Cpus \ {c} : t.res[b] = s.res[b]
<1>1. s.res \in [Cpus -> Resources]
  BY DEF Stores
<1>2. PICK f : f = [s.res EXCEPT ![c] = r]
  OBVIOUS
<1>3. f \in [Cpus -> Resources] /\ f[c] = r /\ \A b \in Cpus \ {c} : f[b] = s.res[b]
  BY <1>1, <1>2
<1>4. t = WithRes(s, f)
  BY <1>2 DEF WithRes, WithOneRes
<1>q. QED
  BY <1>3, <1>4, SetRes

SameProgram(s, t) == \A b \in Cpus : t.res[b].program = s.res[b].program
SameRam(s, t) == \A b \in Cpus : t.res[b].ram = s.res[b].ram
SameVerify(s, t) == \A b \in Cpus : t.res[b].verify = s.res[b].verify
LessEvidence(s, t) ==
    \A b \in Cpus : t.res[b].verify \in {None, s.res[b].verify} /\ t.res[b].crc \in {None, s.res[b].crc}

(***************************************************************************)
(* Fields of one resource replaced.                                        *)
(***************************************************************************)
WithoutVerify(s, c) == [s EXCEPT !.res[c].verify = None]
WithoutCrc(s, c) == [s EXCEPT !.res[c].crc = None]

LEMMA ResourceFields ==
    ASSUME NEW r \in Resources
    PROVE  /\ r.program \in ImageStates /\ r.ram \in ImageStates
           /\ r.verify \in Evidences \cup {None} /\ r.crc \in Evidences \cup {None}
BY DEF Resources

LEMMA VerifyDropped ==
    ASSUME NEW s \in Stores, NEW c \in Cpus, NEW t, t = WithoutVerify(s, c)
    PROVE  /\ t \in Stores /\ OnlyRes(s, t) /\ SameProgram(s, t) /\ SameRam(s, t) /\ LessEvidence(s, t)
           /\ t.res[c].verify = None
<1>1. PICK r : r = [s.res[c] EXCEPT !.verify = None]
  OBVIOUS
<1>2. s.res[c] \in Resources
  BY DEF Stores
<1>3. /\ r \in Resources /\ r.program = s.res[c].program /\ r.ram = s.res[c].ram /\ r.crc = s.res[c].crc
      /\ r.verify = None
  BY <1>1, <1>2 DEF Resources
<1>4. t = WithOneRes(s, c, r)
  BY <1>1 DEF WithOneRes, WithoutVerify
<1>5. t \in Stores /\ OnlyRes(s, t) /\ t.res[c] = r /\ \A b \in Cpus \ {c} : t.res[b] = s.res[b]
  BY <1>3, <1>4, SetOneRes
<1>6. \A b \in Cpus : b = c \/ b \in Cpus \ {c}
  OBVIOUS
<1>q. QED
  BY <1>3, <1>5, <1>6 DEF SameProgram, SameRam, LessEvidence

LEMMA CrcDropped ==
    ASSUME NEW s \in Stores, NEW c \in Cpus, NEW t, t = WithoutCrc(s, c)
    PROVE  /\ t \in Stores /\ OnlyRes(s, t) /\ SameProgram(s, t) /\ SameRam(s, t) /\ LessEvidence(s, t)
           /\ t.res[c].crc = None /\ SameVerify(s, t)
<1>1. PICK r : r = [s.res[c] EXCEPT !.crc = None]
  OBVIOUS
<1>2. s.res[c] \in Resources
  BY DEF Stores
<1>3. /\ r \in Resources /\ r.program = s.res[c].program /\ r.ram = s.res[c].ram /\ r.crc = None
      /\ r.verify = s.res[c].verify
  BY <1>1, <1>2 DEF Resources
<1>4. t = WithOneRes(s, c, r)
  BY <1>1 DEF WithOneRes, WithoutCrc
<1>5. t \in Stores /\ OnlyRes(s, t) /\ t.res[c] = r /\ \A b \in Cpus \ {c} : t.res[b] = s.res[b]
  BY <1>3, <1>4, SetOneRes
<1>6. \A b \in Cpus : b = c \/ b \in Cpus \ {c}
  OBVIOUS
<1>q. QED
  BY <1>3, <1>5, <1>6 DEF SameProgram, SameRam, LessEvidence, SameVerify

(***************************************************************************)
(* MetadataWriteStarted and OperationStarted are always accepted on the    *)
(* current connection, and take away what the operation may make untrue.   *)
(***************************************************************************)
StillValid(s, t) ==
    /\ t.conn = s.conn /\ t.gen = s.gen /\ t.mem = s.mem /\ t.diag = s.diag
    /\ SameProgram(s, t) /\ SameRam(s, t) /\ LessEvidence(s, t)
    /\ t.meta = s.meta \/ t.meta.freshness # "FRESH"

LEMMA LessIsValid ==
    ASSUME NEW s \in Stores, NEW t \in Stores, SnapshotValid(s), StillValid(s, t)
    PROVE  SnapshotValid(t)
<1>1. t.conn # None => t.conn.gen = t.gen
  BY DEF SnapshotValid, StillValid
<1>2. MetadataValid(t.meta)
  BY DEF SnapshotValid, StillValid, MetadataValid
<1>3. DiagnosticsValid(t.diag)
  BY DEF SnapshotValid, StillValid
<1>4. ASSUME NEW c \in Cpus PROVE ResourceValid(c, t.res[c]) /\ MemoryValid(t.mem[c])
  <2>1. ResourceValid(c, s.res[c]) /\ MemoryValid(s.mem[c]) /\ t.mem = s.mem
    BY DEF SnapshotValid, StillValid
  <2>2. t.res[c].program = s.res[c].program /\ t.res[c].ram = s.res[c].ram
    BY DEF StillValid, SameProgram, SameRam
  <2>3. t.res[c].verify \in {None, s.res[c].verify} /\ t.res[c].crc \in {None, s.res[c].crc}
    BY DEF StillValid, LessEvidence
  <2>4. ParseStateValid(t.res[c].program) /\ ParseStateValid(t.res[c].ram)
    BY <2>1, <2>2 DEF ResourceValid
  <2>q. QED
    BY <2>1, <2>3, <2>4 DEF ResourceValid
<1>q. QED
  BY <1>1, <1>2, <1>3, <1>4 DEF SnapshotValid

LEMMA TransitionCases ==
    ASSUME NEW e, NEW s
    PROVE  Transition(e, s) = s \/ (Transition(e, s) = Candidate(e, s) /\ SnapshotValid(Candidate(e, s)))
BY DEF Transition, Accepted

(***************************************************************************)
(* The snapshot is valid after every event.                                *)
(***************************************************************************)
LEMMA TransitionValid ==
    ASSUME NEW e, NEW s, SnapshotValid(s)
    PROVE  SnapshotValid(Transition(e, s))
BY DEF Transition, Accepted

LEMMA WriteStartedEffect ==
    ASSUME NEW s \in Stores, NEW c \in Cpus, NEW g \in Nat, NEW e, e = MetadataWriteStarted(c, g),
           SnapshotValid(s), NEW t, t = Transition(e, s)
    PROVE  /\ t \in Stores /\ OnlyMeta(s, t) /\ (t.meta = s.meta \/ t.meta.freshness # "FRESH")
           /\ s.conn # None /\ s.conn.cpu = c /\ s.conn.gen = g => t.meta.freshness # "FRESH"
<1>1. e.type = "MetadataWriteStarted" /\ e.cpu = c /\ e.gen = g
  BY DEF MetadataWriteStarted
<1>2. PICK d : d = Candidate(e, s)
  OBVIOUS
<1>3. d = MetadataFreshnessPolicy(e, s)
  BY <1>1, <1>2, MetadataCandidate
<1>4. CASE OnCurrentConnection(e, s)
  <2>1. d = WithFreshness(s, "STALE")
    BY <1>1, <1>3, <1>4 DEF MetadataFreshnessPolicy, WithFreshness
  <2>2. d \in Stores /\ OnlyMeta(s, d) /\ d.meta.freshness = "STALE"
    BY <2>1, SetMetaFreshness
  <2>3. StillValid(s, d)
    BY <2>2 DEF StillValid, OnlyMeta, SameProgram, SameRam, LessEvidence
  <2>4. Accepted(e, s)
    BY <1>1, <1>2, <2>2, <2>3, LessIsValid DEF Accepted, EventValid, Raises
  <2>5. t = d
    BY <1>2, <2>4 DEF Transition
  <2>q. QED
    BY <2>2, <2>5
<1>5. CASE ~OnCurrentConnection(e, s)
  <2>1. d = s
    BY <1>1, <1>3, <1>5 DEF MetadataFreshnessPolicy
  <2>2. t = s
    BY <1>2, <2>1, TransitionCases
  <2>q. QED
    BY <1>1, <1>5, <2>2 DEF OnlyMeta, OnCurrentConnection
<1>q. QED
  BY <1>4, <1>5

LEMMA StartedEffect ==
    ASSUME NEW s \in Stores, NEW o \in {"ERASE", "PROGRAM", "VERIFY", "RAM_LOAD", "RAM_CRC"},
           NEW c \in Cpus, NEW g \in Nat, NEW e,
           e = OperationStarted(o, c, g), SnapshotValid(s), NEW t, t = Transition(e, s)
    PROVE  /\ t \in Stores /\ StillValid(s, t)
           /\ o \in {"ERASE", "PROGRAM", "VERIFY"} => t.res[c].verify = None
           /\ o \in {"RAM_LOAD", "RAM_CRC"} => t.res[c].crc = None
           /\ o \in {"ERASE", "PROGRAM"} /\ s.conn # None /\ s.conn.cpu = c /\ s.conn.gen = g =>
                 t.meta.freshness # "FRESH"
<1>1. e.type = "OperationStarted" /\ e.op = o /\ e.cpu = c /\ e.gen = g
  BY DEF OperationStarted
<1>2. PICK m : m = MetadataFreshnessPolicy(e, s)
  OBVIOUS
<1>3. /\ m \in Stores /\ OnlyMeta(s, m) /\ (m.meta = s.meta \/ m.meta.freshness # "FRESH")
      /\ o \in {"ERASE", "PROGRAM"} /\ OnCurrentConnection(e, s) => m.meta.freshness # "FRESH"
  <2>1. CASE o \in {"ERASE", "PROGRAM"} /\ OnCurrentConnection(e, s)
    <3>1. m = WithFreshness(s, "STALE")
      BY <1>1, <1>2, <2>1 DEF MetadataFreshnessPolicy, WithFreshness
    <3>q. QED
      BY <3>1, SetMetaFreshness
  <2>2. CASE ~(o \in {"ERASE", "PROGRAM"} /\ OnCurrentConnection(e, s))
    <3>1. m = s
      BY <1>1, <1>2, <2>2 DEF MetadataFreshnessPolicy
    <3>q. QED
      BY <3>1, <2>2 DEF OnlyMeta
  <2>q. QED
    BY <2>1, <2>2
<1>4. PICK d : d = Candidate(e, s)
  OBVIOUS
<1>5. d = EvidenceInvalidationPolicy(e, m)
  BY <1>1, <1>2, <1>4, StartedCandidate
<1>6. /\ d \in Stores /\ OnlyRes(m, d) /\ SameProgram(m, d) /\ SameRam(m, d) /\ LessEvidence(m, d)
      /\ o \in {"ERASE", "PROGRAM", "VERIFY"} => d.res[c].verify = None
      /\ o \in {"RAM_LOAD", "RAM_CRC"} => d.res[c].crc = None
  <2>1. CASE o \in {"ERASE", "PROGRAM", "VERIFY"}
    <3>1. d = WithoutVerify(m, c)
      BY <1>1, <1>5, <2>1 DEF EvidenceInvalidationPolicy, WithoutVerify
    <3>q. QED
      BY <1>3, <2>1, <3>1, VerifyDropped
  <2>2. CASE o \notin {"ERASE", "PROGRAM", "VERIFY"}
    <3>1. d = WithoutCrc(m, c)
      BY <1>1, <1>5, <2>2 DEF EvidenceInvalidationPolicy, WithoutCrc
    <3>q. QED
      BY <1>3, <2>2, <3>1, CrcDropped
  <2>q. QED
    BY <2>1, <2>2
<1>7. StillValid(s, d)
  BY <1>3, <1>6 DEF StillValid, OnlyMeta, OnlyRes, SameProgram, SameRam, LessEvidence
<1>8. Accepted(e, s)
  BY <1>1, <1>4, <1>6, <1>7, LessIsValid DEF Accepted, EventValid, Raises
<1>9. t = d
  BY <1>4, <1>8 DEF Transition
<1>10. d.meta = m.meta
  BY <1>6 DEF OnlyRes
<1>q. QED
  BY <1>1, <1>3, <1>6, <1>7, <1>9, <1>10 DEF OnCurrentConnection

(***************************************************************************)
(* An image event that is well formed is accepted.  It replaces the image  *)
(* and may drop the evidence for the former one.                           *)
(***************************************************************************)
ProgramSet(s, t, c, i) ==
    /\ t \in Stores /\ OnlyRes(s, t) /\ SameRam(s, t) /\ LessEvidence(s, t)
    /\ t.res[c].program = i /\ \A b \in Cpus \ {c} : t.res[b].program = s.res[b].program
RamSet(s, t, c, i) ==
    /\ t \in Stores /\ OnlyRes(s, t) /\ SameProgram(s, t) /\ LessEvidence(s, t) /\ SameVerify(s, t)
    /\ t.res[c].ram = i /\ \A b \in Cpus \ {c} : t.res[b].ram = s.res[b].ram

LEMMA ProgramSetIsValid ==
    ASSUME NEW s \in Stores, NEW t, NEW c \in Cpus, NEW i, ProgramSet(s, t, c, i), ParseStateValid(i),
           SnapshotValid(s)
    PROVE  SnapshotValid(t)
<1>1. t.conn = s.conn /\ t.gen = s.gen /\ t.mem = s.mem /\ t.meta = s.meta /\ t.diag = s.diag
  BY DEF ProgramSet, OnlyRes
<1>2. ASSUME NEW b \in Cpus PROVE ResourceValid(b, t.res[b])
  <2>1. ResourceValid(b, s.res[b])
    BY DEF SnapshotValid
  <2>2. t.res[b].program = s.res[b].program \/ t.res[b].program = i
    BY DEF ProgramSet
  <2>3. t.res[b].ram = s.res[b].ram
    BY DEF ProgramSet, SameRam
  <2>4. t.res[b].verify \in {None, s.res[b].verify} /\ t.res[b].crc \in {None, s.res[b].crc}
    BY DEF ProgramSet, LessEvidence
  <2>5. ParseStateValid(t.res[b].program) /\ ParseStateValid(t.res[b].ram)
    BY <2>1, <2>2, <2>3 DEF ResourceValid
  <2>q. QED
    BY <2>1, <2>4, <2>5 DEF ResourceValid
<1>q. QED
  BY <1>1, <1>2 DEF SnapshotValid

LEMMA RamSetIsValid ==
    ASSUME NEW s \in Stores, NEW t, NEW c \in Cpus, NEW i, RamSet(s, t, c, i), ParseStateValid(i),
           SnapshotValid(s)
    PROVE  SnapshotValid(t)
<1>1. t.conn = s.conn /\ t.gen = s.gen /\ t.mem = s.mem /\ t.meta = s.meta /\ t.diag = s.diag
  BY DEF RamSet, OnlyRes
<1>2. ASSUME NEW b \in Cpus PROVE ResourceValid(b, t.res[b])
  <2>1. ResourceValid(b, s.res[b])
    BY DEF SnapshotValid
  <2>2. t.res[b].ram = s.res[b].ram \/ t.res[b].ram = i
    BY DEF RamSet
  <2>3. t.res[b].program = s.res[b].program
    BY DEF RamSet, SameProgram
  <2>4. t.res[b].verify \in {None, s.res[b].verify} /\ t.res[b].crc \in {None, s.res[b].crc}
    BY DEF RamSet, LessEvidence
  <2>5. ParseStateValid(t.res[b].program) /\ ParseStateValid(t.res[b].ram)
    BY <2>1, <2>2, <2>3 DEF ResourceValid
  <2>q. QED
    BY <2>1, <2>4, <2>5 DEF ResourceValid
<1>q. QED
  BY <1>1, <1>2 DEF SnapshotValid

LEMMA ProgramEffect ==
    ASSUME NEW s \in Stores, SnapshotValid(s), NEW c \in Cpus, NEW p, NEW v, NEW i, NEW e,
           e = ProgramImageChanged(c, p, v, i), e.image \in ImageStates, NEW t, t = Transition(e, s)
    PROVE  /\ e.image.path = p /\ e.image.status = v /\ e.image.summary = i
           /\ IF ImageEventValid(e.image) THEN ProgramSet(s, t, c, e.image) ELSE t = s
<1>1. e.type = "ProgramImageChanged" /\ e.cpu = c
  BY DEF ProgramImageChanged
<1>2. PICK q : q = e.image
  OBVIOUS
<1>3. q.path = p /\ q.status = v /\ q.summary = i
  BY <1>2 DEF ProgramImageChanged
<1>4. PICK m : m = EvidenceInvalidationPolicy(e, s)
  OBVIOUS
<1>5. m = s \/ m = WithoutVerify(s, c)
  BY <1>1, <1>4 DEF EvidenceInvalidationPolicy, WithoutVerify
<1>6. m \in Stores /\ OnlyRes(s, m) /\ SameProgram(s, m) /\ SameRam(s, m) /\ LessEvidence(s, m)
  <2>1. CASE m = s
    BY <2>1 DEF OnlyRes, SameProgram, SameRam, LessEvidence
  <2>2. CASE m = WithoutVerify(s, c)
    BY <2>2, VerifyDropped
  <2>q. QED
    BY <1>5, <2>1, <2>2
<1>7. PICK d : d = Candidate(e, s)
  OBVIOUS
<1>8. d = ProgramImageStatePolicy(e, m)
  BY <1>1, <1>4, <1>7, ProgramCandidate
<1>9. PICK r : r = [m.res[c] EXCEPT !.program = q]
  OBVIOUS
<1>10. m.res[c] \in Resources
  BY <1>6 DEF Stores
<1>11. /\ r \in Resources /\ r.program = q /\ r.ram = m.res[c].ram
       /\ r.verify = m.res[c].verify /\ r.crc = m.res[c].crc
  BY <1>2, <1>9, <1>10 DEF Resources
<1>12. d = WithOneRes(m, c, r)
  BY <1>1, <1>2, <1>8, <1>9 DEF ProgramImageStatePolicy, WithOneRes
<1>13. d \in Stores /\ OnlyRes(m, d) /\ d.res[c] = r /\ \A b \in Cpus \ {c} : d.res[b] = m.res[b]
  BY <1>6, <1>11, <1>12, SetOneRes
<1>14. \A b \in Cpus : b = c \/ b \in Cpus \ {c}
  OBVIOUS
<1>15. OnlyRes(s, d)
  BY <1>6, <1>13 DEF OnlyRes
<1>16. SameRam(s, d)
  BY <1>6, <1>11, <1>13, <1>14 DEF SameRam
<1>17. LessEvidence(s, d)
  BY <1>6, <1>11, <1>13, <1>14 DEF LessEvidence
<1>18. d.res[c].program = q /\ \A b \in Cpus \ {c} : d.res[b].program = s.res[b].program
  BY <1>6, <1>11, <1>13 DEF SameProgram
<1>19. ProgramSet(s, d, c, q)
  BY <1>13, <1>15, <1>16, <1>17, <1>18 DEF ProgramSet
<1>20. CASE ImageEventValid(q)
  <2>1. SnapshotValid(d)
    BY <1>19, <1>20, ProgramSetIsValid DEF ImageEventValid
  <2>2. Accepted(e, s)
    BY <1>1, <1>2, <1>7, <1>20, <2>1 DEF Accepted, EventValid, Raises
  <2>3. t = d
    BY <1>7, <2>2 DEF Transition
  <2>q. QED
    BY <1>2, <1>3, <1>19, <1>20, <2>3
<1>21. CASE ~ImageEventValid(q)
  <2>1. ~Accepted(e, s)
    BY <1>1, <1>2, <1>21 DEF Accepted, EventValid
  <2>q. QED
    BY <1>2, <1>3, <1>21, <2>1 DEF Transition
<1>q. QED
  BY <1>20, <1>21

LEMMA RamEffect ==
    ASSUME NEW s \in Stores, SnapshotValid(s), NEW c \in Cpus, NEW p, NEW v, NEW i, NEW e,
           e = RamImageChanged(c, p, v, i), e.image \in ImageStates, NEW t, t = Transition(e, s)
    PROVE  /\ e.image.path = p /\ e.image.status = v /\ e.image.summary = i
           /\ IF ImageEventValid(e.image) THEN RamSet(s, t, c, e.image) ELSE t = s
<1>1. e.type = "RamImageChanged" /\ e.cpu = c
  BY DEF RamImageChanged
<1>2. PICK q : q = e.image
  OBVIOUS
<1>3. q.path = p /\ q.status = v /\ q.summary = i
  BY <1>2 DEF RamImageChanged
<1>4. PICK m : m = EvidenceInvalidationPolicy(e, s)
  OBVIOUS
<1>5. m = s \/ m = WithoutCrc(s, c)
  BY <1>1, <1>4 DEF EvidenceInvalidationPolicy, WithoutCrc
<1>6. /\ m \in Stores /\ OnlyRes(s, m) /\ SameProgram(s, m) /\ SameRam(s, m) /\ LessEvidence(s, m)
      /\ SameVerify(s, m)
  <2>1. CASE m = s
    BY <2>1 DEF OnlyRes, SameProgram, SameRam, LessEvidence, SameVerify
  <2>2. CASE m = WithoutCrc(s, c)
    BY <2>2, CrcDropped
  <2>q. QED
    BY <1>5, <2>1, <2>2
<1>7. PICK d : d = Candidate(e, s)
  OBVIOUS
<1>8. d = RamImageStatePolicy(e, m)
  BY <1>1, <1>4, <1>7, RamCandidate
<1>9. PICK r : r = [m.res[c] EXCEPT !.ram = q]
  OBVIOUS
<1>10. m.res[c] \in Resources
  BY <1>6 DEF Stores
<1>11. /\ r \in Resources /\ r.ram = q /\ r.program = m.res[c].program
       /\ r.verify = m.res[c].verify /\ r.crc = m.res[c].crc
  BY <1>2, <1>9, <1>10 DEF Resources
<1>12. d = WithOneRes(m, c, r)
  BY <1>1, <1>2, <1>8, <1>9 DEF RamImageStatePolicy, WithOneRes
<1>13. d \in Stores /\ OnlyRes(m, d) /\ d.res[c] = r /\ \A b \in Cpus \ {c} : d.res[b] = m.res[b]
  BY <1>6, <1>11, <1>12, SetOneRes
<1>14. \A b \in Cpus : b = c \/ b \in Cpus \ {c}
  OBVIOUS
<1>15. OnlyRes(s, d)
  BY <1>6, <1>13 DEF OnlyRes
<1>16. SameProgram(s, d) /\ SameVerify(s, d)
  BY <1>6, <1>11, <1>13, <1>14 DEF SameProgram, SameVerify
<1>17. LessEvidence(s, d)
  BY <1>6, <1>11, <1>13, <1>14 DEF LessEvidence
<1>18. d.res[c].ram = q /\ \A b \in Cpus \ {c} : d.res[b].ram = s.res[b].ram
  BY <1>6, <1>11, <1>13 DEF SameRam
<1>19. RamSet(s, d, c, q)
  BY <1>13, <1>15, <1>16, <1>17, <1>18 DEF RamSet
<1>20. CASE ImageEventValid(q)
  <2>1. SnapshotValid(d)
    BY <1>19, <1>20, RamSetIsValid DEF ImageEventValid
  <2>2. Accepted(e, s)
    BY <1>1, <1>2, <1>7, <1>20, <2>1 DEF Accepted, EventValid, Raises
  <2>3. t = d
    BY <1>7, <2>2 DEF Transition
  <2>q. QED
    BY <1>2, <1>3, <1>19, <1>20, <2>3
<1>21. CASE ~ImageEventValid(q)
  <2>1. ~Accepted(e, s)
    BY <1>1, <1>2, <1>21 DEF Accepted, EventValid
  <2>q. QED
    BY <1>2, <1>3, <1>21, <2>1 DEF Transition
<1>q. QED
  BY <1>20, <1>21

LEMMA SectorEffect ==
    ASSUME NEW s \in Stores, NEW c \in Cpus, NEW v \in EraseScopes, NEW k \in Masks, NEW e,
           e = SectorSelectionChanged(c, v, k), NEW t, t = Candidate(e, s)
    PROVE  /\ t \in Stores /\ OnlyRes(s, t) /\ SameProgram(s, t) /\ SameRam(s, t) /\ LessEvidence(s, t)
           /\ SameVerify(s, t)
<1>1. e.type = "SectorSelectionChanged" /\ e.cpu = c /\ e.scope = v /\ e.mask = k
  BY DEF SectorSelectionChanged
<1>2. t = [s EXCEPT !.res[c].scope = v, !.res[c].mask = k]
  BY <1>1, SectorCandidate DEF SectorSelectionPolicy
<1>3. s.res[c] \in Resources
  BY DEF Stores
<1>4. PICK r : r = [s.res[c] EXCEPT !.scope = v]
  OBVIOUS
<1>5. /\ r \in Resources /\ r.program = s.res[c].program /\ r.ram = s.res[c].ram
      /\ r.verify = s.res[c].verify /\ r.crc = s.res[c].crc
  BY <1>3, <1>4 DEF Resources
<1>6. PICK u : u = WithOneRes(s, c, r)
  OBVIOUS
<1>7. u \in Stores /\ OnlyRes(s, u) /\ u.res[c] = r /\ \A b \in Cpus \ {c} : u.res[b] = s.res[b]
  BY <1>5, <1>6, SetOneRes
<1>8. PICK q : q = [r EXCEPT !.mask = k]
  OBVIOUS
<1>9. /\ q \in Resources /\ q.program = r.program /\ q.ram = r.ram
      /\ q.verify = r.verify /\ q.crc = r.crc
  BY <1>5, <1>8 DEF Resources
<1>10. u = [s EXCEPT !.res[c].scope = v]
  BY <1>4, <1>6 DEF WithOneRes
<1>11. t = [u EXCEPT !.res[c].mask = k]
  BY <1>2, <1>10
<1>12. t = WithOneRes(u, c, q)
  BY <1>7, <1>8, <1>11 DEF WithOneRes
<1>13. t \in Stores /\ OnlyRes(u, t) /\ t.res[c] = q /\ \A b \in Cpus \ {c} : t.res[b] = u.res[b]
  BY <1>7, <1>9, <1>12, SetOneRes
<1>14. \A b \in Cpus : b = c \/ b \in Cpus \ {c}
  OBVIOUS
<1>15. /\ t.res[c].program = s.res[c].program /\ t.res[c].ram = s.res[c].ram
       /\ t.res[c].verify = s.res[c].verify /\ t.res[c].crc = s.res[c].crc
       /\ \A b \in Cpus \ {c} : t.res[b] = s.res[b]
  BY <1>5, <1>7, <1>9, <1>13
<1>16. OnlyRes(s, t)
  BY <1>7, <1>13 DEF OnlyRes
<1>q. QED
  BY <1>13, <1>14, <1>15, <1>16 DEF SameProgram, SameRam, SameVerify, LessEvidence

(***************************************************************************)
(* Evidence is earned on the current connection, for the prepared image.   *)
(***************************************************************************)
Earned(s, c, g, i, v) ==
    /\ s.conn # None /\ s.conn.cpu = c /\ s.conn.gen = g
    /\ v \in Evidences /\ v.cpu = c /\ v.gen = g /\ v.id = i

OnlyEarned(s, t, o, c, g, i) ==
    \A b \in Cpus : /\ \/ t.res[b].verify = s.res[b].verify
                       \/ o = "VERIFY" /\ b = c /\ Earned(s, c, g, i, t.res[b].verify)
                    /\ \/ t.res[b].crc = s.res[b].crc
                       \/ o = "RAM_CRC" /\ b = c /\ Earned(s, c, g, i, t.res[b].crc)

LEMMA SucceededEffect ==
    ASSUME NEW s \in Stores, NEW o \in {"VERIFY", "RAM_CRC"}, NEW c \in Cpus, NEW g \in Nat,
           NEW i \in Contents, NEW e,
           e = OperationSucceeded(o, c, g, i), NEW t, t = Candidate(e, s)
    PROVE  /\ t \in Stores /\ OnlyRes(s, t) /\ SameProgram(s, t) /\ SameRam(s, t)
           /\ OnlyEarned(s, t, o, c, g, i)
<1>1. e.type = "OperationSucceeded" /\ e.op = o /\ e.cpu = c /\ e.gen = g /\ e.id = i
  BY DEF OperationSucceeded
<1>2. t = RamCrcEvidencePolicy(e, VerifyEvidencePolicy(e, s))
  BY <1>1, SucceededCandidate
<1>3. PICK v : v = [cpu |-> c, gen |-> g, id |-> i]
  OBVIOUS
<1>4. v \in Evidences /\ v.cpu = c /\ v.gen = g /\ v.id = i /\ Evidence(e) = v
  BY <1>1, <1>3 DEF Evidences, Evidence
<1>5. s.res[c] \in Resources
  BY DEF Stores
<1>6. \A b \in Cpus : b = c \/ b \in Cpus \ {c}
  OBVIOUS
<1>7. CASE t = s
  BY <1>7 DEF OnlyRes, SameProgram, SameRam, OnlyEarned
<1>8. CASE t # s /\ o = "VERIFY"
  <2>1. VerifyEvidencePolicy(e, s) = t
    BY <1>1, <1>2, <1>8 DEF RamCrcEvidencePolicy
  <2>2. PICK r : r = [s.res[c] EXCEPT !.verify = v]
    OBVIOUS
  <2>3. OnCurrentConnection(e, s) /\ t = WithOneRes(s, c, r)
    BY <1>1, <1>4, <1>8, <2>1, <2>2 DEF VerifyEvidencePolicy, EarnsEvidence, WithOneRes
  <2>4. /\ r \in Resources /\ r.verify = v /\ r.crc = s.res[c].crc
        /\ r.program = s.res[c].program /\ r.ram = s.res[c].ram
    BY <1>4, <1>5, <2>2 DEF Resources
  <2>5. t \in Stores /\ OnlyRes(s, t) /\ t.res[c] = r /\ \A b \in Cpus \ {c} : t.res[b] = s.res[b]
    BY <2>3, <2>4, SetOneRes
  <2>6. Earned(s, c, g, i, v)
    BY <1>1, <1>4, <2>3 DEF Earned, OnCurrentConnection
  <2>q. QED
    BY <1>6, <1>8, <2>4, <2>5, <2>6 DEF SameProgram, SameRam, OnlyEarned
<1>9. CASE t # s /\ o = "RAM_CRC"
  <2>1. VerifyEvidencePolicy(e, s) = s
    BY <1>1, <1>9 DEF VerifyEvidencePolicy
  <2>2. PICK r : r = [s.res[c] EXCEPT !.crc = v]
    OBVIOUS
  <2>3. OnCurrentConnection(e, s) /\ t = WithOneRes(s, c, r)
    BY <1>1, <1>2, <1>4, <1>9, <2>1, <2>2 DEF RamCrcEvidencePolicy, EarnsEvidence, WithOneRes
  <2>4. /\ r \in Resources /\ r.crc = v /\ r.verify = s.res[c].verify
        /\ r.program = s.res[c].program /\ r.ram = s.res[c].ram
    BY <1>4, <1>5, <2>2 DEF Resources
  <2>5. t \in Stores /\ OnlyRes(s, t) /\ t.res[c] = r /\ \A b \in Cpus \ {c} : t.res[b] = s.res[b]
    BY <2>3, <2>4, SetOneRes
  <2>6. Earned(s, c, g, i, v)
    BY <1>1, <1>4, <2>3 DEF Earned, OnCurrentConnection
  <2>q. QED
    BY <1>6, <1>9, <2>4, <2>5, <2>6 DEF SameProgram, SameRam, OnlyEarned
<1>q. QED
  BY <1>7, <1>8, <1>9

(***************************************************************************)
(* A new session, a new connection and the end of one leave no evidence    *)
(* and nothing that is fresh but what was read on the connection.          *)
(***************************************************************************)
NothingShown(t) ==
    /\ \A c \in Cpus : /\ t.res[c].verify = None /\ t.res[c].crc = None
                       /\ t.mem[c].freshness = "FRESH" =>
                             t.conn # None /\ t.conn.cpu = c /\ t.conn.gen = t.mem[c].gen
    /\ t.meta.freshness # "FRESH"
    /\ \A g \in Groups : t.diag[g].freshness # "FRESH"

LEMMA NewReadings ==
    /\ NewReading \in MetaReadings /\ NewReading.freshness # "FRESH"
    /\ NewDiagnostics \in [Groups -> DiagReadings]
    /\ \A g \in Groups : NewDiagnostics[g].freshness # "FRESH"
BY DEF NewReading, NewDiagnostics, MetaReadings, DiagReadings, Freshnesses

LEMMA NewParts ==
    /\ NewMemory \in Memories /\ NewMemory.freshness # "FRESH"
    /\ NewImage \in ImageStates /\ Named(NewImage)
    /\ NewResource \in Resources /\ NewResource.verify = None /\ NewResource.crc = None
    /\ NewResource.program = NewImage /\ NewResource.ram = NewImage
<1>1. NewMemory \in Memories /\ NewMemory.freshness # "FRESH"
  BY DEF NewMemory, Memories, Freshnesses
<1>2. NewImage \in ImageStates /\ Named(NewImage)
  BY DEF NewImage, ImageStates, ParseStatuses, Named
<1>3. /\ NewResource \in Resources /\ NewResource.verify = None /\ NewResource.crc = None
      /\ NewResource.program = NewImage /\ NewResource.ram = NewImage
  BY <1>2 DEF NewResource, Resources, EraseScopes
<1>q. QED
  BY <1>1, <1>2, <1>3

LEMMA SessionEffect ==
    ASSUME NEW s \in Stores, NEW e, e = SessionChanged, NEW t, t = Candidate(e, s)
    PROVE  /\ t \in Stores /\ t.gen = s.gen /\ t.conn = s.conn /\ NothingShown(t)
           /\ \A c \in Cpus : t.res[c].program = NewImage /\ t.res[c].ram = NewImage
<1>1. e.type = "SessionChanged"
  BY DEF SessionChanged
<1>2. PICK f : f = [c \in Cpus |-> NewMemory]
  OBVIOUS
<1>3. f \in [Cpus -> Memories] /\ \A c \in Cpus : f[c].freshness # "FRESH"
  BY <1>2, NewParts
<1>4. PICK a : a = MemoryFreshnessPolicy(e, s)
  OBVIOUS
<1>5. a = WithMem(s, f)
  BY <1>1, <1>2, <1>4 DEF MemoryFreshnessPolicy, WithMem
<1>6. a \in Stores /\ OnlyMem(s, a) /\ a.mem = f
  BY <1>3, <1>5, SetMem
<1>7. PICK b : b = MetadataFreshnessPolicy(e, a)
  OBVIOUS
<1>8. b = WithMeta(a, NewReading)
  BY <1>1, <1>7 DEF MetadataFreshnessPolicy, WithMeta
<1>9. b \in Stores /\ OnlyMeta(a, b) /\ b.meta = NewReading
  BY <1>6, <1>8, NewReadings, SetMeta
<1>10. PICK d : d = DiagnosticsFreshnessPolicy(e, b)
  OBVIOUS
<1>11. d = WithDiag(b, NewDiagnostics)
  BY <1>1, <1>10 DEF DiagnosticsFreshnessPolicy, WithDiag
<1>12. d \in Stores /\ OnlyDiag(b, d) /\ d.diag = NewDiagnostics
  BY <1>9, <1>11, NewReadings, SetDiag
<1>13. PICK h : h = [c \in Cpus |-> [d.res[c] EXCEPT !.verify = None, !.crc = None]]
  OBVIOUS
<1>14. h \in [Cpus -> Resources]
  <2>1. d.res \in [Cpus -> Resources]
    BY <1>12 DEF Stores
  <2>2. ASSUME NEW c \in Cpus PROVE [d.res[c] EXCEPT !.verify = None, !.crc = None] \in Resources
    BY <2>1 DEF Resources
  <2>q. QED
    BY <1>13, <2>2
<1>15. PICK u : u = EvidenceInvalidationPolicy(e, d)
  OBVIOUS
<1>16. u = WithRes(d, h)
  BY <1>1, <1>13, <1>15 DEF EvidenceInvalidationPolicy, WithRes
<1>17. u \in Stores /\ OnlyRes(d, u)
  BY <1>12, <1>14, <1>16, SetRes
<1>18. PICK n : n = [c \in Cpus |-> NewResource]
  OBVIOUS
<1>19. n \in [Cpus -> Resources] /\ \A c \in Cpus : n[c] = NewResource
  BY <1>18, NewParts
<1>20. t = SessionStatePolicy(e, u)
  BY <1>1, <1>4, <1>7, <1>10, <1>15, SessionCandidate
<1>21. t = WithRes(u, n)
  BY <1>1, <1>18, <1>20 DEF SessionStatePolicy, WithRes
<1>22. t \in Stores /\ OnlyRes(u, t) /\ t.res = n
  BY <1>17, <1>19, <1>21, SetRes
<1>23. /\ t.gen = s.gen /\ t.conn = s.conn /\ t.mem = f /\ t.meta = NewReading
       /\ t.diag = NewDiagnostics
  BY <1>6, <1>9, <1>12, <1>17, <1>22 DEF OnlyMem, OnlyMeta, OnlyDiag, OnlyRes
<1>24. NothingShown(t)
  BY <1>3, <1>19, <1>22, <1>23, NewReadings, NewParts DEF NothingShown
<1>q. QED
  BY <1>19, <1>22, <1>23, <1>24, NewParts

MemoryAfter(d) ==
    [c \in Cpus |-> IF /\ d.mem[c].words # None
                       /\ \/ d.conn = None
                          \/ d.conn.cpu # c
                          \/ d.mem[c].gen # d.conn.gen
                    THEN [d.mem[c] EXCEPT !.freshness = "STALE"]
                    ELSE d.mem[c]]

LEMMA MemoryAfterConnection ==
    ASSUME NEW d \in Stores, NEW f, f = MemoryAfter(d), \A c \in Cpus : MemoryValid(d.mem[c])
    PROVE  /\ f \in [Cpus -> Memories]
           /\ \A c \in Cpus : f[c].freshness = "FRESH" =>
                 d.conn # None /\ d.conn.cpu = c /\ d.conn.gen = f[c].gen
<1>1. d.mem \in [Cpus -> Memories]
  BY DEF Stores
<1>2. ASSUME NEW c \in Cpus
      PROVE  /\ f[c] \in Memories
             /\ f[c].freshness = "FRESH" => d.conn # None /\ d.conn.cpu = c /\ d.conn.gen = f[c].gen
  <2>1. PICK m : m = d.mem[c]
    OBVIOUS
  <2>2. PICK q : q = [m EXCEPT !.freshness = "STALE"]
    OBVIOUS
  <2>3. m \in Memories
    BY <1>1, <2>1
  <2>4. q \in Memories /\ q.freshness = "STALE"
    BY <2>2, <2>3 DEF Memories, Freshnesses
  <2>5. f[c] = IF m.words # None /\ (d.conn = None \/ d.conn.cpu # c \/ m.gen # d.conn.gen) THEN q ELSE m
    BY <2>1, <2>2 DEF MemoryAfter
  <2>6. m.freshness = "FRESH" => m.words # None
    BY <2>1 DEF MemoryValid
  <2>q. QED
    BY <2>3, <2>4, <2>5, <2>6
<1>3. f = [c \in Cpus |-> f[c]]
  BY DEF MemoryAfter
<1>q. QED
  BY <1>2, <1>3

ClearedEvidence(d) == [c \in Cpus |-> [d.res[c] EXCEPT !.verify = None, !.crc = None]]

LEMMA EvidenceCleared ==
    ASSUME NEW d \in Stores, NEW h, h = ClearedEvidence(d)
    PROVE  /\ h \in [Cpus -> Resources]
           /\ \A c \in Cpus : /\ h[c].verify = None /\ h[c].crc = None
                              /\ h[c].program = d.res[c].program /\ h[c].ram = d.res[c].ram
<1>1. d.res \in [Cpus -> Resources]
  BY DEF Stores
<1>2. ASSUME NEW c \in Cpus
      PROVE  /\ h[c] \in Resources /\ h[c].verify = None /\ h[c].crc = None
             /\ h[c].program = d.res[c].program /\ h[c].ram = d.res[c].ram
  <2>1. PICK r : r = d.res[c]
    OBVIOUS
  <2>2. PICK q : q = [r EXCEPT !.verify = None, !.crc = None]
    OBVIOUS
  <2>3. r \in Resources
    BY <1>1, <2>1
  <2>4. q \in Resources /\ q.verify = None /\ q.crc = None /\ q.program = r.program /\ q.ram = r.ram
    BY <2>2, <2>3 DEF Resources
  <2>5. h[c] = q
    BY <2>1, <2>2 DEF ClearedEvidence
  <2>q. QED
    BY <2>1, <2>4, <2>5
<1>3. h = [c \in Cpus |-> h[c]]
  BY DEF ClearedEvidence
<1>q. QED
  BY <1>2, <1>3

(***************************************************************************)
(* The policies after the one that sets the connection.                    *)
(***************************************************************************)
LEMMA ConnectionTail ==
    ASSUME NEW d \in Stores, NEW e, e.type \in {"ConnectionOpened", "ConnectionClosed"},
           \A c \in Cpus : MemoryValid(d.mem[c]), NEW t,
           t = EvidenceInvalidationPolicy(e, DiagnosticsFreshnessPolicy(e, MetadataFreshnessPolicy(e,
                   MemoryFreshnessPolicy(e, d))))
    PROVE  /\ t \in Stores /\ t.gen = d.gen /\ t.conn = d.conn /\ NothingShown(t)
           /\ SameProgram(d, t) /\ SameRam(d, t)
<1>1. PICK f : f = MemoryAfter(d)
  OBVIOUS
<1>2. /\ f \in [Cpus -> Memories]
      /\ \A c \in Cpus : f[c].freshness = "FRESH" => d.conn # None /\ d.conn.cpu = c /\ d.conn.gen = f[c].gen
  BY <1>1, MemoryAfterConnection
<1>3. PICK a : a = MemoryFreshnessPolicy(e, d)
  OBVIOUS
<1>4. a = WithMem(d, f)
  <2>1. a = [d EXCEPT !.mem = MemoryAfter(d)]
    BY <1>3 DEF MemoryFreshnessPolicy, MemoryAfter
  <2>q. QED
    BY <1>1, <2>1 DEF WithMem
<1>5. a \in Stores /\ OnlyMem(d, a) /\ a.mem = f
  BY <1>2, <1>4, SetMem
<1>6. PICK b : b = MetadataFreshnessPolicy(e, a)
  OBVIOUS
<1>7. b = WithMeta(a, NewReading)
  BY <1>6 DEF MetadataFreshnessPolicy, WithMeta
<1>8. b \in Stores /\ OnlyMeta(a, b) /\ b.meta = NewReading
  BY <1>5, <1>7, NewReadings, SetMeta
<1>9. PICK g : g = DiagnosticsFreshnessPolicy(e, b)
  OBVIOUS
<1>10. g = WithDiag(b, NewDiagnostics)
  BY <1>9 DEF DiagnosticsFreshnessPolicy, WithDiag
<1>11. g \in Stores /\ OnlyDiag(b, g) /\ g.diag = NewDiagnostics
  BY <1>8, <1>10, NewReadings, SetDiag
<1>12. PICK h : h = ClearedEvidence(g)
  OBVIOUS
<1>13. /\ h \in [Cpus -> Resources]
       /\ \A c \in Cpus : /\ h[c].verify = None /\ h[c].crc = None
                          /\ h[c].program = g.res[c].program /\ h[c].ram = g.res[c].ram
  BY <1>11, <1>12, EvidenceCleared
<1>14. t = WithRes(g, h)
  <2>1. t = EvidenceInvalidationPolicy(e, g)
    BY <1>3, <1>6, <1>9
  <2>2. t = [g EXCEPT !.res = ClearedEvidence(g)]
    BY <2>1 DEF EvidenceInvalidationPolicy, ClearedEvidence
  <2>q. QED
    BY <1>12, <2>2 DEF WithRes
<1>15. t \in Stores /\ OnlyRes(g, t) /\ t.res = h
  BY <1>11, <1>13, <1>14, SetRes
<1>16. /\ t.gen = d.gen /\ t.conn = d.conn /\ t.mem = f /\ t.meta = NewReading
       /\ t.diag = NewDiagnostics /\ g.res = d.res
  BY <1>5, <1>8, <1>11, <1>15 DEF OnlyMem, OnlyMeta, OnlyDiag, OnlyRes
<1>17. NothingShown(t)
  BY <1>2, <1>13, <1>15, <1>16, NewReadings DEF NothingShown
<1>18. SameProgram(d, t) /\ SameRam(d, t)
  BY <1>13, <1>15, <1>16 DEF SameProgram, SameRam
<1>q. QED
  BY <1>15, <1>16, <1>17, <1>18

LEMMA OpenedEffect ==
    ASSUME NEW s \in Stores, SnapshotValid(s), NEW c \in Cpus, NEW e, e = ConnectionOpened(c),
           NEW t, t = Candidate(e, s)
    PROVE  /\ t \in Stores /\ t.gen = s.gen + 1 /\ NothingShown(t)
           /\ SameProgram(s, t) /\ SameRam(s, t)
<1>1. e.type = "ConnectionOpened" /\ e.cpu = c
  BY DEF ConnectionOpened
<1>2. PICK a : a = [s EXCEPT !.gen = s.gen + 1]
  OBVIOUS
<1>3. a \in Stores /\ a.gen = s.gen + 1 /\ a.res = s.res /\ a.mem = s.mem
  BY <1>2 DEF Stores
<1>4. PICK k : k = [gen |-> a.gen, cpu |-> c]
  OBVIOUS
<1>5. k \in Connections
  BY <1>3, <1>4 DEF Connections, Stores
<1>6. PICK d : d = [a EXCEPT !.conn = k]
  OBVIOUS
<1>7. d \in Stores /\ d.gen = s.gen + 1 /\ d.res = s.res /\ d.mem = s.mem
  BY <1>3, <1>5, <1>6 DEF Stores
<1>8. d = ConnectionStatePolicy(e, ConnectionGenerationPolicy(e, s))
  BY <1>1, <1>2, <1>4, <1>6 DEF ConnectionStatePolicy, ConnectionGenerationPolicy
<1>9. \A b \in Cpus : MemoryValid(d.mem[b])
  BY <1>7 DEF SnapshotValid
<1>10. t = EvidenceInvalidationPolicy(e, DiagnosticsFreshnessPolicy(e, MetadataFreshnessPolicy(e,
                   MemoryFreshnessPolicy(e, d))))
  BY <1>1, <1>8, ConnectionCandidate
<1>11. /\ t \in Stores /\ t.gen = d.gen /\ NothingShown(t) /\ SameProgram(d, t) /\ SameRam(d, t)
  BY <1>1, <1>7, <1>9, <1>10, ConnectionTail
<1>q. QED
  BY <1>7, <1>11 DEF SameProgram, SameRam

LEMMA ClosedEffect ==
    ASSUME NEW s \in Stores, SnapshotValid(s), NEW g, NEW e, e = ConnectionClosed(g),
           NEW t, t = Candidate(e, s)
    PROVE  /\ t \in Stores /\ t.gen = s.gen /\ t.conn = None /\ NothingShown(t)
           /\ SameProgram(s, t) /\ SameRam(s, t)
<1>1. e.type = "ConnectionClosed"
  BY DEF ConnectionClosed
<1>2. PICK d : d = [s EXCEPT !.conn = None]
  OBVIOUS
<1>3. d \in Stores /\ d.gen = s.gen /\ d.conn = None /\ d.res = s.res /\ d.mem = s.mem
  BY <1>2 DEF Stores
<1>4. d = ConnectionStatePolicy(e, ConnectionGenerationPolicy(e, s))
  BY <1>1, <1>2 DEF ConnectionStatePolicy, ConnectionGenerationPolicy
<1>5. \A b \in Cpus : MemoryValid(d.mem[b])
  BY <1>3 DEF SnapshotValid
<1>6. t = EvidenceInvalidationPolicy(e, DiagnosticsFreshnessPolicy(e, MetadataFreshnessPolicy(e,
                   MemoryFreshnessPolicy(e, d))))
  BY <1>1, <1>4, ConnectionCandidate
<1>7. /\ t \in Stores /\ t.gen = d.gen /\ t.conn = d.conn /\ NothingShown(t)
      /\ SameProgram(d, t) /\ SameRam(d, t)
  BY <1>1, <1>3, <1>5, <1>6, ConnectionTail
<1>q. QED
  BY <1>3, <1>7 DEF SameProgram, SameRam

-----------------------------------------------------------------------------
(***************************************************************************)
(* Steps that show nothing new.                                            *)
(***************************************************************************)
Calm(s, t) ==
    /\ t.gen = s.gen /\ t.conn = s.conn /\ LessEvidence(s, t)
    /\ MemoryOfConnection(s, t) /\ DiagOfConnection(s, t)
    /\ t.meta = s.meta \/ t.meta.freshness # "FRESH"

DevicesKeep(d, e) ==
    \A c \in Cpus : /\ e[c].flash = d[c].flash
                    /\ e[c].link => /\ d[c].link /\ e[c].journal = d[c].journal
                                    /\ e[c].ram \in {d[c].ram, "service"}

LEMMA ConnectionEquals ==
    ASSUME NEW s \in Stores, NEW g, NEW c
    PROVE  s.conn # None /\ s.conn.cpu = c /\ s.conn.gen = g => s.conn = [gen |-> g, cpu |-> c]
<1>1. s.conn \in Connections \cup {None}
  BY DEF Stores
<1>2. PICK k : k = s.conn
  OBVIOUS
<1>3. k \in Connections => k = [gen |-> k.gen, cpu |-> k.cpu]
  BY DEF Connections
<1>q. QED
  BY <1>1, <1>2, <1>3

LEMMA MemoryTruth ==
    ASSUME rt \in Stores, rt' \in Stores, FreshBelongsToConnection,
           rt'.conn = rt.conn, MemoryOfConnection(rt, rt')
    PROVE  \A c \in Cpus : rt'.mem[c].freshness = "FRESH" => rt'.conn = [gen |-> rt'.mem[c].gen, cpu |-> c]
<1>1. SUFFICES ASSUME NEW c \in Cpus, rt'.mem[c].freshness = "FRESH"
               PROVE  rt'.conn = [gen |-> rt'.mem[c].gen, cpu |-> c]
  OBVIOUS
<1>2. PICK g : g = rt'.mem[c].gen
  OBVIOUS
<1>3. CASE rt'.mem[c] = rt.mem[c]
  <2>1. rt.conn = [gen |-> rt.mem[c].gen, cpu |-> c]
    BY <1>1, <1>3 DEF FreshBelongsToConnection
  <2>q. QED
    BY <1>3, <2>1
<1>4. CASE rt'.mem[c] # rt.mem[c]
  <2>1. rt.conn # None /\ rt.conn.cpu = c /\ rt.conn.gen = g
    BY <1>1, <1>2, <1>4 DEF MemoryOfConnection
  <2>2. rt.conn = [gen |-> g, cpu |-> c]
    BY <2>1, ConnectionEquals
  <2>q. QED
    BY <1>2, <2>2
<1>q. QED
  BY <1>3, <1>4

(***************************************************************************)
(* What is shown stays true when nothing new is shown and the device does  *)
(* not change behind it.                                                   *)
(***************************************************************************)
LEMMA TruthCalm ==
    ASSUME rt \in Stores, rt' \in Stores, ShownIsTrue, Calm(rt, rt'), DevicesKeep(dev, dev')
    PROVE  ShownIsTrue'
<1>1. EvidenceIsTrue'
  <2>1. SUFFICES ASSUME NEW c \in Cpus, rt'.res[c].verify # None
                 PROVE  /\ rt'.conn = [gen |-> rt'.res[c].verify.gen, cpu |-> c]
                        /\ dev'[c].flash = rt'.res[c].verify.id
    BY DEF EvidenceIsTrue
  <2>2. rt'.res[c].verify = rt.res[c].verify /\ rt.res[c].verify # None
    BY <2>1 DEF Calm, LessEvidence
  <2>3. rt.conn = [gen |-> rt.res[c].verify.gen, cpu |-> c] /\ dev[c].flash = rt.res[c].verify.id
    BY <2>2 DEF ShownIsTrue, EvidenceIsTrue
  <2>q. QED
    BY <2>2, <2>3 DEF Calm, DevicesKeep
<1>2. RamEvidenceIsTrue'
  <2>1. SUFFICES ASSUME NEW c \in Cpus, rt'.res[c].crc # None
                 PROVE  /\ rt'.conn = [gen |-> rt'.res[c].crc.gen, cpu |-> c]
                        /\ dev'[c].link => dev'[c].ram \in {rt'.res[c].crc.id, "service"}
    BY DEF RamEvidenceIsTrue
  <2>2. rt'.res[c].crc = rt.res[c].crc /\ rt.res[c].crc # None
    BY <2>1 DEF Calm, LessEvidence
  <2>3. /\ rt.conn = [gen |-> rt.res[c].crc.gen, cpu |-> c]
        /\ dev[c].link => dev[c].ram \in {rt.res[c].crc.id, "service"}
    BY <2>2 DEF ShownIsTrue, RamEvidenceIsTrue
  <2>q. QED
    BY <2>2, <2>3 DEF Calm, DevicesKeep
<1>3. FreshBelongsToConnection'
  <2>1. \A c \in Cpus : rt'.mem[c].freshness = "FRESH" => rt'.conn = [gen |-> rt'.mem[c].gen, cpu |-> c]
    BY MemoryTruth DEF ShownIsTrue, Calm
  <2>2. rt'.meta.freshness = "FRESH" => Connected'
    BY DEF ShownIsTrue, FreshBelongsToConnection, Calm, Connected
  <2>3. \A g \in Groups : rt'.diag[g].freshness = "FRESH" => Connected'
    BY DEF ShownIsTrue, FreshBelongsToConnection, Calm, DiagOfConnection, Connected
  <2>q. QED
    BY <2>1, <2>2, <2>3 DEF FreshBelongsToConnection
<1>4. FreshMetadataIsTrue'
  <2>1. SUFFICES ASSUME rt'.meta.freshness = "FRESH", dev'[rt'.conn.cpu].link
                 PROVE  rt'.meta.value = dev'[rt'.conn.cpu].journal
    BY DEF FreshMetadataIsTrue, Cpu
  <2>2. rt'.meta = rt.meta /\ rt'.conn = rt.conn
    BY <2>1 DEF Calm
  <2>3. rt.conn # None
    BY <2>1, <2>2 DEF ShownIsTrue, FreshBelongsToConnection, Connected
  <2>4. rt.conn.cpu \in Cpus
    BY <2>3 DEF Stores, Connections
  <2>5. dev[rt.conn.cpu].link /\ dev'[rt.conn.cpu].journal = dev[rt.conn.cpu].journal
    BY <2>1, <2>2, <2>4 DEF DevicesKeep
  <2>6. rt.meta.value = dev[rt.conn.cpu].journal
    BY <2>1, <2>2, <2>5 DEF ShownIsTrue, FreshMetadataIsTrue, Cpu
  <2>q. QED
    BY <2>2, <2>5, <2>6
<1>q. QED
  BY <1>1, <1>2, <1>3, <1>4 DEF ShownIsTrue

LEMMA TruthNothing ==
    ASSUME rt' \in Stores, NothingShown(rt')
    PROVE  ShownIsTrue'
<1>1. EvidenceIsTrue'
  BY DEF EvidenceIsTrue, NothingShown
<1>2. RamEvidenceIsTrue'
  BY DEF RamEvidenceIsTrue, NothingShown
<1>3. FreshMetadataIsTrue'
  BY DEF FreshMetadataIsTrue, NothingShown
<1>4. FreshBelongsToConnection'
  <2>1. ASSUME NEW c \in Cpus, rt'.mem[c].freshness = "FRESH"
        PROVE  rt'.conn = [gen |-> rt'.mem[c].gen, cpu |-> c]
    <3>1. PICK g : g = rt'.mem[c].gen
      OBVIOUS
    <3>2. rt'.conn # None /\ rt'.conn.cpu = c /\ rt'.conn.gen = g
      BY <2>1, <3>1 DEF NothingShown
    <3>q. QED
      BY <3>1, <3>2, ConnectionEquals
  <2>q. QED
    BY <2>1 DEF FreshBelongsToConnection, NothingShown
<1>q. QED
  BY <1>1, <1>2, <1>3, <1>4 DEF ShownIsTrue

-----------------------------------------------------------------------------
LEMMA NoneFacts ==
    /\ None \notin {"queued", "image", "service", "device", "refresh", "done", "ask"}
    /\ None # "METADATA_READBACK_MISMATCH"
BY NoneIsApart DEF ActiveStages, ErrorCodes

LEMMA NoTaskParts ==
    ASSUME job' = NoJob, ui'.pending # NoContext => ui'.pending.kind \in WriteKinds
    PROVE  TaskParts'
<1>1. job'.stage = None /\ job'.result = None
  BY DEF NoJob
<1>2. JobIsSound'
  BY <1>1 DEF JobIsSound, Stages
<1>3. Announced' /\ Checked' /\ Pending'
  BY <1>1, NoneFacts DEF Announced, Checked, Pending, StageFits
<1>4. NoFalseMismatch'
  BY <1>1, NoneFacts DEF NoFalseMismatch
<1>q. QED
  BY <1>2, <1>3, <1>4 DEF TaskParts

(***************************************************************************)
(* A step beside the task: a file, the device, the RAM image or the        *)
(* memory view changes.                                                    *)
(***************************************************************************)
SameTask(j, k) == k.stage = j.stage /\ k.ctx = j.ctx /\ k.result = j.result /\ k.reason = j.reason
SameInputs(b, a) == a.prog = b.prog /\ a.tool = b.tool /\ a.svc = b.svc

LEMMA BesideParts ==
    ASSUME TaskTypes, JobIsSound, Announced, Checked, Pending, NoFalseMismatch,
           IsJob(job'), job'.stage = None => job' = job,
           SameTask(job, job'), ui' = ui, SameInputs(be, be'), DevicesKeep(dev, dev'),
           rt'.conn = rt.conn, SameProgram(rt, rt'), SameVerify(rt, rt'), LessEvidence(rt, rt'),
           rt'.meta = rt.meta \/ rt'.meta.freshness # "FRESH"
    PROVE  TaskParts'
<1>0. job'.stage = job.stage /\ job'.ctx = job.ctx /\ job'.result = job.result /\ job'.reason = job.reason
  BY DEF SameTask
<1>1. JobIsSound'
  BY <1>0 DEF JobIsSound, OnConnection
<1>2. CASE job.stage = None
  <2>1. job'.stage = None
    BY <1>0, <1>2
  <2>q. QED
    BY <1>0, <1>1, <2>1, NoneFacts DEF TaskParts, Announced, Checked, Pending, NoFalseMismatch, StageFits
<1>3. CASE job.stage # None
  <2>0. job.ctx.cpu \in Cpus
    BY <1>3 DEF JobIsSound, ContextIsSound
  <2>1. Announced'
    BY <1>0, <2>0 DEF Announced, LessEvidence
  <2>2. Checked'
    <3>1. rt'.res[job.ctx.cpu].verify = rt.res[job.ctx.cpu].verify
      BY <2>0 DEF SameVerify
    <3>2. dev'[job.ctx.cpu].link =>
            dev[job.ctx.cpu].link /\ dev'[job.ctx.cpu].journal = dev[job.ctx.cpu].journal
      BY <2>0 DEF DevicesKeep
    <3>q. QED
      BY <1>0, <3>1, <3>2 DEF Checked
  <2>3. Pending'
    <3>1. rt'.res[job.ctx.cpu].program = rt.res[job.ctx.cpu].program
      BY <2>0 DEF SameProgram
    <3>2. be'.prog = be.prog /\ be'.tool = be.tool /\ be'.svc = be.svc
      BY DEF SameInputs
    <3>3. SUFFICES ASSUME job.ctx.kind \in FlashKinds \cup AppendKinds
                   PROVE  /\ job.stage \in {"queued", "image", "service", "device", "refresh"} =>
                                context_current(job.ctx, rt', be')
                          /\ job.stage \in {"done", "ask"} => shown(job.ctx, job.result, rt', be')
      BY <1>0 DEF Pending
    <3>4. program_inputs_current(job.ctx, rt', be') = program_inputs_current(job.ctx, rt, be)
      BY <3>1, <3>2 DEF program_inputs_current
    <3>5. same_connection(job.ctx, rt') = same_connection(job.ctx, rt)
      BY DEF same_connection
    <3>6. non_service_context_current(job.ctx, rt', be') = non_service_context_current(job.ctx, rt, be)
      BY <3>2, <3>4, <3>5 DEF non_service_context_current
    <3>7. context_current(job.ctx, rt', be') = context_current(job.ctx, rt, be)
      BY <3>2, <3>6 DEF context_current
    <3>8. current_service_failure(job.ctx, job.result, rt', be')
            = current_service_failure(job.ctx, job.result, rt, be)
      BY <3>2, <3>6 DEF current_service_failure
    <3>9. current_program_failure(job.ctx, job.result, rt', be')
            = current_program_failure(job.ctx, job.result, rt, be)
      BY <3>1, <3>2, <3>5 DEF current_program_failure
    <3>10. shown(job.ctx, job.result, rt', be') = shown(job.ctx, job.result, rt, be)
      BY <3>3, <3>7, <3>8, <3>9
         DEF shown, flash_task_finished, metadata_task_finished, FlashKinds, AppendKinds
    <3>q. QED
      BY <3>3, <3>7, <3>10 DEF Pending
  <2>q. QED
    BY <1>0, <1>1, <2>1, <2>2, <2>3 DEF TaskParts, NoFalseMismatch
<1>q. QED
  BY <1>2, <1>3

-----------------------------------------------------------------------------
(***************************************************************************)
(* The events that show nothing new, as steps of the store.                *)
(***************************************************************************)
SoundStep(s, t) == t \in Stores /\ SnapshotValid(t) /\ AllNamed(t) /\ Calm(s, t)

LEMMA SameStore ==
    ASSUME NEW s \in Stores, SnapshotValid(s), AllNamed(s)
    PROVE  SoundStep(s, s) /\ SameProgram(s, s) /\ SameRam(s, s) /\ SameVerify(s, s) /\ LessEvidence(s, s)
BY DEF SoundStep, Calm, LessEvidence, MemoryOfConnection, DiagOfConnection, SameProgram, SameRam, SameVerify

LEMMA ImageRecord ==
    ASSUME NEW p \in Files \cup {None}, NEW v \in ParseStatuses, NEW i \in Contents \cup {None}, NEW c, NEW e,
           e = ProgramImageChanged(c, p, v, i) \/ e = RamImageChanged(c, p, v, i)
    PROVE  e.image \in ImageStates
<1>1. PICK q : q = [path |-> p, summary |-> i, status |-> v]
  OBVIOUS
<1>2. q \in ImageStates
  BY <1>1 DEF ImageStates
<1>3. e.image = q
  BY <1>1 DEF ProgramImageChanged, RamImageChanged
<1>q. QED
  BY <1>2, <1>3

LEMMA ProgramStep ==
    ASSUME NEW s \in Stores, SnapshotValid(s), AllNamed(s), NEW c \in Cpus, NEW p \in Files \cup {None},
           NEW v \in ParseStatuses, NEW i \in Contents \cup {None}, NEW e,
           e = ProgramImageChanged(c, p, v, i), NEW t, t = Transition(e, s)
    PROVE  SoundStep(s, t) /\ SameRam(s, t)
<1>0. e.image \in ImageStates
  BY ImageRecord
<1>1. e.image.path = p /\ e.image.status = v
  BY <1>0, ProgramEffect
<1>2. CASE ImageEventValid(e.image)
  <2>1. ProgramSet(s, t, c, e.image)
    BY <1>0, <1>2, ProgramEffect
  <2>2. SnapshotValid(t)
    BY TransitionValid
  <2>3. Named(e.image)
    BY <1>2 DEF ImageEventValid, Named
  <2>4. AllNamed(t)
    BY <2>1, <2>3 DEF ProgramSet, SameRam, AllNamed
  <2>5. t \in Stores /\ Calm(s, t) /\ SameRam(s, t)
    BY <2>1 DEF ProgramSet, OnlyRes, Calm, MemoryOfConnection, DiagOfConnection
  <2>q. QED
    BY <2>2, <2>4, <2>5 DEF SoundStep
<1>3. CASE ~ImageEventValid(e.image)
  <2>1. t = s
    BY <1>0, <1>3, ProgramEffect
  <2>q. QED
    BY <2>1, SameStore
<1>q. QED
  BY <1>2, <1>3

LEMMA RamImageStep ==
    ASSUME NEW s \in Stores, SnapshotValid(s), AllNamed(s), NEW c \in Cpus, NEW p \in Files \cup {None},
           NEW v \in ParseStatuses, NEW i \in Contents \cup {None}, NEW e,
           e = RamImageChanged(c, p, v, i), NEW t, t = Transition(e, s)
    PROVE  SoundStep(s, t) /\ SameProgram(s, t) /\ SameVerify(s, t)
<1>0. e.image \in ImageStates
  BY ImageRecord
<1>1. e.image.path = p /\ e.image.status = v
  BY <1>0, RamEffect
<1>2. CASE ImageEventValid(e.image)
  <2>1. RamSet(s, t, c, e.image)
    BY <1>0, <1>2, RamEffect
  <2>2. SnapshotValid(t)
    BY TransitionValid
  <2>3. Named(e.image)
    BY <1>2 DEF ImageEventValid, Named
  <2>4. AllNamed(t)
    BY <2>1, <2>3 DEF RamSet, SameProgram, AllNamed
  <2>5. t \in Stores /\ Calm(s, t) /\ SameProgram(s, t) /\ SameVerify(s, t)
    BY <2>1 DEF RamSet, OnlyRes, Calm, MemoryOfConnection, DiagOfConnection
  <2>q. QED
    BY <2>2, <2>4, <2>5 DEF SoundStep
<1>3. CASE ~ImageEventValid(e.image)
  <2>1. t = s
    BY <1>0, <1>3, RamEffect
  <2>q. QED
    BY <2>1, SameStore
<1>q. QED
  BY <1>2, <1>3

LEMMA OtherStep ==
    ASSUME NEW s \in Stores, SnapshotValid(s), AllNamed(s), NEW e, NEW t, t = Transition(e, s), NEW d,
           d = Candidate(e, s), d \in Stores, SameProgram(s, d), SameRam(s, d), SameVerify(s, d), Calm(s, d)
    PROVE  SoundStep(s, t) /\ SameProgram(s, t) /\ SameRam(s, t) /\ SameVerify(s, t)
<1>1. SnapshotValid(t)
  BY TransitionValid
<1>2. AllNamed(d)
  BY DEF SameProgram, SameRam, AllNamed
<1>3. t = s \/ t = d
  BY TransitionCases
<1>q. QED
  BY <1>1, <1>2, <1>3, SameStore DEF SoundStep

LEMMA MemoryStep ==
    ASSUME NEW s \in Stores, SnapshotValid(s), AllNamed(s), NEW c \in Cpus, NEW g \in Nat, NEW e,
           \/ e = MemoryCleared(c)
           \/ e = MemoryReadSucceeded(c, g, "words")
           \/ e = MemoryReadFailed(c, g),
           NEW t, t = Transition(e, s)
    PROVE  SoundStep(s, t) /\ SameProgram(s, t) /\ SameRam(s, t) /\ SameVerify(s, t)
<1>1. PICK d : d = Candidate(e, s)
  OBVIOUS
<1>2. d \in Stores /\ OnlyMem(s, d) /\ MemoryOfConnection(s, d)
  BY <1>1, MemoryEffect
<1>3. SameProgram(s, d) /\ SameRam(s, d) /\ SameVerify(s, d) /\ Calm(s, d)
  BY <1>2 DEF OnlyMem, SameProgram, SameRam, SameVerify, Calm, LessEvidence, DiagOfConnection
<1>q. QED
  BY <1>1, <1>2, <1>3, OtherStep

LEMMA MetadataFailStep ==
    ASSUME NEW s \in Stores, SnapshotValid(s), AllNamed(s), NEW c \in Cpus, NEW g \in Nat, NEW e,
           e = MetadataReadFailed(c, g), NEW t, t = Transition(e, s)
    PROVE  SoundStep(s, t) /\ SameProgram(s, t) /\ SameRam(s, t) /\ SameVerify(s, t)
<1>1. PICK d : d = Candidate(e, s)
  OBVIOUS
<1>2. d \in Stores /\ OnlyMeta(s, d) /\ (d.meta = s.meta \/ d.meta.freshness # "FRESH")
  BY <1>1, MetadataFailEffect
<1>3. SameProgram(s, d) /\ SameRam(s, d) /\ SameVerify(s, d) /\ Calm(s, d)
  BY <1>2 DEF OnlyMeta, SameProgram, SameRam, SameVerify, Calm, LessEvidence, DiagOfConnection,
              MemoryOfConnection
<1>q. QED
  BY <1>1, <1>2, <1>3, OtherStep

LEMMA DiagnosticStep ==
    ASSUME NEW s \in Stores, SnapshotValid(s), AllNamed(s), NEW c \in Cpus, NEW g \in Nat, NEW k \in Groups,
           NEW e, \/ e = DiagnosticReadSucceeded(c, g, k, "reading")
                  \/ e = DiagnosticReadFailed(c, g, k),
           NEW t, t = Transition(e, s)
    PROVE  SoundStep(s, t) /\ SameProgram(s, t) /\ SameRam(s, t) /\ SameVerify(s, t)
<1>1. PICK d : d = Candidate(e, s)
  OBVIOUS
<1>2. d \in Stores /\ OnlyDiag(s, d) /\ DiagOfConnection(s, d)
  BY <1>1, DiagnosticEffect
<1>3. SameProgram(s, d) /\ SameRam(s, d) /\ SameVerify(s, d) /\ Calm(s, d)
  BY <1>2 DEF OnlyDiag, SameProgram, SameRam, SameVerify, Calm, LessEvidence, MemoryOfConnection
<1>q. QED
  BY <1>1, <1>2, <1>3, OtherStep

LEMMA SectorStep ==
    ASSUME NEW s \in Stores, SnapshotValid(s), AllNamed(s), NEW c \in Cpus, NEW v \in EraseScopes,
           NEW k \in Masks, NEW e, e = SectorSelectionChanged(c, v, k), NEW t, t = Transition(e, s)
    PROVE  SoundStep(s, t) /\ SameProgram(s, t) /\ SameRam(s, t) /\ SameVerify(s, t)
<1>1. PICK d : d = Candidate(e, s)
  OBVIOUS
<1>2. /\ d \in Stores /\ OnlyRes(s, d) /\ SameProgram(s, d) /\ SameRam(s, d) /\ LessEvidence(s, d)
      /\ SameVerify(s, d)
  BY <1>1, SectorEffect
<1>3. Calm(s, d)
  BY <1>2 DEF OnlyRes, Calm, MemoryOfConnection, DiagOfConnection
<1>q. QED
  BY <1>1, <1>2, <1>3, OtherStep

LEMMA WriteStartedStep ==
    ASSUME NEW s \in Stores, SnapshotValid(s), AllNamed(s), NEW c \in Cpus, NEW g \in Nat, NEW e,
           e = MetadataWriteStarted(c, g), NEW t, t = Transition(e, s)
    PROVE  /\ SoundStep(s, t) /\ SameProgram(s, t) /\ SameRam(s, t) /\ SameVerify(s, t)
           /\ s.conn # None /\ s.conn.cpu = c /\ s.conn.gen = g => t.meta.freshness # "FRESH"
<1>1. /\ t \in Stores /\ OnlyMeta(s, t) /\ (t.meta = s.meta \/ t.meta.freshness # "FRESH")
      /\ s.conn # None /\ s.conn.cpu = c /\ s.conn.gen = g => t.meta.freshness # "FRESH"
  BY WriteStartedEffect
<1>2. SnapshotValid(t)
  BY TransitionValid
<1>3. SameProgram(s, t) /\ SameRam(s, t) /\ SameVerify(s, t) /\ Calm(s, t) /\ AllNamed(t)
  BY <1>1 DEF OnlyMeta, SameProgram, SameRam, SameVerify, Calm, LessEvidence, MemoryOfConnection,
              DiagOfConnection, AllNamed
<1>q. QED
  BY <1>1, <1>2, <1>3 DEF SoundStep

LEMMA StartedStep ==
    ASSUME NEW s \in Stores, SnapshotValid(s), AllNamed(s),
           NEW o \in {"ERASE", "PROGRAM", "VERIFY", "RAM_LOAD", "RAM_CRC"},
           NEW c \in Cpus, NEW g \in Nat, NEW e, e = OperationStarted(o, c, g), NEW t, t = Transition(e, s)
    PROVE  /\ SoundStep(s, t) /\ SameProgram(s, t) /\ SameRam(s, t)
           /\ o \in {"ERASE", "PROGRAM", "VERIFY"} => t.res[c].verify = None
           /\ o \in {"RAM_LOAD", "RAM_CRC"} => t.res[c].crc = None
           /\ o \in {"ERASE", "PROGRAM"} /\ s.conn # None /\ s.conn.cpu = c /\ s.conn.gen = g =>
                 t.meta.freshness # "FRESH"
<1>1. /\ t \in Stores /\ StillValid(s, t)
      /\ o \in {"ERASE", "PROGRAM", "VERIFY"} => t.res[c].verify = None
      /\ o \in {"RAM_LOAD", "RAM_CRC"} => t.res[c].crc = None
      /\ o \in {"ERASE", "PROGRAM"} /\ s.conn # None /\ s.conn.cpu = c /\ s.conn.gen = g =>
             t.meta.freshness # "FRESH"
  BY StartedEffect
<1>2. SnapshotValid(t)
  BY TransitionValid
<1>3. SameProgram(s, t) /\ SameRam(s, t) /\ Calm(s, t) /\ AllNamed(t)
  BY <1>1 DEF StillValid, SameProgram, SameRam, Calm, LessEvidence, MemoryOfConnection,
              DiagOfConnection, AllNamed
<1>q. QED
  BY <1>1, <1>2, <1>3 DEF SoundStep

-----------------------------------------------------------------------------
(***************************************************************************)
(* The invariant holds at the start.                                       *)
(***************************************************************************)
LEMMA InitStore ==
    NewStore \in Stores /\ SnapshotValid(NewStore) /\ AllNamed(NewStore) /\ NothingShown(NewStore)
<1>1. PICK s : s = NewStore
  OBVIOUS
<1>2. PICK f : f = [c \in Cpus |-> NewResource]
  OBVIOUS
<1>3. PICK m : m = [c \in Cpus |-> NewMemory]
  OBVIOUS
<1>4. f \in [Cpus -> Resources] /\ \A c \in Cpus : f[c] = NewResource
  BY <1>2, NewParts
<1>5. m \in [Cpus -> Memories] /\ \A c \in Cpus : m[c] = NewMemory
  BY <1>3, NewParts
<1>6. s = [gen |-> 0, conn |-> None, res |-> f, mem |-> m, meta |-> NewReading, diag |-> NewDiagnostics]
  BY <1>1, <1>2, <1>3 DEF NewStore
<1>7. /\ s \in Stores /\ s.conn = None /\ s.res = f /\ s.mem = m /\ s.meta = NewReading
      /\ s.diag = NewDiagnostics
  BY <1>4, <1>5, <1>6, NewReadings DEF Stores
<1>8. NothingShown(s)
  BY <1>4, <1>5, <1>7, NewParts, NewReadings DEF NothingShown
<1>9. AllNamed(s)
  BY <1>4, <1>7, NewParts DEF AllNamed
<1>10. ParseStateValid(NewImage)
  BY DEF ParseStateValid, NewImage
<1>11. MemoryValid(NewMemory)
  BY DEF MemoryValid, NewMemory
<1>12. \A c \in Cpus : ResourceValid(c, NewResource)
  BY <1>10, NewParts DEF ResourceValid
<1>13. MetadataValid(s.meta) /\ DiagnosticsValid(s.diag)
  BY <1>7, <1>8 DEF MetadataValid, DiagnosticsValid, NothingShown
<1>14. SnapshotValid(s)
  BY <1>4, <1>5, <1>7, <1>11, <1>12, <1>13 DEF SnapshotValid
<1>q. QED
  BY <1>1, <1>7, <1>8, <1>9, <1>14

LEMMA TasksInvariantInit ==
    TasksInit => TasksInvariant
<1>1. SUFFICES ASSUME TasksInit PROVE TasksInvariant
  OBVIOUS
<1>2. rt \in Stores /\ SnapshotValid(rt) /\ AllNamed(rt) /\ NothingShown(rt) /\ rt.gen = 0
  BY <1>1, InitStore DEF TasksInit, NewStore
<1>3. be \in Backends /\ be.svc.status # "READY" /\ be.svc.summary = None
  <2>1. PICK f : f = [c \in Cpus |-> 0]
    OBVIOUS
  <2>2. f \in [Cpus -> Nat]
    BY <2>1
  <2>3. PICK v : v = [status |-> "UNVALIDATED", rev |-> 0, summary |-> None]
    OBVIOUS
  <2>4. v \in ServiceStates /\ v.status # "READY" /\ v.summary = None
    BY <2>3 DEF ServiceStates
  <2>5. be = [prog |-> f, ram |-> f, tool |-> 0, svc |-> v]
    BY <1>1, <2>1, <2>3 DEF TasksInit
  <2>q. QED
    BY <2>2, <2>4, <2>5 DEF Backends
<1>4. dev \in [Cpus -> Devices]
  <2>1. BlankJournal \in Journals
    BY DEF BlankJournal, Journals
  <2>2. NewDevice \in Devices
    BY <2>1 DEF NewDevice, Devices
  <2>q. QED
    BY <1>1, <2>2 DEF TasksInit
<1>5. IsUi(ui) /\ ui.pending = NoContext
  BY <1>1 DEF TasksInit, NewUi, IsUi
<1>6. IsJob(job) /\ job = NoJob
  BY <1>1 DEF TasksInit, NoJob, IsJob
<1>7. disk \in [Files -> Contents] /\ changes \in 0..MaxChanges
  BY <1>1, RuntimeConstants DEF TasksInit
<1>8. TaskTypes
  BY <1>2, <1>3, <1>4, <1>5, <1>6, <1>7 DEF TaskTypes
<1>9. StoreIsSound
  BY <1>2, <1>3, RuntimeConstants DEF StoreIsSound
<1>10. ShownIsTrue
  <2>1. EvidenceIsTrue /\ RamEvidenceIsTrue /\ FreshMetadataIsTrue
    BY <1>2 DEF EvidenceIsTrue, RamEvidenceIsTrue, FreshMetadataIsTrue, NothingShown
  <2>2. rt.conn = None
    BY <1>1 DEF TasksInit, NewStore
  <2>3. FreshBelongsToConnection
    BY <1>2, <2>2 DEF FreshBelongsToConnection, NothingShown
  <2>q. QED
    BY <2>1, <2>3 DEF ShownIsTrue
<1>11. TaskParts
  <2>1. job.stage = None /\ job.result = None
    BY <1>6 DEF NoJob
  <2>2. JobIsSound
    BY <1>5, <1>6, <2>1 DEF JobIsSound, Stages
  <2>3. Announced /\ Checked /\ Pending
    BY <2>1, NoneFacts DEF Announced, Checked, StageFits, Pending
  <2>q. QED
    BY <2>1, <2>2, <2>3, NoneFacts DEF TaskParts, NoFalseMismatch
<1>q. QED
  BY <1>8, <1>9, <1>10, <1>11 DEF TasksInvariant

-----------------------------------------------------------------------------
(***************************************************************************)
(* What the user and the file system do.                                   *)
(***************************************************************************)
ProgBumped(b, c) == [b EXCEPT !.prog[c] = @ + 1]
RamBumped(b, c) == [b EXCEPT !.ram[c] = @ + 1]
ToolBumped(b) == [b EXCEPT !.tool = @ + 1]
RevisionsReset(b) == [b EXCEPT !.prog = [k \in Cpus |-> 0], !.ram = [k \in Cpus |-> 0]]

LEMMA ProgBumpedType ==
    ASSUME NEW b \in Backends, NEW c \in Cpus, NEW a, a = ProgBumped(b, c)
    PROVE  a \in Backends /\ a.svc = b.svc
<1>1. PICK f : f = [b.prog EXCEPT ![c] = @ + 1]
  OBVIOUS
<1>2. f \in [Cpus -> Nat]
  BY <1>1 DEF Backends
<1>3. a = [b EXCEPT !.prog = f]
  BY <1>1 DEF Backends, ProgBumped
<1>q. QED
  BY <1>2, <1>3 DEF Backends

LEMMA RamBumpedType ==
    ASSUME NEW b \in Backends, NEW c \in Cpus, NEW a, a = RamBumped(b, c)
    PROVE  a \in Backends /\ SameInputs(b, a)
<1>1. PICK f : f = [b.ram EXCEPT ![c] = @ + 1]
  OBVIOUS
<1>2. f \in [Cpus -> Nat]
  BY <1>1 DEF Backends
<1>3. a = [b EXCEPT !.ram = f]
  BY <1>1 DEF Backends, RamBumped
<1>q. QED
  BY <1>2, <1>3 DEF Backends, SameInputs

LEMMA ToolBumpedType ==
    ASSUME NEW b \in Backends, NEW a, a = ToolBumped(b)
    PROVE  a \in Backends /\ a.svc = b.svc
BY DEF Backends, ToolBumped

LEMMA RevisionsResetType ==
    ASSUME NEW b \in Backends, NEW a, a = RevisionsReset(b)
    PROVE  a \in Backends /\ a.svc = b.svc
<1>1. PICK f : f = [k \in Cpus |-> 0]
  OBVIOUS
<1>2. f \in [Cpus -> Nat]
  BY <1>1
<1>3. a = [b EXCEPT !.prog = f, !.ram = f]
  BY <1>1 DEF RevisionsReset
<1>q. QED
  BY <1>2, <1>3 DEF Backends

LEMMA StepIsSound ==
    ASSUME StoreIsSound, SoundStep(rt, rt'), be'.svc = be.svc
    PROVE  StoreIsSound'
BY DEF StoreIsSound, SoundStep, Calm

LEMMA DevicesStay ==
    ASSUME dev' = dev
    PROVE  DevicesKeep(dev, dev')
BY DEF DevicesKeep

LEMMA SetProgramPathKeeps ==
    ASSUME TasksInvariant, NEW c \in Cpus, NEW f \in ProgramFiles, SetProgramPath(c, f)
    PROVE  TasksInvariant'
<1>0. TaskTypes /\ StoreIsSound /\ ShownIsTrue /\ TaskParts
  BY DEF TasksInvariant
<1>1. PICK e : e = ProgramImageChanged(c, f, "EMPTY", None)
  OBVIOUS
<1>2. rt' = Transition(e, rt) /\ f \in Files /\ ui' = ui /\ job' = job /\ disk' = disk /\ dev' = dev
  BY <1>1 DEF SetProgramPath, Dispatch, Files
<1>3. SoundStep(rt, rt')
  BY <1>0, <1>1, <1>2, ProgramStep DEF TaskTypes, StoreIsSound, ParseStatuses
<1>4. be' \in Backends /\ be'.svc = be.svc
  BY <1>0, ProgBumpedType DEF SetProgramPath, ProgBumped, TaskTypes
<1>5. changes' \in 0..MaxChanges
  BY <1>0, RuntimeConstants DEF SetProgramPath, Selects, Change, TaskTypes
<1>6. TaskTypes'
  BY <1>0, <1>2, <1>3, <1>4, <1>5 DEF TaskTypes, SoundStep
<1>7. StoreIsSound'
  BY <1>0, <1>3, <1>4, StepIsSound
<1>8. ShownIsTrue'
  BY <1>0, <1>2, <1>3, TruthCalm, DevicesStay DEF SoundStep, TaskTypes
<1>9. job' = NoJob
  BY <1>0, <1>2 DEF SetProgramPath, NoTask, TaskParts, JobIsSound
<1>10. TaskParts'
  BY <1>0, <1>2, <1>9, NoTaskParts DEF TaskParts, JobIsSound
<1>q. QED
  BY <1>6, <1>7, <1>8, <1>10 DEF TasksInvariant

LEMMA SetRamPathKeeps ==
    ASSUME TasksInvariant, NEW c \in Cpus, NEW f \in RamFiles, SetRamPath(c, f)
    PROVE  TasksInvariant'
<1>0. TaskTypes /\ StoreIsSound /\ ShownIsTrue /\ TaskParts
  BY DEF TasksInvariant
<1>1. PICK e : e = RamImageChanged(c, f, "EMPTY", None)
  OBVIOUS
<1>2. rt' = Transition(e, rt) /\ f \in Files /\ ui' = ui /\ job' = job /\ disk' = disk /\ dev' = dev
  BY <1>1 DEF SetRamPath, Dispatch, Files
<1>3. SoundStep(rt, rt') /\ SameProgram(rt, rt') /\ SameVerify(rt, rt')
  BY <1>0, <1>1, <1>2, RamImageStep DEF TaskTypes, StoreIsSound, ParseStatuses
<1>4. be' \in Backends /\ SameInputs(be, be')
  BY <1>0, RamBumpedType DEF SetRamPath, RamBumped, TaskTypes
<1>5. changes' \in 0..MaxChanges
  BY <1>0, RuntimeConstants DEF SetRamPath, Selects, Change, TaskTypes
<1>6. TaskTypes'
  BY <1>0, <1>2, <1>3, <1>4, <1>5 DEF TaskTypes, SoundStep
<1>7. StoreIsSound'
  BY <1>0, <1>3, <1>4, StepIsSound DEF SameInputs
<1>8. ShownIsTrue'
  BY <1>0, <1>2, <1>3, TruthCalm, DevicesStay DEF SoundStep, TaskTypes
<1>9. SameTask(job, job') /\ IsJob(job')
  BY <1>0, <1>2 DEF SameTask, TaskTypes
<1>10. TaskParts'
  BY <1>0, <1>2, <1>3, <1>4, <1>9, BesideParts, DevicesStay DEF TaskParts, SoundStep, Calm
<1>q. QED
  BY <1>6, <1>7, <1>8, <1>10 DEF TasksInvariant

LEMMA SetImageToolPathsKeeps ==
    ASSUME TasksInvariant, SetImageToolPaths
    PROVE  TasksInvariant'
<1>0. TaskTypes /\ StoreIsSound /\ ShownIsTrue /\ TaskParts
  BY DEF TasksInvariant
<1>1. rt' = rt /\ ui' = ui /\ job' = job /\ disk' = disk /\ dev' = dev
  BY DEF SetImageToolPaths
<1>2. be' \in Backends /\ be'.svc = be.svc
  BY <1>0, ToolBumpedType DEF SetImageToolPaths, ToolBumped, TaskTypes
<1>3. changes' \in 0..MaxChanges
  BY <1>0, RuntimeConstants DEF SetImageToolPaths, Change, TaskTypes
<1>4. TaskTypes'
  BY <1>0, <1>1, <1>2, <1>3 DEF TaskTypes
<1>5. SoundStep(rt, rt')
  BY <1>0, <1>1, SameStore DEF TaskTypes, StoreIsSound
<1>6. StoreIsSound'
  BY <1>0, <1>2, <1>5, StepIsSound
<1>7. ShownIsTrue'
  BY <1>0, <1>1, <1>5, TruthCalm, DevicesStay DEF SoundStep, TaskTypes
<1>8. job' = NoJob
  BY <1>0, <1>1 DEF SetImageToolPaths, NoTask, TaskParts, JobIsSound
<1>9. TaskParts'
  BY <1>0, <1>1, <1>8, NoTaskParts DEF TaskParts, JobIsSound
<1>q. QED
  BY <1>4, <1>6, <1>7, <1>9 DEF TasksInvariant

LEMMA SetEraseConfigurationKeeps ==
    ASSUME TasksInvariant, NEW v \in Scopes, NEW k \in Masks, SetEraseConfiguration(v, k)
    PROVE  TasksInvariant'
<1>0. TaskTypes /\ StoreIsSound /\ ShownIsTrue /\ TaskParts
  BY DEF TasksInvariant
<1>1. PICK c : c = Cpu
  OBVIOUS
<1>2. c \in Cpus /\ v \in EraseScopes
  BY <1>1, RuntimeConstants DEF SetEraseConfiguration
<1>3. PICK e : e = SectorSelectionChanged(c, v, k)
  OBVIOUS
<1>4. rt' = Transition(e, rt) /\ be' = be /\ ui' = ui /\ job' = job /\ disk' = disk /\ dev' = dev
  BY <1>1, <1>3 DEF SetEraseConfiguration, Dispatch
<1>5. SoundStep(rt, rt')
  BY <1>0, <1>2, <1>3, <1>4, SectorStep DEF TaskTypes, StoreIsSound
<1>6. changes' \in 0..MaxChanges
  BY <1>0, RuntimeConstants DEF SetEraseConfiguration, Change, TaskTypes
<1>7. TaskTypes'
  BY <1>0, <1>4, <1>5, <1>6 DEF TaskTypes, SoundStep
<1>8. StoreIsSound'
  BY <1>0, <1>4, <1>5, StepIsSound
<1>9. ShownIsTrue'
  BY <1>0, <1>4, <1>5, TruthCalm, DevicesStay DEF SoundStep, TaskTypes
<1>10. job' = NoJob
  BY <1>0, <1>4 DEF SetEraseConfiguration, Idle, NoTask, TaskParts, JobIsSound
<1>11. TaskParts'
  BY <1>0, <1>4, <1>10, NoTaskParts DEF TaskParts, JobIsSound
<1>q. QED
  BY <1>7, <1>8, <1>9, <1>11 DEF TasksInvariant

LEMMA ClearMemoryKeeps ==
    ASSUME TasksInvariant, NEW c \in Cpus, ClearMemory(c)
    PROVE  TasksInvariant'
<1>0. TaskTypes /\ StoreIsSound /\ ShownIsTrue /\ TaskParts
  BY DEF TasksInvariant
<1>1. PICK e : e = MemoryCleared(c)
  OBVIOUS
<1>2. /\ rt' = Transition(e, rt) /\ be' = be /\ ui' = ui /\ job' = job /\ disk' = disk /\ dev' = dev
      /\ changes' = changes
  BY <1>1 DEF ClearMemory, Dispatch
<1>3. SoundStep(rt, rt') /\ SameProgram(rt, rt') /\ SameVerify(rt, rt')
  BY <1>0, <1>1, <1>2, MemoryStep DEF TaskTypes, StoreIsSound
<1>4. TaskTypes'
  BY <1>0, <1>2, <1>3 DEF TaskTypes, SoundStep
<1>5. StoreIsSound'
  BY <1>0, <1>2, <1>3, StepIsSound
<1>6. ShownIsTrue'
  BY <1>0, <1>2, <1>3, TruthCalm, DevicesStay DEF SoundStep, TaskTypes
<1>7. SameTask(job, job') /\ IsJob(job') /\ SameInputs(be, be')
  BY <1>0, <1>2 DEF SameTask, TaskTypes, SameInputs
<1>8. TaskParts'
  BY <1>0, <1>2, <1>3, <1>7, BesideParts, DevicesStay DEF TaskParts, SoundStep, Calm
<1>q. QED
  BY <1>4, <1>5, <1>6, <1>8 DEF TasksInvariant

LEMMA ApplySessionChangeKeeps ==
    ASSUME TasksInvariant, ApplySessionChange
    PROVE  TasksInvariant'
<1>0. TaskTypes /\ StoreIsSound /\ ShownIsTrue /\ TaskParts
  BY DEF TasksInvariant
<1>1. PICK e : e = SessionChanged
  OBVIOUS
<1>2. rt' = Transition(e, rt) /\ ui' = ui /\ job' = job /\ disk' = disk /\ dev' = dev
  BY <1>1 DEF ApplySessionChange, Dispatch
<1>3. be' \in Backends /\ be'.svc = be.svc
  BY <1>0, RevisionsResetType DEF ApplySessionChange, RevisionsReset, TaskTypes
<1>4. changes' \in 0..MaxChanges
  BY <1>0, RuntimeConstants DEF ApplySessionChange, Change, TaskTypes
<1>5. SnapshotValid(rt')
  BY <1>0, <1>2, TransitionValid DEF StoreIsSound
<1>6. rt' \in Stores /\ rt'.gen = rt.gen /\ AllNamed(rt') /\ ShownIsTrue'
  <2>1. PICK d : d = Candidate(e, rt)
    OBVIOUS
  <2>2. /\ d \in Stores /\ d.gen = rt.gen /\ NothingShown(d)
        /\ \A c \in Cpus : d.res[c].program = NewImage /\ d.res[c].ram = NewImage
    BY <1>0, <1>1, <2>1, SessionEffect DEF TaskTypes
  <2>3. CASE rt' = rt
    <3>1. SoundStep(rt, rt')
      BY <1>0, <2>3, SameStore DEF TaskTypes, StoreIsSound
    <3>q. QED
      BY <1>0, <1>2, <2>3, <3>1, TruthCalm, DevicesStay DEF SoundStep, TaskTypes, StoreIsSound
  <2>4. CASE rt' = d
    <3>1. AllNamed(d)
      BY <2>2, NewParts DEF AllNamed
    <3>q. QED
      BY <2>2, <2>4, <3>1, TruthNothing
  <2>q. QED
    BY <1>2, <2>1, <2>3, <2>4, TransitionCases
<1>7. TaskTypes'
  BY <1>0, <1>2, <1>3, <1>4, <1>6 DEF TaskTypes
<1>8. StoreIsSound'
  BY <1>0, <1>3, <1>5, <1>6 DEF StoreIsSound
<1>9. job' = NoJob
  BY <1>0, <1>2 DEF ApplySessionChange, NoTask, TaskParts, JobIsSound
<1>10. TaskParts'
  BY <1>0, <1>2, <1>9, NoTaskParts DEF TaskParts, JobIsSound
<1>q. QED
  BY <1>6, <1>7, <1>8, <1>10 DEF TasksInvariant

LEMMA FileChangedKeeps ==
    ASSUME TasksInvariant, NEW f \in Files, NEW v \in Holds(f), FileChanged(f, v)
    PROVE  TasksInvariant'
<1>0. TaskTypes /\ StoreIsSound /\ ShownIsTrue /\ TaskParts
  BY DEF TasksInvariant
<1>1. rt' = rt /\ be' = be /\ ui' = ui /\ dev' = dev /\ disk' = [disk EXCEPT ![f] = v]
  BY DEF FileChanged
<1>2. v \in Contents
  BY DEF Holds, Contents
<1>3. disk' \in [Files -> Contents]
  BY <1>0, <1>1, <1>2 DEF TaskTypes
<1>4. changes' \in 0..MaxChanges
  BY <1>0, RuntimeConstants DEF FileChanged, Change, TaskTypes
<1>5. IsJob(job') /\ SameTask(job, job') /\ (job'.stage = None => job' = job)
  <2>1. CASE job' = job
    BY <1>0, <2>1 DEF TaskTypes, SameTask
  <2>2. CASE job' # job
    <3>1. PICK j : j = job
      OBVIOUS
    <3>2. j = [stage |-> j.stage, ctx |-> j.ctx, touched |-> j.touched, result |-> j.result,
               reason |-> j.reason]
      BY <1>0, <3>1 DEF TaskTypes, IsJob
    <3>3. PICK k : k = [j EXCEPT !.touched = j.touched \cup {f}]
      OBVIOUS
    <3>4. IsJob(k) /\ SameTask(j, k)
      BY <3>2, <3>3 DEF IsJob, SameTask
    <3>5. job' = k /\ job.stage \in {"image", "service", "device"}
      BY <2>2, <3>1, <3>3 DEF FileChanged
    <3>q. QED
      BY <3>1, <3>4, <3>5, NoneFacts DEF SameTask
  <2>q. QED
    BY <2>1, <2>2
<1>6. TaskTypes'
  BY <1>0, <1>1, <1>3, <1>4, <1>5 DEF TaskTypes
<1>7. SoundStep(rt, rt') /\ SameProgram(rt, rt') /\ SameVerify(rt, rt')
  BY <1>0, <1>1, SameStore DEF TaskTypes, StoreIsSound
<1>8. StoreIsSound'
  BY <1>0, <1>1, <1>7, StepIsSound
<1>9. ShownIsTrue'
  BY <1>0, <1>1, <1>7, TruthCalm, DevicesStay DEF SoundStep, TaskTypes
<1>10. SameInputs(be, be')
  BY <1>1 DEF SameInputs
<1>11. TaskParts'
  BY <1>0, <1>1, <1>5, <1>7, <1>10, BesideParts, DevicesStay DEF TaskParts, SoundStep, Calm
<1>q. QED
  BY <1>6, <1>8, <1>9, <1>11 DEF TasksInvariant

(***************************************************************************)
(* The device joins, leaves, loses power and confirms its application.     *)
(***************************************************************************)
Joined(d, c) == [d EXCEPT ![c].link = TRUE, ![c].ram = None]
Left(d, c) == [d EXCEPT ![c].link = FALSE]
PoweredDown(d, c) == [d EXCEPT ![c].link = FALSE, ![c].ram = None]
ConfirmedIn(d, c) == [d EXCEPT ![c].journal.confirmed = TRUE]
WithDevice(d, c, q) == [d EXCEPT ![c] = q]

LEMMA SetDevice ==
    ASSUME NEW d \in [Cpus -> Devices], NEW c \in Cpus, NEW q \in Devices, NEW e, e = WithDevice(d, c, q)
    PROVE  e \in [Cpus -> Devices] /\ e[c] = q /\ \A b \in Cpus \ {c} : e[b] = d[b]
BY DEF WithDevice

LEMMA JoinedType ==
    ASSUME NEW d \in [Cpus -> Devices], NEW c \in Cpus, NEW e, e = Joined(d, c)
    PROVE  /\ e \in [Cpus -> Devices]
           /\ \A b \in Cpus : e[b].flash = d[b].flash /\ e[b].journal = d[b].journal
<1>1. d[c] \in Devices
  OBVIOUS
<1>2. PICK q : q = [d[c] EXCEPT !.link = TRUE, !.ram = None]
  OBVIOUS
<1>3. q \in Devices /\ q.flash = d[c].flash /\ q.journal = d[c].journal
  BY <1>1, <1>2 DEF Devices
<1>4. e = WithDevice(d, c, q)
  BY <1>2 DEF Joined, WithDevice
<1>5. e \in [Cpus -> Devices] /\ e[c] = q /\ \A b \in Cpus \ {c} : e[b] = d[b]
  BY <1>3, <1>4, SetDevice
<1>q. QED
  BY <1>3, <1>5

LEMMA LeftType ==
    ASSUME NEW d \in [Cpus -> Devices], NEW c, NEW e, e = Left(d, c)
    PROVE  /\ e \in [Cpus -> Devices] /\ DevicesKeep(d, e)
           /\ \A b \in Cpus : e[b].journal = d[b].journal
<1>1. CASE c \in Cpus
  <2>1. d[c] \in Devices
    BY <1>1
  <2>2. PICK q : q = [d[c] EXCEPT !.link = FALSE]
    OBVIOUS
  <2>3. q \in Devices /\ q.flash = d[c].flash /\ q.link = FALSE /\ q.journal = d[c].journal
    BY <2>1, <2>2 DEF Devices
  <2>4. e = WithDevice(d, c, q)
    BY <2>2 DEF Left, WithDevice
  <2>5. e \in [Cpus -> Devices] /\ e[c] = q /\ \A b \in Cpus \ {c} : e[b] = d[b]
    BY <1>1, <2>3, <2>4, SetDevice
  <2>q. QED
    BY <2>3, <2>5 DEF DevicesKeep
<1>2. CASE c \notin Cpus
  <2>1. e = d
    BY <1>2 DEF Left
  <2>q. QED
    BY <2>1 DEF DevicesKeep
<1>q. QED
  BY <1>1, <1>2

LEMMA PoweredDownType ==
    ASSUME NEW d \in [Cpus -> Devices], NEW c \in Cpus, NEW e, e = PoweredDown(d, c)
    PROVE  e \in [Cpus -> Devices] /\ DevicesKeep(d, e) /\ \A b \in Cpus : e[b].journal = d[b].journal
<1>1. d[c] \in Devices
  OBVIOUS
<1>2. PICK q : q = [d[c] EXCEPT !.link = FALSE, !.ram = None]
  OBVIOUS
<1>3. q \in Devices /\ q.flash = d[c].flash /\ q.link = FALSE /\ q.journal = d[c].journal
  BY <1>1, <1>2 DEF Devices
<1>4. e = WithDevice(d, c, q)
  BY <1>2 DEF PoweredDown, WithDevice
<1>5. e \in [Cpus -> Devices] /\ e[c] = q /\ \A b \in Cpus \ {c} : e[b] = d[b]
  BY <1>3, <1>4, SetDevice
<1>q. QED
  BY <1>3, <1>5 DEF DevicesKeep

LEMMA ConfirmedInType ==
    ASSUME NEW d \in [Cpus -> Devices], NEW c \in Cpus, ~d[c].link, NEW e, e = ConfirmedIn(d, c)
    PROVE  /\ e \in [Cpus -> Devices] /\ DevicesKeep(d, e)
           /\ \A b \in Cpus : e[b].journal.image = d[b].journal.image
<1>1. d[c] \in Devices
  OBVIOUS
<1>2. PICK j : j = [d[c].journal EXCEPT !.confirmed = TRUE]
  OBVIOUS
<1>3. j \in Journals /\ j.image = d[c].journal.image
  BY <1>1, <1>2 DEF Devices, Journals
<1>4. PICK q : q = [d[c] EXCEPT !.journal = j]
  OBVIOUS
<1>5. q \in Devices /\ q.flash = d[c].flash /\ ~q.link /\ q.journal = j
  BY <1>1, <1>3, <1>4 DEF Devices
<1>6. e = WithDevice(d, c, q)
  BY <1>2, <1>4 DEF ConfirmedIn, WithDevice
<1>7. e \in [Cpus -> Devices] /\ e[c] = q /\ \A b \in Cpus \ {c} : e[b] = d[b]
  BY <1>5, <1>6, SetDevice
<1>q. QED
  BY <1>3, <1>5, <1>7 DEF DevicesKeep

SetSuspect(u, v) == [u EXCEPT !.suspect = v]
SetPending(u, x) == [u EXCEPT !.pending = x]

LEMMA UiSteps ==
    ASSUME NEW u, IsUi(u), NEW v, NEW w
    PROVE  /\ w = SetSuspect(u, v) => IsUi(w) /\ w.pending = u.pending
           /\ w = SetPending(u, v) => IsUi(w) /\ w.pending = v
<1>1. u = [suspect |-> u.suspect, pending |-> u.pending]
  BY DEF IsUi
<1>q. QED
  BY <1>1 DEF IsUi, SetSuspect, SetPending

LEMMA ConnectKeeps ==
    ASSUME TasksInvariant, NEW c \in Cpus, OpenConnection(c)
    PROVE  TasksInvariant'
<1>0. TaskTypes /\ StoreIsSound /\ ShownIsTrue /\ TaskParts
  BY DEF TasksInvariant
<1>1. PICK e : e = ConnectionOpened(c)
  OBVIOUS
<1>2. /\ rt' = Transition(e, rt) /\ be' = be /\ job' = job /\ disk' = disk /\ changes' = changes
      /\ rt.conn = None /\ rt.gen < MaxGen /\ job.stage = None
  BY <1>1 DEF OpenConnection, Dispatch, Connected, NoTask
<1>3. dev' \in [Cpus -> Devices]
  BY <1>0, JoinedType DEF OpenConnection, Joined, TaskTypes
<1>4. IsUi(ui') /\ ui'.pending = ui.pending
  BY <1>0, UiSteps DEF OpenConnection, SetSuspect, TaskTypes
<1>5. SnapshotValid(rt')
  BY <1>0, <1>2, TransitionValid DEF StoreIsSound
<1>6. rt' \in Stores /\ rt'.gen <= MaxGen /\ AllNamed(rt') /\ ShownIsTrue'
  <2>1. PICK d : d = Candidate(e, rt)
    OBVIOUS
  <2>2. /\ d \in Stores /\ d.gen = rt.gen + 1 /\ NothingShown(d)
        /\ SameProgram(rt, d) /\ SameRam(rt, d)
    BY <1>0, <1>1, <2>1, OpenedEffect DEF TaskTypes, StoreIsSound
  <2>3. CASE rt' = rt
    <3>0. \A g \in Nat : \A b \in Cpus : rt.conn # [gen |-> g, cpu |-> b]
      BY <1>2, NoneIsApart
    <3>1. NothingShown(rt)
      <4>1. ASSUME NEW b \in Cpus
            PROVE  rt.res[b].verify = None /\ rt.res[b].crc = None /\ rt.mem[b].freshness # "FRESH"
        <5>1. rt.res[b] \in Resources /\ rt.mem[b] \in Memories
          BY <1>0 DEF TaskTypes, Stores
        <5>2. /\ rt.res[b].verify # None => rt.res[b].verify.gen \in Nat
              /\ rt.res[b].crc # None => rt.res[b].crc.gen \in Nat
              /\ rt.mem[b].gen \in Nat
          BY <5>1 DEF Resources, Evidences, Memories
        <5>3. rt.res[b].verify = None
          <6>1. rt.res[b].verify # None => rt.conn = [gen |-> rt.res[b].verify.gen, cpu |-> b]
            BY <1>0 DEF ShownIsTrue, EvidenceIsTrue
          <6>q. QED
            BY <3>0, <5>2, <6>1
        <5>4. rt.res[b].crc = None
          BY <1>0, <3>0, <5>2 DEF ShownIsTrue, RamEvidenceIsTrue
        <5>5. rt.mem[b].freshness # "FRESH"
          BY <1>0, <3>0, <5>2 DEF ShownIsTrue, FreshBelongsToConnection
        <5>q. QED
          BY <5>3, <5>4, <5>5
      <4>2. rt.meta.freshness # "FRESH" /\ \A g \in Groups : rt.diag[g].freshness # "FRESH"
        BY <1>0, <1>2 DEF ShownIsTrue, FreshBelongsToConnection, Connected
      <4>q. QED
        BY <4>1, <4>2 DEF NothingShown
    <3>2. rt' \in Stores /\ rt'.gen <= MaxGen /\ AllNamed(rt')
      BY <1>0, <2>3 DEF TaskTypes, StoreIsSound
    <3>q. QED
      BY <2>3, <3>1, <3>2, TruthNothing
  <2>4. CASE rt' = d
    <3>1. AllNamed(d)
      BY <1>0, <2>2 DEF AllNamed, StoreIsSound, SameProgram, SameRam
    <3>2. rt'.gen <= MaxGen
      BY <1>0, <1>2, <2>2, <2>4, RuntimeConstants DEF TaskTypes, Stores
    <3>q. QED
      BY <2>2, <2>4, <3>1, <3>2, TruthNothing
  <2>q. QED
    BY <1>2, <2>1, <2>3, <2>4, TransitionCases
<1>7. TaskTypes'
  BY <1>0, <1>2, <1>3, <1>4, <1>6 DEF TaskTypes
<1>8. StoreIsSound'
  BY <1>0, <1>2, <1>5, <1>6 DEF StoreIsSound
<1>9. TaskParts'
  BY <1>0, <1>2, <1>4, NoTaskParts DEF TaskParts, JobIsSound
<1>q. QED
  BY <1>6, <1>7, <1>8, <1>9 DEF TasksInvariant

LEMMA CloseStep ==
    ASSUME TasksInvariant, NEW e, e = ConnectionClosed(rt.gen), rt' = Transition(e, rt), dev' = Left(dev, Cpu)
    PROVE  /\ rt' \in Stores /\ SnapshotValid(rt') /\ rt'.gen = rt.gen /\ AllNamed(rt') /\ ShownIsTrue'
           /\ dev' \in [Cpus -> Devices]
           /\ SameProgram(rt, rt') /\ (rt'.conn = None \/ rt' = rt)
<1>0. TaskTypes /\ StoreIsSound /\ ShownIsTrue /\ TaskParts
  BY DEF TasksInvariant
<1>1. SnapshotValid(rt')
  BY <1>0, TransitionValid DEF StoreIsSound
<1>2. dev' \in [Cpus -> Devices] /\ DevicesKeep(dev, dev')
  BY <1>0, LeftType DEF TaskTypes
<1>3. PICK d : d = Candidate(e, rt)
  OBVIOUS
<1>4. /\ d \in Stores /\ d.gen = rt.gen /\ d.conn = None /\ NothingShown(d)
      /\ SameProgram(rt, d) /\ SameRam(rt, d)
  BY <1>0, <1>3, ClosedEffect DEF TaskTypes, StoreIsSound
<1>5. CASE rt' = rt
  <2>1. SoundStep(rt, rt') /\ SameProgram(rt, rt')
    BY <1>0, <1>5, SameStore DEF TaskTypes, StoreIsSound
  <2>2. ShownIsTrue'
    BY <1>0, <1>2, <2>1, TruthCalm DEF SoundStep, TaskTypes
  <2>q. QED
    BY <1>0, <1>1, <1>2, <1>5, <2>1, <2>2 DEF SoundStep
<1>6. CASE rt' = d
  <2>1. AllNamed(d)
    BY <1>0, <1>4 DEF AllNamed, StoreIsSound, SameProgram, SameRam
  <2>2. ShownIsTrue'
    BY <1>4, <1>6, TruthNothing
  <2>q. QED
    BY <1>1, <1>2, <1>4, <1>6, <2>1, <2>2
<1>q. QED
  BY <1>3, <1>5, <1>6, TransitionCases

LEMMA CloseConnectionKeeps ==
    ASSUME TasksInvariant, CloseConnection \/ Disconnect, be' = be, disk' = disk, changes' = changes
    PROVE  TasksInvariant'
<1>0. TaskTypes /\ StoreIsSound /\ ShownIsTrue /\ TaskParts
  BY DEF TasksInvariant
<1>1. PICK e : e = ConnectionClosed(rt.gen)
  OBVIOUS
<1>2. rt' = Transition(e, rt) /\ dev' = Left(dev, Cpu) /\ ui' = [ui EXCEPT !.suspect = FALSE]
  BY <1>1 DEF CloseConnection, Disconnect, Dispatch, Left
<1>3. /\ rt' \in Stores /\ SnapshotValid(rt') /\ rt'.gen = rt.gen /\ AllNamed(rt') /\ ShownIsTrue'
      /\ dev' \in [Cpus -> Devices]
  BY <1>1, <1>2, CloseStep
<1>4. IsUi(ui') /\ ui'.pending = ui.pending
  BY <1>0, <1>2, UiSteps DEF SetSuspect, TaskTypes
<1>5. job' = NoJob
  BY <1>0 DEF CloseConnection, Disconnect, NoTask, TaskParts, JobIsSound
<1>6. IsJob(job')
  BY <1>5 DEF NoJob, IsJob
<1>7. TaskTypes'
  BY <1>0, <1>3, <1>4, <1>6 DEF TaskTypes
<1>8. StoreIsSound'
  BY <1>0, <1>3 DEF StoreIsSound
<1>9. TaskParts'
  BY <1>0, <1>4, <1>5, NoTaskParts DEF TaskParts, JobIsSound
<1>q. QED
  BY <1>3, <1>7, <1>8, <1>9 DEF TasksInvariant

LEMMA DeviceAloneKeeps ==
    ASSUME TasksInvariant, NEW c \in Cpus, PowerCycle(c) \/ ApplicationConfirms(c)
    PROVE  TasksInvariant'
<1>0. TaskTypes /\ StoreIsSound /\ ShownIsTrue /\ TaskParts
  BY DEF TasksInvariant
<1>1. rt' = rt /\ be' = be /\ ui' = ui /\ job' = job /\ disk' = disk
  BY DEF PowerCycle, ApplicationConfirms
<1>2. dev' \in [Cpus -> Devices] /\ DevicesKeep(dev, dev')
  <2>1. CASE PowerCycle(c)
    BY <1>0, <2>1, PoweredDownType DEF TaskTypes, PowerCycle, PoweredDown
  <2>2. CASE ApplicationConfirms(c)
    BY <1>0, <2>2, ConfirmedInType DEF TaskTypes, ApplicationConfirms, ConfirmedIn
  <2>q. QED
    BY <2>1, <2>2
<1>3. changes' \in 0..MaxChanges
  BY <1>0, RuntimeConstants DEF PowerCycle, ApplicationConfirms, Change, TaskTypes
<1>4. TaskTypes'
  BY <1>0, <1>1, <1>2, <1>3 DEF TaskTypes
<1>5. SoundStep(rt, rt') /\ SameProgram(rt, rt') /\ SameVerify(rt, rt')
  BY <1>0, <1>1, SameStore DEF TaskTypes, StoreIsSound
<1>6. StoreIsSound'
  BY <1>0, <1>1, <1>5, StepIsSound
<1>7. ShownIsTrue'
  BY <1>0, <1>2, <1>5, TruthCalm DEF SoundStep, TaskTypes
<1>8. SameTask(job, job') /\ IsJob(job') /\ SameInputs(be, be')
  BY <1>0, <1>1 DEF SameTask, TaskTypes, SameInputs
<1>9. TaskParts'
  BY <1>0, <1>1, <1>2, <1>5, <1>8, BesideParts DEF TaskParts, SoundStep, Calm
<1>q. QED
  BY <1>4, <1>6, <1>7, <1>9 DEF TasksInvariant

-----------------------------------------------------------------------------
(***************************************************************************)
(* The first problem of a list is None exactly when there is none.         *)
(***************************************************************************)
LEMMA FirstIs ==
    ASSUME NEW ps, NEW n \in DOMAIN ps, ps[n] # None, \A m \in 1..(n - 1) : ps[m] = None
    PROVE  FirstProblem(ps) # None /\ \E i \in DOMAIN ps : FirstProblem(ps) = ps[i]
<1>1. PICK i : i = CHOOSE k \in DOMAIN ps : ps[k] # None /\ \A m \in 1..(k - 1) : ps[m] = None
  OBVIOUS
<1>2. i \in DOMAIN ps /\ ps[i] # None
  BY <1>1
<1>3. FirstProblem(ps) = ps[i]
  BY <1>1 DEF FirstProblem
<1>q. QED
  BY <1>2, <1>3

LEMMA FirstOf2 ==
    ASSUME NEW a, NEW b, NEW r, r = FirstProblem(<<a, b>>)
    PROVE  (r = None <=> a = None /\ b = None) /\ r \in {a, b, None}
<1>1. PICK ps : ps = <<a, b>>
  OBVIOUS
<1>2. DOMAIN ps = 1..2 /\ ps[1] = a /\ ps[2] = b
  BY <1>1
<1>3. CASE a = None /\ b = None
  BY <1>1, <1>2, <1>3 DEF FirstProblem
<1>4. CASE a # None
  BY <1>1, <1>2, <1>4, FirstIs
<1>5. CASE a = None /\ b # None
  BY <1>1, <1>2, <1>5, FirstIs
<1>q. QED
  BY <1>3, <1>4, <1>5


LEMMA FirstOf4 ==
    ASSUME NEW a, NEW b, NEW c, NEW d, NEW r, r = FirstProblem(<<a, b, c, d>>)
    PROVE  (r = None <=> a = None /\ b = None /\ c = None /\ d = None) /\ r \in {a, b, c, d, None}
<1>1. PICK ps : ps = <<a, b, c, d>>
  OBVIOUS
<1>2. DOMAIN ps = 1..4 /\ ps[1] = a /\ ps[2] = b /\ ps[3] = c /\ ps[4] = d
  BY <1>1
<1>3. CASE a = None /\ b = None /\ c = None /\ d = None
  BY <1>1, <1>2, <1>3 DEF FirstProblem
<1>4. CASE a # None
  BY <1>1, <1>2, <1>4, FirstIs
<1>5. CASE a = None /\ b # None
  BY <1>1, <1>2, <1>5, FirstIs
<1>6. CASE a = None /\ b = None /\ c # None
  BY <1>1, <1>2, <1>6, FirstIs
<1>7. CASE a = None /\ b = None /\ c = None /\ d # None
  BY <1>1, <1>2, <1>7, FirstIs
<1>q. QED
  BY <1>3, <1>4, <1>5, <1>6, <1>7

LEMMA FirstOf5 ==
    ASSUME NEW a, NEW b, NEW c, NEW d, NEW e, NEW r, r = FirstProblem(<<a, b, c, d, e>>)
    PROVE  /\ r = None <=> a = None /\ b = None /\ c = None /\ d = None /\ e = None
           /\ r \in {a, b, c, d, e, None}
<1>1. PICK ps : ps = <<a, b, c, d, e>>
  OBVIOUS
<1>2. DOMAIN ps = 1..5 /\ ps[1] = a /\ ps[2] = b /\ ps[3] = c /\ ps[4] = d /\ ps[5] = e
  BY <1>1
<1>3. CASE a = None /\ b = None /\ c = None /\ d = None /\ e = None
  BY <1>1, <1>2, <1>3 DEF FirstProblem
<1>4. CASE a # None
  BY <1>1, <1>2, <1>4, FirstIs
<1>5. CASE a = None /\ b # None
  BY <1>1, <1>2, <1>5, FirstIs
<1>6. CASE a = None /\ b = None /\ c # None
  BY <1>1, <1>2, <1>6, FirstIs
<1>7. CASE a = None /\ b = None /\ c = None /\ d # None
  BY <1>1, <1>2, <1>7, FirstIs
<1>8. CASE a = None /\ b = None /\ c = None /\ d = None /\ e # None
  BY <1>1, <1>2, <1>8, FirstIs
<1>q. QED
  BY <1>3, <1>4, <1>5, <1>6, <1>7, <1>8

(***************************************************************************)
(* The check a task of each kind meets.                                    *)
(***************************************************************************)
LEMMA GroupFacts ==
    ASSUME NEW k \in Groups
    PROVE  k \notin FlashKinds \cup AppendKinds \cup RamKinds \cup PrepareKinds \cup {"METADATA", "MEMORY", "RUN"}
BY GroupsAreApart

LEMMA ProblemOfKind ==
    ASSUME NEW x
    PROVE  /\ x.kind \in FlashKinds => Problem(x) = flash_problem(x)
           /\ x.kind \in AppendKinds => Problem(x) = append_problem(x)
           /\ x.kind \in RamKinds => Problem(x) = ram_operation_problem(x)
           /\ x.kind = "RUN" => Problem(x) = run_problem(x)
           /\ x.kind \in ReadKinds =>
                 Problem(x) = FirstProblem(<<connection_problem(x),
                                             Unless(Reads(x.cpu, x.kind), "UNSUPPORTED_OPERATION")>>)
           /\ x.kind = "PREPARE_FLASH" => Problem(x) = prepare_flash_problem(x)
           /\ x.kind = "PREPARE_RAM" => Problem(x) = prepare_ram_problem(x)
           /\ x.kind = "PREPARE_SERVICE" => Problem(x) = prepare_service_problem(x)
<1>1. \A k \in Groups : k \notin FlashKinds \cup AppendKinds \cup RamKinds \cup PrepareKinds
                                   \cup {"METADATA", "MEMORY", "RUN"}
  BY GroupFacts
<1>2. x.kind \in FlashKinds => Problem(x) = flash_problem(x)
  BY <1>1 DEF Problem, FlashKinds, AppendKinds, RamKinds, ReadKinds
<1>3. x.kind \in AppendKinds => Problem(x) = append_problem(x)
  BY <1>1 DEF Problem, FlashKinds, AppendKinds, RamKinds, ReadKinds
<1>4. x.kind \in RamKinds => Problem(x) = ram_operation_problem(x)
  BY <1>1 DEF Problem, FlashKinds, AppendKinds, RamKinds, ReadKinds
<1>5. x.kind = "RUN" => Problem(x) = run_problem(x)
  BY <1>1 DEF Problem, FlashKinds, AppendKinds, RamKinds, ReadKinds
<1>6. x.kind \in ReadKinds =>
         Problem(x) = FirstProblem(<<connection_problem(x),
                                     Unless(Reads(x.cpu, x.kind), "UNSUPPORTED_OPERATION")>>)
  BY <1>1 DEF Problem, FlashKinds, AppendKinds, RamKinds, ReadKinds, PrepareKinds
<1>7. /\ x.kind = "PREPARE_FLASH" => Problem(x) = prepare_flash_problem(x)
      /\ x.kind = "PREPARE_RAM" => Problem(x) = prepare_ram_problem(x)
      /\ x.kind = "PREPARE_SERVICE" => Problem(x) = prepare_service_problem(x)
  BY <1>1 DEF Problem, FlashKinds, AppendKinds, RamKinds, ReadKinds, PrepareKinds
<1>q. QED
  BY <1>2, <1>3, <1>4, <1>5, <1>6, <1>7

(***************************************************************************)
(* No check reports a readback mismatch.                                   *)
(***************************************************************************)
NotMismatch(r) == r # "METADATA_READBACK_MISMATCH"

LEMMA PartsNotMismatch ==
    ASSUME NEW x
    PROVE  /\ NotMismatch(connection_problem(x)) /\ NotMismatch(program_problem(x))
           /\ NotMismatch(ram_problem(x)) /\ NotMismatch(service_problem(x))
           /\ NotMismatch(metadata_problem(x)) /\ NotMismatch(None)
           /\ NotMismatch(prepare_flash_problem(x)) /\ NotMismatch(prepare_ram_problem(x))
           /\ NotMismatch(prepare_service_problem(x))
<1>1. /\ NotMismatch(connection_problem(x)) /\ NotMismatch(metadata_problem(x)) /\ NotMismatch(None)
      /\ NotMismatch(prepare_flash_problem(x)) /\ NotMismatch(prepare_ram_problem(x))
      /\ NotMismatch(prepare_service_problem(x))
  BY NoneFacts DEF NotMismatch, connection_problem, metadata_problem, prepare_flash_problem,
     prepare_ram_problem, prepare_service_problem, Unless
<1>2. NotMismatch(program_problem(x))
  BY NoneFacts DEF NotMismatch, program_problem
<1>3. NotMismatch(ram_problem(x))
  BY NoneFacts DEF NotMismatch, ram_problem
<1>4. NotMismatch(service_problem(x))
  BY NoneFacts DEF NotMismatch, service_problem
<1>q. QED
  BY <1>1, <1>2, <1>3, <1>4

LEMMA ProblemNotMismatch ==
    ASSUME NEW x, x.kind \in Kinds
    PROVE  NotMismatch(Problem(x))
<1>0. /\ NotMismatch(connection_problem(x)) /\ NotMismatch(program_problem(x))
      /\ NotMismatch(ram_problem(x)) /\ NotMismatch(service_problem(x))
      /\ NotMismatch(metadata_problem(x)) /\ NotMismatch(None)
      /\ NotMismatch(prepare_flash_problem(x)) /\ NotMismatch(prepare_ram_problem(x))
      /\ NotMismatch(prepare_service_problem(x))
  BY PartsNotMismatch
<1>1. CASE x.kind \in FlashKinds
  <2>1. PICK b : b = Unless(x.cpu \in FlashCpus, "UNSUPPORTED_OPERATION")
    OBVIOUS
  <2>2. PICK e : e = Unless(x.kind = "ERASE" => x.mask # {}, "FORBIDDEN_SECTOR")
    OBVIOUS
  <2>3. NotMismatch(b) /\ NotMismatch(e)
    BY <2>1, <2>2, NoneFacts DEF Unless, NotMismatch
  <2>4. flash_problem(x) = FirstProblem(<<connection_problem(x), b, program_problem(x), service_problem(x), e>>)
    BY <2>1, <2>2 DEF flash_problem
  <2>5. flash_problem(x) \in {connection_problem(x), b, program_problem(x), service_problem(x), e, None}
    BY <2>4, FirstOf5
  <2>q. QED
    BY <1>0, <1>1, <2>3, <2>5, ProblemOfKind
<1>2. CASE x.kind \in AppendKinds
  <2>1. PICK b : b = IF x.kind = "IMAGE_VALID" THEN program_problem(x) ELSE None
    OBVIOUS
  <2>2. PICK d : d = IF x.kind = "IMAGE_VALID" THEN None ELSE metadata_problem(x)
    OBVIOUS
  <2>3. PICK e : e = Unless(x.kind = "IMAGE_VALID" => verify_evidence_matches(x), "VERIFY_EVIDENCE_REQUIRED")
    OBVIOUS
  <2>4. NotMismatch(b) /\ NotMismatch(d) /\ NotMismatch(e)
    BY <1>0, <2>1, <2>2, <2>3, NoneFacts DEF Unless, NotMismatch
  <2>5. append_problem(x) = FirstProblem(<<connection_problem(x), b, service_problem(x), d, e>>)
    BY <2>1, <2>2, <2>3 DEF append_problem
  <2>6. append_problem(x) \in {connection_problem(x), b, service_problem(x), d, e, None}
    BY <2>5, FirstOf5
  <2>q. QED
    BY <1>0, <1>2, <2>4, <2>6, ProblemOfKind
<1>3. CASE x.kind \in RamKinds
  <2>1. PICK b : b = IF x.kind = "RAM_RUN" THEN Unless(ram_problem(x) = None, "RAM_CRC_EVIDENCE_REQUIRED")
                     ELSE ram_problem(x)
    OBVIOUS
  <2>2. PICK c, d : /\ c = Unless(x.cpu \in RamCpus, "UNSUPPORTED_OPERATION")
                    /\ d = Unless(x.kind = "RAM_RUN" => ram_crc_evidence_matches(x),
                                  "RAM_CRC_EVIDENCE_REQUIRED")
    OBVIOUS
  <2>3. NotMismatch(b) /\ NotMismatch(c) /\ NotMismatch(d)
    BY <1>0, <2>1, <2>2, NoneFacts DEF Unless, NotMismatch
  <2>4. ram_operation_problem(x) = FirstProblem(<<connection_problem(x), b, c, d>>)
    BY <2>1, <2>2 DEF ram_operation_problem
  <2>5. ram_operation_problem(x) \in {connection_problem(x), b, c, d, None}
    BY <2>4, FirstOf4
  <2>q. QED
    BY <1>0, <1>3, <2>3, <2>5, ProblemOfKind
<1>4. CASE x.kind = "RUN"
  <2>1. PICK b : b = Unless(x.cpu = RunCpu, "STALE_TARGET")
    OBVIOUS
  <2>2. PICK d : d = Unless(x.meta # None /\ x.meta.image # None, "IMAGE_VALID_REQUIRED")
    OBVIOUS
  <2>3. NotMismatch(b) /\ NotMismatch(d)
    BY <2>1, <2>2, NoneFacts DEF Unless, NotMismatch
  <2>4. run_problem(x) = FirstProblem(<<connection_problem(x), b, metadata_problem(x), d>>)
    BY <2>1, <2>2 DEF run_problem
  <2>5. run_problem(x) \in {connection_problem(x), b, metadata_problem(x), d, None}
    BY <2>4, FirstOf4
  <2>q. QED
    BY <1>0, <1>4, <2>3, <2>5, ProblemOfKind
<1>5. CASE x.kind \in ReadKinds
  <2>1. PICK b : b = Unless(Reads(x.cpu, x.kind), "UNSUPPORTED_OPERATION")
    OBVIOUS
  <2>2. NotMismatch(b)
    BY <2>1, NoneFacts DEF Unless, NotMismatch
  <2>3. Problem(x) = FirstProblem(<<connection_problem(x), b>>)
    BY <1>5, <2>1, ProblemOfKind
  <2>4. Problem(x) \in {connection_problem(x), b, None}
    BY <2>3, FirstOf2
  <2>q. QED
    BY <1>0, <2>2, <2>4
<1>6. CASE x.kind \in PrepareKinds
  BY <1>0, <1>6, ProblemOfKind DEF PrepareKinds
<1>q. QED
  BY <1>1, <1>2, <1>3, <1>4, <1>5, <1>6 DEF Kinds

-----------------------------------------------------------------------------
(***************************************************************************)
(* The context a page freezes, field by field.                             *)
(***************************************************************************)
OfConnection(x, k) == x.kind = k /\ x.cpu = Cpu /\ x.gen = rt.gen
OfService(x) == x.tool = be.tool /\ x.svcRev = be.svc.rev /\ x.svc = be.svc.summary
OfProgram(x) == x.path = Program(Cpu).path /\ x.rev = be.prog[Cpu] /\ x.id = Program(Cpu).summary
OfRamImage(x) == x.path = Ram(Cpu).path /\ x.rev = be.ram[Cpu] /\ x.id = Ram(Cpu).summary

FrozenRecord(k) ==
    [kind |-> k, cpu |-> Cpu, gen |-> rt.gen, path |-> None, rev |-> 0, tool |-> be.tool,
     id |-> None, svcRev |-> be.svc.rev, svc |-> be.svc.summary, scope |-> None, mask |-> {},
     meta |-> None, evidence |-> None]

LEMMA FrozenIs ==
    ASSUME NEW k
    PROVE  Frozen(k) = FrozenRecord(k)
<1>1. PICK n : n = NoContext
  OBVIOUS
<1>2. PICK g : g = rt.gen
  OBVIOUS
<1>3. PICK t : t = be.tool
  OBVIOUS
<1>4. PICK r : r = be.svc.rev
  OBVIOUS
<1>5. PICK s : s = be.svc.summary
  OBVIOUS
<1>6. n = [kind |-> None, cpu |-> None, gen |-> 0, path |-> None, rev |-> 0, tool |-> 0,
           id |-> None, svcRev |-> 0, svc |-> None, scope |-> None, mask |-> {},
           meta |-> None, evidence |-> None]
  BY <1>1 DEF NoContext
<1>9. PICK u : u = Cpu
  OBVIOUS
<1>7. Frozen(k) = [n EXCEPT !.kind = k, !.cpu = u, !.gen = g, !.tool = t, !.svcRev = r, !.svc = s]
  BY <1>1, <1>2, <1>3, <1>4, <1>5, <1>9 DEF Frozen
<1>8. FrozenRecord(k) = [kind |-> k, cpu |-> u, gen |-> g, path |-> None, rev |-> 0, tool |-> t,
                         id |-> None, svcRev |-> r, svc |-> s, scope |-> None, mask |-> {},
                         meta |-> None, evidence |-> None]
  BY <1>2, <1>3, <1>4, <1>5, <1>9 DEF FrozenRecord
<1>q. QED
  BY <1>6, <1>7, <1>8

ForSectors(x, v, m) == [x EXCEPT !.scope = v, !.mask = m]
ByEvidence(x, w) == [x EXCEPT !.evidence = w]
ByMeta(x, m) == [x EXCEPT !.meta = m]
ToRun(x, m) == [x EXCEPT !.meta = m, !.svcRev = 0, !.svc = None, !.tool = 0]
InRam(x, w) == [x EXCEPT !.evidence = w, !.svcRev = 0, !.svc = None]

LEMMA FrozenProgram ==
    ASSUME NEW k, NEW y, y = OnProgram(Frozen(k)), NEW v, NEW m, NEW w
    PROVE  /\ OfConnection(y, k) /\ OfService(y) /\ OfProgram(y)
           /\ \A z : z = ForSectors(y, v, m) =>
                 OfConnection(z, k) /\ OfService(z) /\ OfProgram(z) /\ z.mask = m
           /\ \A z : z = ByEvidence(y, w) =>
                 OfConnection(z, k) /\ OfService(z) /\ OfProgram(z) /\ z.evidence = w
<1>1. PICK u : u = FrozenRecord(k)
  OBVIOUS
<1>2. y = [u EXCEPT !.path = Program(Cpu).path, !.rev = be.prog[Cpu], !.id = Program(Cpu).summary]
  BY <1>1, FrozenIs DEF OnProgram
<1>3. y = [kind |-> k, cpu |-> Cpu, gen |-> rt.gen, path |-> Program(Cpu).path, rev |-> be.prog[Cpu],
           tool |-> be.tool, id |-> Program(Cpu).summary, svcRev |-> be.svc.rev, svc |-> be.svc.summary,
           scope |-> None, mask |-> {}, meta |-> None, evidence |-> None]
  BY <1>1, <1>2 DEF FrozenRecord
<1>4. OfConnection(y, k) /\ OfService(y) /\ OfProgram(y)
  BY <1>3 DEF OfConnection, OfService, OfProgram
<1>5. ASSUME NEW z, z = ForSectors(y, v, m)
      PROVE  OfConnection(z, k) /\ OfService(z) /\ OfProgram(z) /\ z.mask = m
  BY <1>3, <1>5 DEF ForSectors, OfConnection, OfService, OfProgram
<1>6. ASSUME NEW z, z = ByEvidence(y, w)
      PROVE  OfConnection(z, k) /\ OfService(z) /\ OfProgram(z) /\ z.evidence = w
  BY <1>3, <1>6 DEF ByEvidence, OfConnection, OfService, OfProgram
<1>q. QED
  BY <1>4, <1>5, <1>6

LEMMA FrozenMeta ==
    ASSUME NEW k, NEW x, NEW m
    PROVE  /\ x = ByMeta(Frozen(k), m) =>
                 OfConnection(x, k) /\ OfService(x) /\ x.meta = m /\ x.path = None
           /\ x = ToRun(Frozen(k), m) => OfConnection(x, k) /\ x.meta = m /\ x.path = None
<1>1. PICK u : u = FrozenRecord(k)
  OBVIOUS
<1>2. x = ByMeta(u, m) => OfConnection(x, k) /\ OfService(x) /\ x.meta = m /\ x.path = None
  BY <1>1 DEF FrozenRecord, OfConnection, OfService, ByMeta
<1>3. x = ToRun(u, m) => OfConnection(x, k) /\ x.meta = m /\ x.path = None
  BY <1>1 DEF FrozenRecord, OfConnection, ToRun
<1>q. QED
  BY <1>1, <1>2, <1>3, FrozenIs

LEMMA FrozenRam ==
    ASSUME NEW k, NEW w, NEW x, x = InRam(OnRam(Frozen(k)), w)
    PROVE  OfConnection(x, k) /\ OfRamImage(x) /\ x.tool = be.tool /\ x.evidence = w
<1>1. PICK u : u = FrozenRecord(k)
  OBVIOUS
<1>2. PICK y : y = OnRam(u)
  OBVIOUS
<1>3. y = [kind |-> k, cpu |-> Cpu, gen |-> rt.gen, path |-> Ram(Cpu).path, rev |-> be.ram[Cpu],
           tool |-> be.tool, id |-> Ram(Cpu).summary, svcRev |-> be.svc.rev, svc |-> be.svc.summary,
           scope |-> None, mask |-> {}, meta |-> None, evidence |-> None]
  BY <1>1, <1>2 DEF FrozenRecord, OnRam
<1>4. x = InRam(y, w)
  BY <1>1, <1>2, FrozenIs
<1>q. QED
  BY <1>3, <1>4 DEF OfConnection, OfRamImage, InRam

LEMMA FlashContext ==
    ASSUME NEW k \in FlashKinds, NEW x, x = flash_context(k), x # NoContext
    PROVE  /\ Idle /\ Program(Cpu).status = "READY" /\ ServiceReady /\ Cpu \in FlashCpus
           /\ OfConnection(x, k) /\ OfService(x) /\ OfProgram(x) /\ (k = "ERASE" => x.mask # {})
<1>1. Idle /\ Program(Cpu).status = "READY" /\ ServiceReady /\ Cpu \in FlashCpus
  BY DEF flash_context
<1>2. PICK y : y = OnProgram(Frozen(k))
  OBVIOUS
<1>3. CASE k # "ERASE"
  <2>1. x = y
    BY <1>1, <1>2, <1>3 DEF flash_context
  <2>q. QED
    BY <1>1, <1>2, <1>3, <2>1, FrozenProgram
<1>4. CASE k = "ERASE"
  <2>1. PICK m : m = erase_mask(rt.res[Cpu].scope, rt.res[Cpu].mask)
    OBVIOUS
  <2>2. m # {} /\ x = ForSectors(y, rt.res[Cpu].scope, m)
    BY <1>1, <1>2, <1>4, <2>1 DEF flash_context, ForSectors
  <2>3. OfConnection(x, k) /\ OfService(x) /\ OfProgram(x) /\ x.mask = m
    BY <1>2, <2>2, FrozenProgram
  <2>q. QED
    BY <1>1, <2>2, <2>3
<1>q. QED
  BY <1>3, <1>4

LEMMA AppendContext ==
    ASSUME NEW k \in AppendKinds, NEW x, x = metadata_context(k), x # NoContext
    PROVE  /\ Idle /\ ServiceReady /\ OfConnection(x, k) /\ OfService(x)
           /\ k = "IMAGE_VALID" =>
                 /\ Program(Cpu).status = "READY" /\ OfProgram(x)
                 /\ rt.res[Cpu].verify = [cpu |-> Cpu, gen |-> rt.gen, id |-> Program(Cpu).summary]
                 /\ x.evidence = rt.res[Cpu].verify
           /\ k # "IMAGE_VALID" => /\ SeenImage /\ ~rt.meta.value.confirmed
                                   /\ x.meta = rt.meta.value /\ x.path = None
           /\ k = "BOOT_ATTEMPT" => rt.meta.value.attempts < Limit
           /\ k = "APP_CONFIRMED" => rt.meta.value.attempts > 0
<1>1. Idle /\ ServiceReady
  BY DEF metadata_context
<1>2. CASE k = "IMAGE_VALID"
  <2>1. PICK y : y = OnProgram(Frozen(k))
    OBVIOUS
  <2>2. PICK w : w = rt.res[Cpu].verify
    OBVIOUS
  <2>3. /\ Program(Cpu).status = "READY"
        /\ w = [cpu |-> Cpu, gen |-> rt.gen, id |-> Program(Cpu).summary]
        /\ x = ByEvidence(y, w)
    BY <1>1, <1>2, <2>1, <2>2 DEF metadata_context, ByEvidence
  <2>4. OfConnection(x, k) /\ OfService(x) /\ OfProgram(x) /\ x.evidence = w
    BY <2>1, <2>3, FrozenProgram
  <2>q. QED
    BY <1>1, <1>2, <2>2, <2>3, <2>4
<1>3. CASE k = "BOOT_ATTEMPT"
  <2>1. /\ SeenImage /\ ~rt.meta.value.confirmed /\ rt.meta.value.attempts < Limit
        /\ x = ByMeta(Frozen(k), rt.meta.value)
    BY <1>1, <1>3 DEF metadata_context, ByMeta
  <2>2. OfConnection(x, k) /\ OfService(x) /\ x.meta = rt.meta.value /\ x.path = None
    BY <2>1, FrozenMeta
  <2>q. QED
    BY <1>1, <1>3, <2>1, <2>2
<1>4. CASE k = "APP_CONFIRMED"
  <2>1. /\ SeenImage /\ ~rt.meta.value.confirmed /\ rt.meta.value.attempts > 0
        /\ x = ByMeta(Frozen(k), rt.meta.value)
    BY <1>1, <1>4 DEF metadata_context, ByMeta
  <2>2. OfConnection(x, k) /\ OfService(x) /\ x.meta = rt.meta.value /\ x.path = None
    BY <2>1, FrozenMeta
  <2>q. QED
    BY <1>1, <1>4, <2>1, <2>2
<1>q. QED
  BY <1>2, <1>3, <1>4 DEF AppendKinds

LEMMA RamContext ==
    ASSUME NEW k \in RamKinds, NEW x, x = ram_context(k), x # NoContext
    PROVE  /\ Idle /\ Cpu \in RamCpus /\ Ram(Cpu).status = "READY"
           /\ OfConnection(x, k) /\ OfRamImage(x) /\ x.tool = be.tool
           /\ k = "RAM_RUN" => ram_run_evidence /\ x.evidence = rt.res[Cpu].crc
<1>1. PICK w : w = IF k = "RAM_RUN" THEN rt.res[Cpu].crc ELSE None
  OBVIOUS
<1>2. /\ Idle /\ Cpu \in RamCpus /\ Ram(Cpu).status = "READY" /\ (k = "RAM_RUN" => ram_run_evidence)
      /\ x = InRam(OnRam(Frozen(k)), w)
  BY <1>1 DEF ram_context, InRam
<1>3. OfConnection(x, k) /\ OfRamImage(x) /\ x.tool = be.tool /\ x.evidence = w
  BY <1>2, FrozenRam
<1>q. QED
  BY <1>1, <1>2, <1>3

LEMMA RunContext ==
    ASSUME NEW x, x = execution_context, x # NoContext
    PROVE  Idle /\ Cpu = RunCpu /\ SeenImage /\ OfConnection(x, "RUN") /\ x.meta = rt.meta.value /\ x.path = None
<1>1. /\ Idle /\ Cpu = RunCpu /\ SeenImage
      /\ x = ToRun(Frozen("RUN"), rt.meta.value)
  BY DEF execution_context, ToRun
<1>2. OfConnection(x, "RUN") /\ x.meta = rt.meta.value /\ x.path = None
  BY <1>1, FrozenMeta
<1>q. QED
  BY <1>1, <1>2

LEMMA ReadContext ==
    ASSUME NEW k, NEW x, x = read_context(k), x # NoContext
    PROVE  Idle /\ Reads(Cpu, k) /\ OfConnection(x, k) /\ x.path = None
<1>1. Idle /\ Reads(Cpu, k) /\ x = [NoContext EXCEPT !.kind = k, !.cpu = Cpu, !.gen = rt.gen]
  BY DEF read_context
<1>2. OfConnection(x, k) /\ x.path = None
  BY <1>1 DEF NoContext, OfConnection
<1>q. QED
  BY <1>1, <1>2

(***************************************************************************)
(* What a page offers: the context is sound, current, and the backend has  *)
(* no objection to it.                                                     *)
(***************************************************************************)
LEMMA IdleFacts ==
    ASSUME TasksInvariant, Idle
    PROVE  /\ Cpu \in Cpus /\ rt.gen \in Nat /\ rt.conn # None /\ rt.conn = [gen |-> rt.gen, cpu |-> Cpu]
           /\ job = NoJob /\ job.reason = None
<1>0. TaskTypes /\ StoreIsSound /\ TaskParts
  BY DEF TasksInvariant
<1>1. rt.conn # None /\ rt.conn \in Connections /\ rt \in Stores
  BY <1>0 DEF Idle, Connected, TaskTypes, Stores
<1>2. rt.conn.gen = rt.gen
  BY <1>0, <1>1 DEF StoreIsSound, SnapshotValid
<1>3. Cpu \in Cpus
  BY <1>1 DEF Cpu, Connections
<1>4. rt.conn = [gen |-> rt.gen, cpu |-> Cpu]
  BY <1>1, <1>2, ConnectionEquals DEF Cpu
<1>5. job = NoJob
  BY <1>0 DEF Idle, NoTask, TaskParts, JobIsSound
<1>q. QED
  BY <1>1, <1>3, <1>4, <1>5 DEF NoJob, Stores

LEMMA ReadyImages ==
    ASSUME TasksInvariant, NEW c \in Cpus
    PROVE  /\ Program(c) \in ImageStates /\ Ram(c) \in ImageStates
           /\ Program(c).status = "READY" => Program(c).path \in Files /\ Program(c).summary \in Contents
           /\ Ram(c).status = "READY" => Ram(c).path \in Files /\ Ram(c).summary \in Contents
<1>0. TaskTypes /\ StoreIsSound
  BY DEF TasksInvariant
<1>1. rt.res[c] \in Resources
  BY <1>0 DEF TaskTypes, Stores
<1>2. Program(c) \in ImageStates /\ Ram(c) \in ImageStates
  BY <1>1 DEF Resources, Program, Ram
<1>3. ParseStateValid(Program(c)) /\ ParseStateValid(Ram(c))
  BY <1>0 DEF StoreIsSound, SnapshotValid, ResourceValid, Program, Ram
<1>4. Named(Program(c)) /\ Named(Ram(c))
  BY <1>0 DEF StoreIsSound, AllNamed, Program, Ram
<1>5. Program(c).status = "READY" => Program(c).path \in Files /\ Program(c).summary \in Contents
  BY <1>2, <1>3, <1>4 DEF ParseStateValid, Named, ImageStates
<1>6. Ram(c).status = "READY" => Ram(c).path \in Files /\ Ram(c).summary \in Contents
  BY <1>2, <1>3, <1>4 DEF ParseStateValid, Named, ImageStates
<1>q. QED
  BY <1>2, <1>5, <1>6

ContextIsGood(x, k) ==
    /\ Idle /\ x.kind = k /\ x.cpu \in Cpus /\ ContextIsSound(x) /\ OnConnection(x, rt)
    /\ k \in FlashKinds \cup AppendKinds => context_current(x, rt, be)
    /\ Problem(x) = None

LEMMA ConnectionAgrees ==
    ASSUME TasksInvariant, Idle, NEW x, NEW k, OfConnection(x, k)
    PROVE  OnConnection(x, rt) /\ connection_problem(x) = None /\ x.cpu \in Cpus /\ same_connection(x, rt)
<1>1. rt.conn # None /\ rt.conn = [gen |-> rt.gen, cpu |-> Cpu] /\ Cpu \in Cpus
  BY IdleFacts
<1>q. QED
  BY <1>1 DEF OfConnection, OnConnection, connection_problem, Connected, same_connection

LEMMA ProgramAgrees ==
    ASSUME NEW x, NEW k, OfConnection(x, k), OfProgram(x), x.tool = be.tool, Program(Cpu).status = "READY"
    PROVE  program_problem(x) = None /\ program_inputs_current(x, rt, be)
<1>1. x.cpu = Cpu
  BY DEF OfConnection
<1>2. program_problem(x) = None
  BY <1>1 DEF OfProgram, program_problem, Stale
<1>3. program_inputs_current(x, rt, be)
  BY <1>1 DEF OfProgram, program_inputs_current, Program
<1>q. QED
  BY <1>2, <1>3

LEMMA ServiceAgrees ==
    ASSUME NEW x, OfService(x), ServiceReady
    PROVE  service_problem(x) = None
BY DEF OfService, ServiceReady, service_problem

LEMMA FlashIsGood ==
    ASSUME TasksInvariant, NEW k \in FlashKinds, NEW x, x = flash_context(k), x # NoContext
    PROVE  ContextIsGood(x, k)
<1>1. /\ Idle /\ Program(Cpu).status = "READY" /\ ServiceReady /\ Cpu \in FlashCpus
      /\ OfConnection(x, k) /\ OfService(x) /\ OfProgram(x) /\ (k = "ERASE" => x.mask # {})
  BY FlashContext
<1>2. OnConnection(x, rt) /\ connection_problem(x) = None /\ x.cpu \in Cpus /\ same_connection(x, rt)
  BY <1>1, ConnectionAgrees
<1>3. x.kind = k /\ x.cpu = Cpu /\ x.tool = be.tool
  BY <1>1 DEF OfConnection, OfService
<1>4. program_problem(x) = None /\ program_inputs_current(x, rt, be)
  BY <1>1, <1>3, ProgramAgrees
<1>5. service_problem(x) = None
  BY <1>1, ServiceAgrees
<1>6. context_current(x, rt, be)
  BY <1>1, <1>2, <1>3, <1>4
     DEF context_current, non_service_context_current, OfService, FlashKinds
<1>7. x.path \in Files /\ x.id \in Contents
  BY <1>1, <1>2, <1>3, ReadyImages DEF OfProgram
<1>8. ContextIsSound(x)
  BY <1>2, <1>3, <1>7 DEF ContextIsSound, Kinds, FlashKinds, PrepareKinds
<1>9. Problem(x) = None
  <2>1. PICK b : b = Unless(x.cpu \in FlashCpus, "UNSUPPORTED_OPERATION")
    OBVIOUS
  <2>2. PICK e : e = Unless(x.kind = "ERASE" => x.mask # {}, "FORBIDDEN_SECTOR")
    OBVIOUS
  <2>3. b = None /\ e = None
    BY <1>1, <1>3, <2>1, <2>2 DEF Unless
  <2>4. flash_problem(x) = FirstProblem(<<connection_problem(x), b, program_problem(x), service_problem(x), e>>)
    BY <2>1, <2>2 DEF flash_problem
  <2>5. flash_problem(x) = None
    BY <1>2, <1>4, <1>5, <2>3, <2>4, FirstOf5
  <2>q. QED
    BY <1>3, <2>5, ProblemOfKind
<1>q. QED
  BY <1>1, <1>2, <1>3, <1>6, <1>8, <1>9 DEF ContextIsGood

LEMMA AppendIsGood ==
    ASSUME TasksInvariant, NEW k \in AppendKinds, NEW x, x = metadata_context(k), x # NoContext
    PROVE  ContextIsGood(x, k)
<1>0. TaskTypes /\ StoreIsSound
  BY DEF TasksInvariant
<1>1. /\ Idle /\ ServiceReady /\ OfConnection(x, k) /\ OfService(x)
      /\ k = "IMAGE_VALID" =>
                 /\ Program(Cpu).status = "READY" /\ OfProgram(x)
                 /\ rt.res[Cpu].verify = [cpu |-> Cpu, gen |-> rt.gen, id |-> Program(Cpu).summary]
                 /\ x.evidence = rt.res[Cpu].verify
      /\ k # "IMAGE_VALID" => /\ SeenImage /\ ~rt.meta.value.confirmed
                              /\ x.meta = rt.meta.value /\ x.path = None
      /\ k = "BOOT_ATTEMPT" => rt.meta.value.attempts < Limit
      /\ k = "APP_CONFIRMED" => rt.meta.value.attempts > 0
  BY AppendContext
<1>2. OnConnection(x, rt) /\ connection_problem(x) = None /\ x.cpu \in Cpus /\ same_connection(x, rt)
  BY <1>1, ConnectionAgrees
<1>3. x.kind = k /\ x.cpu = Cpu /\ x.tool = be.tool /\ x.gen = rt.gen
  BY <1>1 DEF OfConnection, OfService
<1>4. service_problem(x) = None
  BY <1>1, ServiceAgrees
<1>5. PICK b : b = IF x.kind = "IMAGE_VALID" THEN program_problem(x) ELSE None
  OBVIOUS
<1>6. PICK d : d = IF x.kind = "IMAGE_VALID" THEN None ELSE metadata_problem(x)
  OBVIOUS
<1>7. PICK e : e = Unless(x.kind = "IMAGE_VALID" => verify_evidence_matches(x), "VERIFY_EVIDENCE_REQUIRED")
  OBVIOUS
<1>8. append_problem(x) = FirstProblem(<<connection_problem(x), b, service_problem(x), d, e>>)
  BY <1>5, <1>6, <1>7 DEF append_problem
<1>9. CASE k = "IMAGE_VALID"
  <2>1. program_problem(x) = None /\ program_inputs_current(x, rt, be)
    BY <1>1, <1>3, <1>9, ProgramAgrees
  <2>2. x.path \in Files /\ x.id \in Contents /\ x.id = Program(Cpu).summary /\ x.rev = be.prog[Cpu]
    BY <1>1, <1>2, <1>3, <1>9, ReadyImages DEF OfProgram
  <2>3. context_current(x, rt, be)
    BY <1>1, <1>2, <1>3, <1>9, <2>1
       DEF context_current, non_service_context_current, OfService
  <2>4. ContextIsSound(x)
    BY <1>2, <1>3, <1>9, <2>2 DEF ContextIsSound, Kinds, AppendKinds, PrepareKinds
  <2>5. PICK w : w = rt.res[Cpu].verify
    OBVIOUS
  <2>6. w = [cpu |-> Cpu, gen |-> rt.gen, id |-> x.id] /\ x.evidence = w
    BY <1>1, <1>9, <2>2, <2>5
  <2>7. w.gen = rt.gen /\ w.id = x.id
    BY <2>6
  <2>8. w # None
    BY <1>2, <1>3, <2>2, <2>6, IdleFacts, <1>1, NoneIsApart
  <2>9. verify_evidence_matches(x)
    BY <1>1, <1>2, <1>3, <2>2, <2>5, <2>6, <2>7, <2>8, IdleFacts
       DEF verify_evidence_matches, OnConnection
  <2>10. b = None /\ d = None /\ e = None
    BY <1>3, <1>5, <1>6, <1>7, <1>9, <2>1, <2>9 DEF Unless
  <2>11. append_problem(x) = None
    BY <1>2, <1>4, <1>8, <2>10, FirstOf5
  <2>12. Problem(x) = None
    BY <1>3, <2>11, ProblemOfKind
  <2>q. QED
    BY <1>1, <1>2, <1>3, <2>3, <2>4, <2>12 DEF ContextIsGood
<1>10. CASE k # "IMAGE_VALID"
  <2>1. rt.meta.freshness = "FRESH" /\ rt.meta.value.image # None /\ rt.meta.value # None
    BY <1>0, <1>1, <1>10 DEF SeenImage, StoreIsSound, SnapshotValid, MetadataValid
  <2>2. x.meta \in Journals
    BY <1>0, <1>1, <1>10, <2>1 DEF TaskTypes, Stores, MetaReadings
  <2>3. ContextIsSound(x)
    BY <1>1, <1>2, <1>3, <1>10, <2>1, <2>2
       DEF ContextIsSound, Kinds, AppendKinds, PrepareKinds, FlashKinds, RamKinds, NeedsImage
  <2>4. context_current(x, rt, be)
    BY <1>1, <1>2, <1>3, <1>10
       DEF context_current, non_service_context_current, OfService, AppendKinds, FlashKinds
  <2>5. metadata_problem(x) = None
    BY <1>1, <1>10, <2>1 DEF metadata_problem
  <2>6. b = None /\ d = None /\ e = None
    BY <1>3, <1>5, <1>6, <1>7, <1>10, <2>5 DEF Unless
  <2>7. append_problem(x) = None
    BY <1>2, <1>4, <1>8, <2>6, FirstOf5
  <2>8. Problem(x) = None
    BY <1>3, <2>7, ProblemOfKind
  <2>q. QED
    BY <1>1, <1>2, <1>3, <2>3, <2>4, <2>8 DEF ContextIsGood
<1>q. QED
  BY <1>9, <1>10

LEMMA RamIsGood ==
    ASSUME TasksInvariant, NEW k \in RamKinds, NEW x, x = ram_context(k), x # NoContext
    PROVE  ContextIsGood(x, k)
<1>1. /\ Idle /\ Cpu \in RamCpus /\ Ram(Cpu).status = "READY"
      /\ OfConnection(x, k) /\ OfRamImage(x) /\ x.tool = be.tool
      /\ k = "RAM_RUN" => ram_run_evidence /\ x.evidence = rt.res[Cpu].crc
  BY RamContext
<1>2. OnConnection(x, rt) /\ connection_problem(x) = None /\ x.cpu \in Cpus
  BY <1>1, ConnectionAgrees
<1>3. x.kind = k /\ x.cpu = Cpu
  BY <1>1 DEF OfConnection
<1>4. x.path \in Files /\ x.id \in Contents /\ x.id = Ram(Cpu).summary
  BY <1>1, <1>2, <1>3, ReadyImages DEF OfRamImage
<1>5. ContextIsSound(x)
  BY <1>2, <1>3, <1>4 DEF ContextIsSound, Kinds, RamKinds, PrepareKinds
<1>6. ram_problem(x) = None
  BY <1>1, <1>3 DEF OfRamImage, ram_problem, Stale
<1>7. k = "RAM_RUN" => ram_crc_evidence_matches(x)
  <2>1. SUFFICES ASSUME k = "RAM_RUN" PROVE ram_crc_evidence_matches(x)
    OBVIOUS
  <2>2. PICK w : w = rt.res[Cpu].crc
    OBVIOUS
  <2>3. w = [cpu |-> Cpu, gen |-> rt.gen, id |-> x.id] /\ x.evidence = w
    BY <1>1, <1>4, <2>1, <2>2 DEF ram_run_evidence
  <2>4. w.gen = rt.gen /\ w.id = x.id
    BY <2>3
  <2>5. w # None
    BY <1>1, <1>4, <2>3, IdleFacts, NoneIsApart
  <2>q. QED
    BY <1>1, <1>3, <2>2, <2>3, <2>4, <2>5, IdleFacts DEF ram_crc_evidence_matches
<1>8. Problem(x) = None
  <2>1. PICK b : b = IF x.kind = "RAM_RUN" THEN Unless(ram_problem(x) = None, "RAM_CRC_EVIDENCE_REQUIRED")
                     ELSE ram_problem(x)
    OBVIOUS
  <2>2. PICK c, d : /\ c = Unless(x.cpu \in RamCpus, "UNSUPPORTED_OPERATION")
                    /\ d = Unless(x.kind = "RAM_RUN" => ram_crc_evidence_matches(x),
                                  "RAM_CRC_EVIDENCE_REQUIRED")
    OBVIOUS
  <2>3. b = None /\ c = None /\ d = None
    BY <1>1, <1>3, <1>6, <1>7, <2>1, <2>2 DEF Unless
  <2>4. ram_operation_problem(x) = FirstProblem(<<connection_problem(x), b, c, d>>)
    BY <2>1, <2>2 DEF ram_operation_problem
  <2>5. ram_operation_problem(x) = None
    BY <1>2, <2>3, <2>4, FirstOf4
  <2>q. QED
    BY <1>3, <2>5, ProblemOfKind
<1>q. QED
  BY <1>1, <1>2, <1>3, <1>5, <1>8 DEF ContextIsGood, FlashKinds, AppendKinds, RamKinds

LEMMA RunIsGood ==
    ASSUME TasksInvariant, NEW x, x = execution_context, x # NoContext
    PROVE  ContextIsGood(x, "RUN")
<1>0. TaskTypes /\ StoreIsSound
  BY DEF TasksInvariant
<1>1. Idle /\ Cpu = RunCpu /\ SeenImage /\ OfConnection(x, "RUN") /\ x.meta = rt.meta.value /\ x.path = None
  BY RunContext
<1>2. OnConnection(x, rt) /\ connection_problem(x) = None /\ x.cpu \in Cpus
  BY <1>1, ConnectionAgrees
<1>3. x.kind = "RUN" /\ x.cpu = Cpu
  BY <1>1 DEF OfConnection
<1>4. ContextIsSound(x)
  BY <1>1, <1>2, <1>3
     DEF ContextIsSound, Kinds, FlashKinds, RamKinds, PrepareKinds, NeedsImage
<1>5. rt.meta.freshness = "FRESH" /\ rt.meta.value.image # None /\ rt.meta.value # None
  BY <1>0, <1>1 DEF SeenImage, StoreIsSound, SnapshotValid, MetadataValid
<1>6. Problem(x) = None
  <2>1. PICK b : b = Unless(x.cpu = RunCpu, "STALE_TARGET")
    OBVIOUS
  <2>2. PICK d : d = Unless(x.meta # None /\ x.meta.image # None, "IMAGE_VALID_REQUIRED")
    OBVIOUS
  <2>3. b = None /\ d = None /\ metadata_problem(x) = None
    BY <1>1, <1>3, <1>5, <2>1, <2>2 DEF Unless, metadata_problem
  <2>4. run_problem(x) = FirstProblem(<<connection_problem(x), b, metadata_problem(x), d>>)
    BY <2>1, <2>2 DEF run_problem
  <2>5. run_problem(x) = None
    BY <1>2, <2>3, <2>4, FirstOf4
  <2>q. QED
    BY <1>3, <2>5, ProblemOfKind
<1>q. QED
  BY <1>1, <1>2, <1>3, <1>4, <1>6 DEF ContextIsGood, FlashKinds, AppendKinds

LEMMA ReadIsGood ==
    ASSUME TasksInvariant, NEW k \in ReadKinds, NEW x, x = read_context(k), x # NoContext
    PROVE  ContextIsGood(x, k)
<1>1. Idle /\ Reads(Cpu, k) /\ OfConnection(x, k) /\ x.path = None
  BY ReadContext
<1>2. OnConnection(x, rt) /\ connection_problem(x) = None /\ x.cpu \in Cpus
  BY <1>1, ConnectionAgrees
<1>3. x.kind = k /\ x.cpu = Cpu
  BY <1>1 DEF OfConnection
<1>4. k \notin FlashKinds \cup AppendKinds \cup RamKinds \cup PrepareKinds
  BY GroupFacts DEF ReadKinds, FlashKinds, AppendKinds, RamKinds, PrepareKinds
<1>5. ContextIsSound(x)
  BY <1>1, <1>2, <1>3, <1>4
     DEF ContextIsSound, Kinds, FlashKinds, RamKinds, AppendKinds, PrepareKinds, NeedsImage
<1>6. Problem(x) = None
  <2>1. PICK b : b = Unless(Reads(x.cpu, x.kind), "UNSUPPORTED_OPERATION")
    OBVIOUS
  <2>2. b = None
    BY <1>1, <1>3, <2>1 DEF Unless
  <2>3. Problem(x) = FirstProblem(<<connection_problem(x), b>>)
    BY <1>3, <2>1, ProblemOfKind
  <2>q. QED
    BY <1>2, <2>2, <2>3, FirstOf2
<1>q. QED
  BY <1>1, <1>2, <1>3, <1>4, <1>5, <1>6 DEF ContextIsGood

LEMMA OfferedIsGood ==
    ASSUME TasksInvariant, NEW k \in Kinds \ PrepareKinds, NEW x, x = Context(k), x # NoContext
    PROVE  ContextIsGood(x, k)
<1>1. CASE k \in FlashKinds
  BY <1>1, FlashIsGood, GroupFacts DEF Context, FlashKinds, AppendKinds, RamKinds
<1>2. CASE k \in AppendKinds
  BY <1>2, AppendIsGood, GroupFacts DEF Context, FlashKinds, AppendKinds, RamKinds
<1>3. CASE k \in RamKinds
  BY <1>3, RamIsGood, GroupFacts DEF Context, FlashKinds, AppendKinds, RamKinds
<1>4. CASE k = "RUN"
  BY <1>4, RunIsGood DEF Context, FlashKinds, AppendKinds, RamKinds
<1>5. CASE k \in ReadKinds
  <2>1. k \notin FlashKinds /\ k \notin AppendKinds /\ k \notin RamKinds /\ k # "RUN"
    BY <1>5, GroupFacts DEF ReadKinds, FlashKinds, AppendKinds, RamKinds
  <2>2. x = read_context(k)
    BY <2>1 DEF Context
  <2>q. QED
    BY <1>5, <2>2, ReadIsGood
<1>q. QED
  BY <1>1, <1>2, <1>3, <1>4, <1>5 DEF Kinds

(***************************************************************************)
(* What a page offers the backend accepts.                                 *)
(***************************************************************************)
LEMMA OfferedIsAccepted ==
    ASSUME TasksInvariant
    PROVE  EnabledIsAccepted
BY OfferedIsGood DEF EnabledIsAccepted, ContextIsGood

-----------------------------------------------------------------------------
(***************************************************************************)
(* A step is put together from what it does to the store, the revisions,   *)
(* the device and the task.                                                *)
(***************************************************************************)
ServiceIsSound(v) == (v.status = "READY") = (v.summary # None)
PendingIsWrite(u) == u.pending # NoContext => u.pending.kind \in WriteKinds

LEMMA StepIsKept ==
    ASSUME TasksInvariant, SoundStep(rt, rt'), be' \in Backends, ServiceIsSound(be'.svc),
           dev' \in [Cpus -> Devices], DevicesKeep(dev, dev'), disk' = disk, changes' = changes,
           IsUi(ui'), IsJob(job'), TaskParts'
    PROVE  TasksInvariant'
<1>0. TaskTypes /\ StoreIsSound /\ ShownIsTrue
  BY DEF TasksInvariant
<1>1. TaskTypes'
  BY <1>0 DEF TaskTypes, SoundStep
<1>2. StoreIsSound'
  BY <1>0 DEF StoreIsSound, SoundStep, Calm, ServiceIsSound
<1>3. ShownIsTrue'
  BY <1>0, TruthCalm DEF SoundStep, TaskTypes
<1>q. QED
  BY <1>1, <1>2, <1>3 DEF TasksInvariant

LEMMA SoundFacts ==
    ASSUME TasksInvariant
    PROVE  /\ rt \in Stores /\ SnapshotValid(rt) /\ AllNamed(rt) /\ be \in Backends
           /\ ServiceIsSound(be.svc) /\ dev \in [Cpus -> Devices] /\ disk \in [Files -> Contents]
           /\ IsUi(ui) /\ IsJob(job) /\ PendingIsWrite(ui) /\ TaskParts /\ JobIsSound
           /\ SoundStep(rt, rt)
<1>0. TaskTypes /\ StoreIsSound /\ TaskParts /\ JobIsSound
  BY DEF TasksInvariant, TaskParts
<1>1. SoundStep(rt, rt)
  BY <1>0, SameStore DEF TaskTypes, StoreIsSound
<1>q. QED
  BY <1>0, <1>1 DEF TaskTypes, StoreIsSound, ServiceIsSound, PendingIsWrite, JobIsSound

LEMMA SameDevices ==
    ASSUME TasksInvariant, dev' = dev
    PROVE  dev' \in [Cpus -> Devices] /\ DevicesKeep(dev, dev')
BY SoundFacts, DevicesStay

(***************************************************************************)
(* Only what the dialog remembers changes.                                 *)
(***************************************************************************)
LEMMA DialogParts ==
    ASSUME TaskParts, rt' = rt, be' = be, job' = job, dev' = dev, PendingIsWrite(ui')
    PROVE  TaskParts'
<1>1. JobIsSound'
  BY DEF TaskParts, JobIsSound, PendingIsWrite
<1>2. Announced' /\ Checked'
  BY DEF TaskParts, Announced, Checked
<1>3. Pending' /\ NoFalseMismatch'
  BY DEF TaskParts, Pending, NoFalseMismatch
<1>q. QED
  BY <1>1, <1>2, <1>3 DEF TaskParts

(***************************************************************************)
(* A task is queued with a sound context.                                  *)
(***************************************************************************)
LEMMA QueuedParts ==
    ASSUME NEW x, job' = Queued(x), ContextIsSound(x), PendingIsWrite(ui'),
           x.kind \notin PrepareKinds => OnConnection(x, rt'),
           x.kind \in FlashKinds \cup AppendKinds => context_current(x, rt', be')
    PROVE  IsJob(job') /\ TaskParts'
<1>1. job' = [stage |-> "queued", ctx |-> x, touched |-> {}, result |-> None, reason |-> None]
  BY DEF Queued, NoJob
<1>2. IsJob(job') /\ job'.stage = "queued" /\ job'.ctx = x /\ job'.result = None /\ job'.reason = None
  BY <1>1 DEF IsJob
<1>3. JobIsSound'
  BY <1>2, NoneFacts DEF JobIsSound, Stages, ActiveStages, PendingIsWrite
<1>4. Announced' /\ Checked'
  BY <1>2 DEF Announced, Checked, StageFits
<1>5. Pending' /\ NoFalseMismatch'
  BY <1>2, NoneFacts DEF Pending, NoFalseMismatch
<1>q. QED
  BY <1>2, <1>3, <1>4, <1>5 DEF TaskParts

(***************************************************************************)
(* A task ends with an outcome its page will recognise.                    *)
(***************************************************************************)
LEMMA EndedParts ==
    ASSUME JobIsSound, job.stage # None, IsJob(job), NEW r, job' = Ended(job, r), ui' = ui,
           rt'.conn = rt.conn, NotMismatch(r),
           job.ctx.kind \in FlashKinds \cup AppendKinds => shown(job.ctx, r, rt', be')
    PROVE  IsJob(job') /\ TaskParts'
<1>0. PICK j : j = job
  OBVIOUS
<1>1. j = [stage |-> j.stage, ctx |-> j.ctx, touched |-> j.touched, result |-> j.result,
           reason |-> j.reason]
  BY <1>0 DEF IsJob
<1>2. PICK k : k = Ended(j, r)
  OBVIOUS
<1>3. IsJob(k) /\ k.stage = "done" /\ k.ctx = j.ctx /\ k.result = r
  BY <1>1, <1>2 DEF IsJob, Ended
<1>4. job' = k
  BY <1>0, <1>2
<1>5. JobIsSound'
  BY <1>0, <1>3, <1>4, NoneFacts DEF JobIsSound, Stages, ActiveStages, OnConnection
<1>6. Announced' /\ Checked'
  BY <1>3, <1>4 DEF Announced, Checked, StageFits
<1>7. Pending' /\ NoFalseMismatch'
  BY <1>0, <1>3, <1>4 DEF Pending, NoFalseMismatch, NotMismatch
<1>q. QED
  BY <1>3, <1>4, <1>5, <1>6, <1>7 DEF TaskParts

LEMMA PresentKeeps ==
    ASSUME TasksInvariant, Idle, NEW k, Present(k)
    PROVE  TasksInvariant'
<1>1. PICK x : x = Context(k)
  OBVIOUS
<1>2. k \in Kinds \ PrepareKinds /\ k \in WriteKinds /\ x # NoContext
  BY <1>1 DEF Present, Kinds, PrepareKinds, WriteKinds, FlashKinds, AppendKinds
<1>3. x.kind \in WriteKinds
  BY <1>1, <1>2, OfferedIsGood DEF ContextIsGood
<1>4. rt' = rt /\ be' = be /\ job' = job /\ disk' = disk /\ dev' = dev /\ changes' = changes
  BY DEF Present
<1>5. IsUi(ui') /\ ui'.pending = x
  BY <1>1, SoundFacts, UiSteps DEF Present, SetPending
<1>6. TaskParts'
  BY <1>3, <1>4, <1>5, SoundFacts, DialogParts DEF PendingIsWrite
<1>q. QED
  BY <1>4, <1>5, <1>6, SoundFacts, SameDevices, StepIsKept

LEMMA RejectWriteKeeps ==
    ASSUME TasksInvariant, RejectWrite
    PROVE  TasksInvariant'
<1>1. rt' = rt /\ be' = be /\ job' = job /\ disk' = disk /\ dev' = dev /\ changes' = changes
  BY DEF RejectWrite
<1>2. IsUi(ui') /\ ui'.pending = NoContext
  BY SoundFacts, UiSteps DEF RejectWrite, SetPending
<1>3. TaskParts'
  BY <1>1, <1>2, SoundFacts, DialogParts DEF PendingIsWrite
<1>q. QED
  BY <1>1, <1>2, <1>3, SoundFacts, SameDevices, StepIsKept

LEMMA SubmitKeeps ==
    ASSUME TasksInvariant, NEW k, Submit(k)
    PROVE  TasksInvariant'
<1>1. PICK x : x = Context(k)
  OBVIOUS
<1>2. k \in Kinds \ PrepareKinds /\ x # NoContext /\ job' = Queued(x)
  BY <1>1 DEF Submit
<1>3. ContextIsGood(x, k)
  BY <1>1, <1>2, OfferedIsGood
<1>4. rt' = rt /\ be' = be /\ ui' = ui /\ disk' = disk /\ dev' = dev /\ changes' = changes
  BY DEF Submit
<1>5. IsJob(job') /\ TaskParts'
  BY <1>2, <1>3, <1>4, SoundFacts, QueuedParts DEF ContextIsGood
<1>q. QED
  BY <1>4, <1>5, SoundFacts, SameDevices, StepIsKept

LEMMA ConfirmKeeps ==
    ASSUME TasksInvariant, Confirm
    PROVE  TasksInvariant'
<1>1. PICK x : x = ui.pending
  OBVIOUS
<1>2. x # NoContext /\ x.kind \in WriteKinds /\ x.kind \in Kinds \ PrepareKinds
  BY <1>1, SoundFacts
     DEF PendingIsWrite, Confirm, Kinds, PrepareKinds, WriteKinds, FlashKinds, AppendKinds
<1>3. rt' = rt /\ be' = be /\ disk' = disk /\ dev' = dev /\ changes' = changes
  BY DEF Confirm
<1>4. IsUi(ui') /\ ui'.pending = NoContext /\ PendingIsWrite(ui')
  BY SoundFacts, UiSteps DEF Confirm, SetPending, PendingIsWrite
<1>5. IsJob(job') /\ TaskParts'
  <2>1. CASE Context(x.kind) = x
    <3>1. job' = Queued(x)
      BY <1>1, <2>1 DEF Confirm
    <3>2. ContextIsGood(x, x.kind)
      BY <1>2, <2>1, OfferedIsGood
    <3>q. QED
      BY <1>3, <1>4, <3>1, <3>2, QueuedParts DEF ContextIsGood
  <2>2. CASE Context(x.kind) # x
    <3>1. job' = job
      BY <1>1, <2>2 DEF Confirm
    <3>q. QED
      BY <1>3, <1>4, <3>1, SoundFacts, DialogParts
  <2>q. QED
    BY <2>1, <2>2
<1>q. QED
  BY <1>3, <1>4, <1>5, SoundFacts, SameDevices, StepIsKept

LEMMA TaskGone ==
    ASSUME TasksInvariant, job' = NoJob, rt' = rt, be' = be, ui' = ui, disk' = disk, dev' = dev,
           changes' = changes
    PROVE  TasksInvariant'
<1>1. IsJob(job')
  BY DEF IsJob, NoJob
<1>2. TaskParts'
  BY SoundFacts, NoTaskParts DEF PendingIsWrite
<1>q. QED
  BY <1>1, <1>2, SoundFacts, SameDevices, StepIsKept

-----------------------------------------------------------------------------
(***************************************************************************)
(* The contexts of a preparation, and the revisions it leaves.             *)
(***************************************************************************)
ForImage(k, c, p, v) == [NoContext EXCEPT !.kind = k, !.cpu = c, !.path = p, !.rev = v]
ForService(c, t, v, w) ==
    [NoContext EXCEPT !.kind = "PREPARE_SERVICE", !.cpu = c, !.tool = t, !.svcRev = v, !.svc = w]

LEMMA ImagePreparation ==
    ASSUME NEW k \in {"PREPARE_FLASH", "PREPARE_RAM"}, NEW c \in Cpus, NEW p \in Files, NEW v, NEW x,
           x = ForImage(k, c, p, v)
    PROVE  ContextIsSound(x) /\ x.kind \in PrepareKinds /\ x.kind \notin FlashKinds \cup AppendKinds
<1>1. x.kind = k /\ x.cpu = c /\ x.path = p /\ x.id = None
  BY DEF ForImage, NoContext
<1>q. QED
  BY <1>1 DEF ContextIsSound, Kinds, PrepareKinds, FlashKinds, AppendKinds, RamKinds

LEMMA ServicePreparation ==
    ASSUME NEW c \in Cpus, NEW t, NEW v, NEW w, NEW x, x = ForService(c, t, v, w)
    PROVE  ContextIsSound(x) /\ x.kind \in PrepareKinds /\ x.kind \notin FlashKinds \cup AppendKinds
<1>1. x.kind = "PREPARE_SERVICE" /\ x.cpu = c /\ x.path = None /\ x.id = None
  BY DEF ForService, NoContext
<1>q. QED
  BY <1>1 DEF ContextIsSound, Kinds, PrepareKinds, FlashKinds, AppendKinds, RamKinds, NeedsImage

WithSvc(b, v) == [b EXCEPT !.svc = v]

LEMMA SvcType ==
    ASSUME NEW b \in Backends, NEW v \in ServiceStates, NEW a, a = WithSvc(b, v)
    PROVE  a \in Backends /\ a.svc = v /\ a.prog = b.prog /\ a.ram = b.ram /\ a.tool = b.tool
BY DEF Backends, WithSvc

LEMMA PrepareProgramImageKeeps ==
    ASSUME TasksInvariant, NEW c \in Cpus, PrepareProgramImage(c)
    PROVE  TasksInvariant'
<1>1. PICK p, x : p = Program(c).path /\ x = ForImage("PREPARE_FLASH", c, p, be.prog[c])
  OBVIOUS
<1>2. p \in Files
  BY <1>1, ReadyImages DEF PrepareProgramImage, ImageStates
<1>3. PICK e : e = ProgramImageChanged(c, p, "PARSING", None)
  OBVIOUS
<1>4. rt' = Transition(e, rt) /\ job' = Queued(x)
  BY <1>1, <1>3 DEF PrepareProgramImage, begin_program_image_parse, Dispatch, ForImage
<1>5. be' = be /\ ui' = ui /\ disk' = disk /\ dev' = dev /\ changes' = changes
  BY DEF PrepareProgramImage
<1>6. SoundStep(rt, rt')
  BY <1>2, <1>3, <1>4, SoundFacts, ProgramStep DEF ParseStatuses
<1>7. IsJob(job') /\ TaskParts'
  BY <1>1, <1>2, <1>4, <1>5, SoundFacts, ImagePreparation, QueuedParts
<1>q. QED
  BY <1>5, <1>6, <1>7, SoundFacts, SameDevices, StepIsKept

LEMMA PrepareRamImageKeeps ==
    ASSUME TasksInvariant, NEW c \in Cpus, PrepareRamImage(c)
    PROVE  TasksInvariant'
<1>1. PICK p, x : p = Ram(c).path /\ x = ForImage("PREPARE_RAM", c, p, be.ram[c])
  OBVIOUS
<1>2. p \in Files
  BY <1>1, ReadyImages DEF PrepareRamImage, ImageStates
<1>3. PICK e : e = RamImageChanged(c, p, "PARSING", None)
  OBVIOUS
<1>4. rt' = Transition(e, rt) /\ job' = Queued(x)
  BY <1>1, <1>3 DEF PrepareRamImage, begin_ram_image_parse, Dispatch, ForImage
<1>5. be' = be /\ ui' = ui /\ disk' = disk /\ dev' = dev /\ changes' = changes
  BY DEF PrepareRamImage
<1>6. SoundStep(rt, rt')
  BY <1>2, <1>3, <1>4, SoundFacts, RamImageStep DEF ParseStatuses
<1>7. IsJob(job') /\ TaskParts'
  BY <1>1, <1>2, <1>4, <1>5, SoundFacts, ImagePreparation, QueuedParts
<1>q. QED
  BY <1>5, <1>6, <1>7, SoundFacts, SameDevices, StepIsKept

LEMMA RefreshedType ==
    ASSUME TasksInvariant, NEW v, v = Refreshed
    PROVE  v \in ServiceStates /\ ServiceIsSound(v)
<1>0. be.svc \in ServiceStates /\ be.svc.rev \in Nat /\ ServiceIsSound(be.svc)
  BY SoundFacts DEF Backends, ServiceStates
<1>1. CASE disk[ServiceFile] = Missing
  <2>1. PICK n : n = be.svc.rev + (IF be.svc.status = "UNAVAILABLE" THEN 0 ELSE 1)
    OBVIOUS
  <2>2. n \in Nat
    BY <1>0, <2>1
  <2>3. v = [status |-> "UNAVAILABLE", summary |-> None, rev |-> n]
    BY <1>1, <2>1 DEF Refreshed
  <2>q. QED
    BY <2>2, <2>3 DEF ServiceStates, ServiceIsSound
<1>2. CASE disk[ServiceFile] # Missing /\ be.svc.status = "READY"
  <2>1. v = be.svc
    BY <1>2 DEF Refreshed
  <2>q. QED
    BY <1>0, <2>1
<1>3. CASE disk[ServiceFile] # Missing /\ be.svc.status # "READY"
  <2>1. PICK n : n = be.svc.rev + (IF be.svc.status = "UNAVAILABLE" THEN 1 ELSE 0)
    OBVIOUS
  <2>2. n \in Nat
    BY <1>0, <2>1
  <2>3. v = [status |-> "UNVALIDATED", summary |-> None, rev |-> n]
    BY <1>3, <2>1 DEF Refreshed
  <2>q. QED
    BY <2>2, <2>3 DEF ServiceStates, ServiceIsSound
<1>q. QED
  BY <1>1, <1>2, <1>3

LEMMA PrepareFlashServiceKeeps ==
    ASSUME TasksInvariant, NEW c \in Cpus, PrepareFlashService(c)
    PROVE  TasksInvariant'
<1>1. PICK v : v = Refreshed
  OBVIOUS
<1>2. v \in ServiceStates /\ ServiceIsSound(v)
  BY <1>1, RefreshedType
<1>3. be' = WithSvc(be, v)
  BY <1>1 DEF PrepareFlashService, WithSvc
<1>4. be' \in Backends /\ be'.svc = v
  BY <1>2, <1>3, SoundFacts, SvcType
<1>5. rt' = rt /\ ui' = ui /\ disk' = disk /\ dev' = dev /\ changes' = changes
  BY DEF PrepareFlashService
<1>6. job = NoJob
  BY SoundFacts DEF PrepareFlashService, NoTask, JobIsSound
<1>7. IsJob(job') /\ TaskParts'
  <2>1. CASE v.status = "UNAVAILABLE"
    <3>1. job' = NoJob
      BY <1>1, <1>6, <2>1 DEF PrepareFlashService
    <3>q. QED
      BY <1>5, <3>1, SoundFacts, NoTaskParts DEF PendingIsWrite, IsJob, NoJob
  <2>2. CASE v.status # "UNAVAILABLE"
    <3>1. PICK x : x = ForService(c, be.tool, v.rev, v.summary)
      OBVIOUS
    <3>2. job' = Queued(x)
      BY <1>1, <2>2, <3>1 DEF PrepareFlashService, ForService
    <3>q. QED
      BY <1>5, <3>1, <3>2, SoundFacts, ServicePreparation, QueuedParts
  <2>q. QED
    BY <2>1, <2>2
<1>q. QED
  BY <1>2, <1>4, <1>5, <1>7, SoundFacts, SameDevices, StepIsKept

LEMMA RefreshFlashServiceKeeps ==
    ASSUME TasksInvariant, RefreshFlashService
    PROVE  TasksInvariant'
<1>1. PICK v : v = Refreshed
  OBVIOUS
<1>2. v \in ServiceStates /\ ServiceIsSound(v)
  BY <1>1, RefreshedType
<1>3. be' = WithSvc(be, v)
  BY <1>1 DEF RefreshFlashService, WithSvc
<1>4. be' \in Backends /\ be'.svc = v
  BY <1>2, <1>3, SoundFacts, SvcType
<1>5. rt' = rt /\ ui' = ui /\ job' = job /\ disk' = disk /\ dev' = dev /\ changes' = changes
  BY DEF RefreshFlashService
<1>6. job' = NoJob
  BY <1>5, SoundFacts DEF RefreshFlashService, NoTask, JobIsSound
<1>7. IsJob(job') /\ TaskParts'
  BY <1>5, <1>6, SoundFacts, NoTaskParts DEF PendingIsWrite, IsJob, NoJob
<1>q. QED
  BY <1>2, <1>4, <1>5, <1>7, SoundFacts, SameDevices, StepIsKept

-----------------------------------------------------------------------------
(***************************************************************************)
(* The controller ends the task.                                           *)
(***************************************************************************)
ToAsk(j) == [j EXCEPT !.stage = "ask"]

LEMMA AskParts ==
    ASSUME TaskParts, IsJob(job), job.stage = "done", job' = ToAsk(job), rt' = rt, be' = be,
           PendingIsWrite(ui')
    PROVE  IsJob(job') /\ TaskParts'
<1>0. PICK j : j = job
  OBVIOUS
<1>1. j = [stage |-> j.stage, ctx |-> j.ctx, touched |-> j.touched, result |-> j.result,
           reason |-> j.reason]
  BY <1>0 DEF IsJob
<1>2. PICK k : k = ToAsk(j)
  OBVIOUS
<1>3. IsJob(k) /\ k.stage = "ask" /\ k.ctx = j.ctx /\ k.result = j.result
  BY <1>1, <1>2 DEF IsJob, ToAsk
<1>4. job' = k
  BY <1>0, <1>2
<1>5. JobIsSound'
  BY <1>0, <1>3, <1>4, NoneFacts DEF TaskParts, JobIsSound, Stages, ActiveStages, OnConnection, PendingIsWrite
<1>6. Announced' /\ Checked'
  BY <1>3, <1>4 DEF Announced, Checked, StageFits
<1>7. Pending' /\ NoFalseMismatch'
  BY <1>0, <1>3, <1>4 DEF TaskParts, Pending, NoFalseMismatch
<1>q. QED
  BY <1>3, <1>4, <1>5, <1>6, <1>7 DEF TaskParts

LEMMA TaskFinishedKeeps ==
    ASSUME TasksInvariant, TaskFinished
    PROVE  TasksInvariant'
<1>1. be' = be /\ disk' = disk /\ changes' = changes /\ job.stage = "done"
  BY DEF TaskFinished
<1>2. CASE AsksDisconnect(job.result)
  <2>1. job' = ToAsk(job) /\ rt' = rt /\ dev' = dev /\ ui' = SetSuspect(ui, TRUE)
    BY <1>2 DEF TaskFinished, ToAsk, SetSuspect, AsksDisconnect, ReleasesConnection, Completed
  <2>2. IsUi(ui') /\ PendingIsWrite(ui')
    BY <2>1, SoundFacts, UiSteps DEF PendingIsWrite
  <2>3. IsJob(job') /\ TaskParts'
    BY <1>1, <2>1, <2>2, SoundFacts, AskParts
  <2>q. QED
    BY <1>1, <2>1, <2>2, <2>3, SoundFacts, SameDevices, StepIsKept
<1>3. CASE ~AsksDisconnect(job.result) /\ ReleasesConnection(job.ctx, job.result)
  <2>1. CloseConnection
    BY <1>3 DEF TaskFinished
  <2>q. QED
    BY <1>1, <2>1, CloseConnectionKeeps
<1>4. CASE ~AsksDisconnect(job.result) /\ ~ReleasesConnection(job.ctx, job.result)
  <2>1. job' = NoJob /\ rt' = rt /\ ui' = ui /\ dev' = dev
    BY <1>4 DEF TaskFinished
  <2>q. QED
    BY <1>1, <2>1, TaskGone
<1>q. QED
  BY <1>2, <1>3, <1>4

LEMMA AskedKeeps ==
    ASSUME TasksInvariant, KeepConnection \/ DisconnectSuspect
    PROVE  TasksInvariant'
<1>1. CASE KeepConnection
  BY <1>1, TaskGone DEF KeepConnection
<1>2. CASE DisconnectSuspect
  BY <1>2, CloseConnectionKeeps DEF DisconnectSuspect
<1>q. QED
  BY <1>1, <1>2

-----------------------------------------------------------------------------
(***************************************************************************)
(* The worker: from the queue to the device.                               *)
(***************************************************************************)
LEMMA ShownIfCurrent ==
    ASSUME NEW x, NEW r, NEW s, NEW b, x.kind \in FlashKinds \cup AppendKinds, context_current(x, s, b)
    PROVE  shown(x, r, s, b)
<1>1. flash_task_finished(x, r, s, b) /\ metadata_task_finished(x, r, s, b)
  BY DEF flash_task_finished, metadata_task_finished
<1>2. CASE x.kind \in FlashKinds
  BY <1>1, <1>2 DEF shown, FlashKinds, AppendKinds, RamKinds
<1>3. CASE x.kind \in AppendKinds
  BY <1>1, <1>3 DEF shown, FlashKinds, AppendKinds, RamKinds
<1>q. QED
  BY <1>2, <1>3

LEMMA CurrentKept ==
    ASSUME NEW x, x.cpu \in Cpus, context_current(x, rt, be), rt'.conn = rt.conn, SameProgram(rt, rt'),
           SameInputs(be, be')
    PROVE  context_current(x, rt', be')
<1>1. rt'.res[x.cpu].program = rt.res[x.cpu].program
  BY DEF SameProgram
<1>2. program_inputs_current(x, rt', be') = program_inputs_current(x, rt, be)
  BY <1>1 DEF program_inputs_current, SameInputs
<1>3. same_connection(x, rt') = same_connection(x, rt)
  BY DEF same_connection
<1>4. non_service_context_current(x, rt', be')
  BY <1>2, <1>3 DEF context_current, non_service_context_current, SameInputs
<1>q. QED
  BY <1>4 DEF context_current, SameInputs

LEMMA TaskFacts ==
    ASSUME TasksInvariant, job.stage # None, NEW x, x = job.ctx
    PROVE  /\ ContextIsSound(x) /\ x.cpu \in Cpus /\ x.kind \in Kinds
           /\ x.kind \notin PrepareKinds => /\ OnConnection(x, rt) /\ x.gen \in Nat
                                            /\ rt.conn # None /\ rt.conn.cpu = x.cpu /\ rt.conn.gen = x.gen
<1>1. ContextIsSound(x) /\ (x.kind \notin PrepareKinds => OnConnection(x, rt))
  BY SoundFacts DEF JobIsSound
<1>2. x.cpu \in Cpus /\ x.kind \in Kinds
  BY <1>1 DEF ContextIsSound
<1>3. ASSUME OnConnection(x, rt)
      PROVE  x.gen \in Nat /\ rt.conn # None /\ rt.conn.cpu = x.cpu /\ rt.conn.gen = x.gen
  <2>1. rt.conn # None /\ rt.conn = [gen |-> x.gen, cpu |-> x.cpu]
    BY <1>3 DEF OnConnection
  <2>2. rt.conn \in Connections
    BY <2>1, SoundFacts DEF Stores
  <2>q. QED
    BY <2>1, <2>2 DEF Connections
<1>q. QED
  BY <1>1, <1>2, <1>3

(***************************************************************************)
(* _fail_program_image_parse and _fail_ram_image_parse change one image at *)
(* most, and add no evidence.                                              *)
(***************************************************************************)
LEMMA FailParseStep ==
    ASSUME TasksInvariant, NEW x, x.cpu \in Cpus, x.path \in Files, FailParse(x)
    PROVE  SoundStep(rt, rt')
<1>1. CASE rt' = rt
  BY <1>1, SoundFacts
<1>2. CASE OfRam(x) /\ rt' # rt
  <2>1. PICK e : e = RamImageChanged(x.cpu, x.path, "ERROR", None)
    OBVIOUS
  <2>2. rt' = Transition(e, rt)
    BY <1>2, <2>1 DEF FailParse, Dispatch
  <2>q. QED
    BY <2>1, <2>2, SoundFacts, RamImageStep DEF ParseStatuses
<1>3. CASE ~OfRam(x) /\ rt' # rt
  <2>1. PICK e : e = ProgramImageChanged(x.cpu, x.path, "ERROR", None)
    OBVIOUS
  <2>2. rt' = Transition(e, rt)
    BY <1>3, <2>1 DEF FailParse, Dispatch
  <2>q. QED
    BY <2>1, <2>2, SoundFacts, ProgramStep DEF ParseStatuses
<1>q. QED
  BY <1>1, <1>2, <1>3

(***************************************************************************)
(* What the backend has found when it accepts an append.                   *)
(***************************************************************************)
LEMMA AppendAccepted ==
    ASSUME NEW x, x.kind \in AppendKinds, Problem(x) = None
    PROVE  /\ x.kind = "IMAGE_VALID" => verify_evidence_matches(x)
           /\ x.kind # "IMAGE_VALID" => rt.meta.freshness = "FRESH" /\ rt.meta.value = x.meta
<1>0. None \notin {"VERIFY_EVIDENCE_REQUIRED", "STALE_METADATA_CONFIGURATION"}
  BY NoneIsApart DEF ErrorCodes
<1>1. append_problem(x) = None
  BY ProblemOfKind
<1>2. PICK a, b, c, d, e :
          /\ a = connection_problem(x) /\ b = (IF x.kind = "IMAGE_VALID" THEN program_problem(x) ELSE None)
          /\ c = service_problem(x) /\ d = (IF x.kind = "IMAGE_VALID" THEN None ELSE metadata_problem(x))
          /\ e = Unless(x.kind = "IMAGE_VALID" => verify_evidence_matches(x), "VERIFY_EVIDENCE_REQUIRED")
  OBVIOUS
<1>3. FirstProblem(<<a, b, c, d, e>>) = None
  BY <1>1, <1>2 DEF append_problem
<1>4. d = None /\ e = None
  BY <1>3, FirstOf5
<1>q. QED
  BY <1>0, <1>2, <1>4 DEF Unless, metadata_problem

(***************************************************************************)
(* A task goes on: what the invariant says of the new stage.               *)
(***************************************************************************)
Onward(j, k, v, q) == IsJob(k) /\ k.stage = v /\ k.ctx = j.ctx /\ k.result = j.result /\ k.reason = q
ToStage(j, v) == [j EXCEPT !.stage = v]
ToStageWith(j, v, q) == [j EXCEPT !.stage = v, !.reason = q]

LEMMA OnwardType ==
    ASSUME NEW j, IsJob(j), NEW v, NEW q, NEW k
    PROVE  /\ k = ToStage(j, v) => Onward(j, k, v, j.reason)
           /\ k = ToStageWith(j, v, q) => Onward(j, k, v, q)
<1>1. j = [stage |-> j.stage, ctx |-> j.ctx, touched |-> j.touched, result |-> j.result,
           reason |-> j.reason]
  BY DEF IsJob
<1>2. ASSUME k = ToStage(j, v) PROVE Onward(j, k, v, j.reason)
  BY <1>1, <1>2 DEF IsJob, ToStage, Onward
<1>3. ASSUME k = ToStageWith(j, v, q) PROVE Onward(j, k, v, q)
  BY <1>1, <1>3 DEF IsJob, ToStageWith, Onward
<1>q. QED
  BY <1>2, <1>3

LEMMA OnwardParts ==
    ASSUME TasksInvariant, job.stage \in {"queued", "image", "service"}, NEW v \in {"image", "service", "device"},
           NEW q, Onward(job, job', v, q), ui' = ui,
           rt'.conn = rt.conn, SameProgram(rt, rt'),
           job.ctx.kind \in FlashKinds \cup AppendKinds => SameInputs(be, be'), Announced', Checked'
    PROVE  TaskParts'
<1>0. job'.stage = v /\ job'.ctx = job.ctx /\ job'.result = job.result /\ job.stage # None
  BY NoneFacts DEF Onward
<1>1. JobIsSound'
  BY <1>0, SoundFacts, NoneFacts DEF JobIsSound, Stages, ActiveStages, OnConnection
<1>2. NoFalseMismatch'
  BY <1>0, SoundFacts DEF TaskParts, NoFalseMismatch
<1>3. Pending'
  <2>1. SUFFICES ASSUME job.ctx.kind \in FlashKinds \cup AppendKinds
                 PROVE  context_current(job.ctx, rt', be')
    BY <1>0 DEF Pending
  <2>2. context_current(job.ctx, rt, be) /\ job.ctx.cpu \in Cpus
    BY <1>0, <2>1, SoundFacts, TaskFacts DEF TaskParts, Pending
  <2>q. QED
    BY <2>1, <2>2, CurrentKept
<1>q. QED
  BY <1>1, <1>2, <1>3 DEF TaskParts

(***************************************************************************)
(* The worker starts and refuses the task.                                 *)
(***************************************************************************)
LEMMA StartRefused ==
    ASSUME TasksInvariant, Start, Problem(job.ctx) # None
    PROVE  TasksInvariant'
<1>1. PICK x, p : x = job.ctx /\ p = Problem(x)
  OBVIOUS
<1>2. /\ job' = Ended(job, p) /\ be' = be /\ ui' = ui /\ disk' = disk /\ dev' = dev /\ changes' = changes
      /\ job.stage = "queued" /\ job.stage # None
  BY <1>1, NoneFacts DEF Start
<1>3. x.cpu \in Cpus /\ x.kind \in Kinds /\ ContextIsSound(x)
  BY <1>1, <1>2, TaskFacts
<1>4. NotMismatch(p)
  BY <1>1, <1>3, ProblemNotMismatch
<1>5. SoundStep(rt, rt') /\ (x.kind \in FlashKinds \cup AppendKinds => rt' = rt)
  <2>1. CASE x.kind \in {"PREPARE_FLASH", "PREPARE_RAM"}
    <3>1. FailParse(x) /\ x.path \in Files
      BY <1>1, <1>3, <2>1 DEF Start, ContextIsSound, NeedsImage
    <3>q. QED
      BY <1>3, <2>1, <3>1, FailParseStep DEF FlashKinds, AppendKinds
  <2>2. CASE x.kind \notin {"PREPARE_FLASH", "PREPARE_RAM"}
    <3>1. rt' = rt
      BY <1>1, <2>2 DEF Start
    <3>q. QED
      BY <3>1, SoundFacts
  <2>q. QED
    BY <2>1, <2>2
<1>6. rt'.conn = rt.conn
  BY <1>5 DEF SoundStep, Calm
<1>7. x.kind \in FlashKinds \cup AppendKinds => shown(x, p, rt', be')
  <2>1. SUFFICES ASSUME x.kind \in FlashKinds \cup AppendKinds PROVE shown(x, p, rt', be')
    OBVIOUS
  <2>2. context_current(x, rt', be')
    BY <1>1, <1>2, <1>5, <2>1, SoundFacts DEF TaskParts, Pending
  <2>q. QED
    BY <2>1, <2>2, ShownIfCurrent
<1>8. IsJob(job') /\ TaskParts'
  BY <1>1, <1>2, <1>4, <1>6, <1>7, SoundFacts, EndedParts
<1>q. QED
  BY <1>2, <1>5, <1>8, SoundFacts, SameDevices, StepIsKept

(***************************************************************************)
(* The worker starts and announces the operation: what the store shows     *)
(* from then on.                                                           *)
(***************************************************************************)
Announcement(x) ==
    /\ SoundStep(rt, rt') /\ SameProgram(rt, rt') /\ rt'.conn = rt.conn
    /\ x.kind \in FlashKinds => rt'.res[x.cpu].verify = None
    /\ x.kind \in {"RAM_LOAD", "RAM_CRC"} => rt'.res[x.cpu].crc = None
    /\ x.kind \in {"ERASE", "PROGRAM"} => rt'.meta.freshness # "FRESH"
    /\ x.kind \in AppendKinds => rt' = rt

LEMMA AnnounceStep ==
    ASSUME TasksInvariant, job.stage # None, NEW x, x = job.ctx, Announce(x)
    PROVE  Announcement(x)
<1>1. CASE x.kind \in FlashKinds \cup {"RAM_LOAD", "RAM_CRC"}
  <2>1. PICK e : e = OperationStarted(x.kind, x.cpu, x.gen)
    OBVIOUS
  <2>2. rt' = Transition(e, rt)
    BY <1>1, <2>1 DEF Announce, Dispatch
  <2>3. x.kind \in {"ERASE", "PROGRAM", "VERIFY", "RAM_LOAD", "RAM_CRC"} /\ x.kind \notin PrepareKinds
    BY <1>1 DEF FlashKinds, PrepareKinds
  <2>4. x.cpu \in Cpus /\ x.gen \in Nat /\ rt.conn # None /\ rt.conn.cpu = x.cpu /\ rt.conn.gen = x.gen
    BY <2>3, TaskFacts
  <2>5. /\ SoundStep(rt, rt') /\ SameProgram(rt, rt')
        /\ x.kind \in {"ERASE", "PROGRAM", "VERIFY"} => rt'.res[x.cpu].verify = None
        /\ x.kind \in {"RAM_LOAD", "RAM_CRC"} => rt'.res[x.cpu].crc = None
        /\ x.kind \in {"ERASE", "PROGRAM"} => rt'.meta.freshness # "FRESH"
    <3>1. rt \in Stores /\ SnapshotValid(rt) /\ AllNamed(rt)
      BY SoundFacts
    <3>q. QED
      BY <2>1, <2>2, <2>3, <2>4, <3>1, StartedStep
  <2>6. rt'.conn = rt.conn
    BY <2>5 DEF SoundStep, Calm
  <2>7. x.kind \notin AppendKinds
    BY <2>3 DEF AppendKinds
  <2>q. QED
    BY <2>5, <2>6, <2>7 DEF Announcement, FlashKinds
<1>2. CASE x.kind \notin FlashKinds \cup {"RAM_LOAD", "RAM_CRC"}
  <2>1. rt' = rt
    BY <1>2 DEF Announce
  <2>q. QED
    BY <1>2, <2>1, SoundFacts, SameStore DEF Announcement, FlashKinds
<1>q. QED
  BY <1>1, <1>2

LEMMA MetadataAsShown ==
    ASSUME TasksInvariant, NEW c, rt.conn.cpu = c, rt.meta.freshness = "FRESH", dev[c].link
    PROVE  rt.meta.value = dev[c].journal
BY DEF TasksInvariant, ShownIsTrue, FreshMetadataIsTrue, Cpu

LEMMA StartAccepted ==
    ASSUME TasksInvariant, Start, Problem(job.ctx) = None
    PROVE  TasksInvariant'
<1>1. PICK x, v : /\ x = job.ctx
                  /\ v = IF NeedsImage(x) THEN "image" ELSE IF NeedsService(x) THEN "service" ELSE "device"
  OBVIOUS
<1>2. /\ job' = ToStage(job, v) /\ ui' = ui /\ disk' = disk /\ dev' = dev /\ changes' = changes
      /\ job.stage = "queued" /\ job.stage # None /\ Announce(x)
  BY <1>1, NoneFacts DEF Start, ToStage
<1>3. x.cpu \in Cpus /\ x.kind \in Kinds
  BY <1>1, <1>2, TaskFacts
<1>4. job.reason = None
  BY <1>2, SoundFacts DEF TaskParts, Checked
<1>5. Onward(job, job', v, None)
  BY <1>2, <1>4, SoundFacts, OnwardType
<1>6. job'.stage = v /\ job'.ctx = x /\ job'.reason = None
  BY <1>1, <1>5 DEF Onward
<1>7. Announcement(x)
  BY <1>1, <1>2, AnnounceStep
<1>8. Announced'
  <2>1. ~(v = "device" /\ x.kind \in AppendKinds)
    BY <1>1 DEF NeedsService
  <2>q. QED
    BY <1>6, <1>7, <2>1 DEF Announced, Announcement
<1>9. Checked'
  <2>1. ASSUME x.kind = "IMAGE_VALID"
        PROVE  x.evidence # None /\ x.evidence = rt'.res[x.cpu].verify /\ x.evidence.id = x.id
    <3>1. verify_evidence_matches(x) /\ rt' = rt
      BY <1>1, <1>7, <2>1, AppendAccepted DEF Announcement, AppendKinds
    <3>q. QED
      BY <3>1 DEF verify_evidence_matches
  <2>2. ASSUME x.kind \in {"BOOT_ATTEMPT", "APP_CONFIRMED"}, dev'[x.cpu].link
        PROVE  dev'[x.cpu].journal = x.meta
    <3>1. rt.meta.freshness = "FRESH" /\ rt.meta.value = x.meta
      BY <1>1, <2>2, AppendAccepted DEF AppendKinds
    <3>2. rt.conn.cpu = x.cpu
      BY <1>1, <1>2, <2>2, TaskFacts DEF PrepareKinds
    <3>q. QED
      BY <1>2, <2>2, <3>1, <3>2, MetadataAsShown
  <2>3. v \in {"service", "device"} => ~NeedsImage(x)
    BY <1>1
  <2>4. v \in {"image", "service", "device"}
    BY <1>1
  <2>5. v \in {"service", "device"} => None = (IF NeedsImage(x) THEN x.id ELSE None)
    BY <2>3
  <2>6. StageFits(v, x)
    BY <1>1 DEF StageFits, NeedsImage, NeedsService, PrepareKinds
  <2>q. QED
    BY <1>6, <2>1, <2>2, <2>4, <2>5, <2>6 DEF Checked
<1>10. be' \in Backends /\ ServiceIsSound(be'.svc) /\ (x.kind # "PREPARE_SERVICE" => be' = be)
  <2>1. CASE x.kind = "PREPARE_SERVICE"
    <3>1. PICK u : u = be.svc
      OBVIOUS
    <3>2. PICK w : w = [u EXCEPT !.status = "UNVALIDATED", !.summary = None]
      OBVIOUS
    <3>3. u \in ServiceStates
      BY <3>1, SoundFacts DEF Backends
    <3>4. w \in ServiceStates /\ ServiceIsSound(w)
      BY <3>2, <3>3 DEF ServiceStates, ServiceIsSound
    <3>5. be' = WithSvc(be, w)
      BY <1>1, <2>1, <3>1, <3>2 DEF Start, WithSvc
    <3>q. QED
      BY <2>1, <3>4, <3>5, SoundFacts, SvcType
  <2>2. CASE x.kind # "PREPARE_SERVICE"
    <3>1. be' = be
      BY <1>1, <2>2 DEF Start
    <3>q. QED
      BY <3>1, SoundFacts
  <2>q. QED
    BY <2>1, <2>2
<1>11. x.kind \in FlashKinds \cup AppendKinds => SameInputs(be, be')
  BY <1>10 DEF SameInputs, FlashKinds, AppendKinds
<1>12. TaskParts'
  <2>1. v \in {"image", "service", "device"}
    BY <1>1
  <2>q. QED
    BY <1>1, <1>2, <1>5, <1>7, <1>8, <1>9, <1>11, <2>1, OnwardParts DEF Announcement
<1>q. QED
  BY <1>2, <1>5, <1>7, <1>10, <1>12, SoundFacts, SameDevices, StepIsKept DEF Announcement, Onward

LEMMA StartKeeps ==
    ASSUME TasksInvariant, Start
    PROVE  TasksInvariant'
BY StartRefused, StartAccepted

(***************************************************************************)
(* The image is read.                                                      *)
(***************************************************************************)
ImageCodes == {"IMAGE_CHANGED_DURING_PREPARATION", "IMAGE_FILE_ACCESS_FAILED", "IMAGE_CHANGED"}
ServiceCodes ==
    {"SERVICE_CHANGED_DURING_PREPARATION", "SERVICE_FILE_ACCESS_FAILED", "SERVICE_RESOURCE_CHANGED"}

LEMMA CodeFacts ==
    /\ None \notin ImageCodes \cup ServiceCodes
    /\ \A r \in ImageCodes \cup ServiceCodes \cup {"OK", "VERIFY_EVIDENCE_REQUIRED"} : NotMismatch(r)
BY NoneIsApart DEF ErrorCodes, ImageCodes, ServiceCodes, NotMismatch

LEMMA FileErrors ==
    ASSUME NEW x
    PROVE  /\ image_error(x) \in ImageCodes \cup {None}
           /\ service_error(x) \in ServiceCodes \cup {None}
           /\ image_error(x) = None /\ x.id # None => disk[x.path] = x.id
<1>1. image_error(x) \in ImageCodes \cup {None}
  BY DEF image_error, ImageCodes
<1>2. service_error(x) \in ServiceCodes \cup {None}
  BY DEF service_error, ServiceCodes
<1>3. image_error(x) = None /\ x.id # None => disk[x.path] = x.id
  BY CodeFacts DEF image_error, ImageCodes
<1>q. QED
  BY <1>1, <1>2, <1>3

LEMMA InputsCurrent ==
    ASSUME NEW x, NEW s, NEW b, x.kind \in FlashKinds \cup {"IMAGE_VALID"}, context_current(x, s, b)
    PROVE  /\ b.prog[x.cpu] = x.rev /\ s.res[x.cpu].program.path = x.path
           /\ s.res[x.cpu].program.status = "READY" /\ s.res[x.cpu].program.summary = x.id
           /\ x.tool = b.tool /\ x.svcRev = b.svc.rev /\ same_connection(x, s)
<1>1. non_service_context_current(x, s, b) /\ x.svcRev = b.svc.rev
  BY DEF context_current
<1>2. program_inputs_current(x, s, b) /\ same_connection(x, s)
  BY <1>1 DEF non_service_context_current
<1>q. QED
  BY <1>1, <1>2 DEF program_inputs_current

(***************************************************************************)
(* A page recognises the failure to read its image, and the failure to     *)
(* read the Flash service.                                                 *)
(***************************************************************************)
LEMMA ImageFailureShown ==
    ASSUME TasksInvariant, NEW x, x.cpu \in Cpus, x.path \in Files,
           x.kind \in FlashKinds \cup {"IMAGE_VALID"}, context_current(x, rt, be), FailParse(x), be' = be,
           NEW r \in ImageCodes
    PROVE  shown(x, r, rt', be')
<1>1. /\ be.prog[x.cpu] = x.rev /\ rt.res[x.cpu].program.path = x.path
      /\ x.tool = be.tool /\ x.svcRev = be.svc.rev /\ same_connection(x, rt)
  BY InputsCurrent
<1>2. PICK e : e = ProgramImageChanged(x.cpu, x.path, "ERROR", None)
  OBVIOUS
<1>3. ~OfRam(x)
  BY DEF OfRam, RamKinds, FlashKinds
<1>4. rt' = Transition(e, rt)
  BY <1>1, <1>2, <1>3 DEF FailParse, Program, Dispatch
<1>5. e.image \in ImageStates
  BY <1>2, ImageRecord DEF ParseStatuses
<1>6. /\ e.image.path = x.path /\ e.image.status = "ERROR" /\ e.image.summary = None
      /\ IF ImageEventValid(e.image) THEN ProgramSet(rt, rt', x.cpu, e.image) ELSE rt' = rt
  BY <1>2, <1>4, <1>5, SoundFacts, ProgramEffect
<1>7. x.path # None
  BY NoneIsApart
<1>8. ImageEventValid(e.image)
  BY <1>6, <1>7 DEF ImageEventValid, ParseStateValid
<1>9. rt'.res[x.cpu].program = e.image /\ rt'.conn = rt.conn
  BY <1>6, <1>8 DEF ProgramSet, OnlyRes
<1>10. e.image = [path |-> x.path, summary |-> None, status |-> "ERROR"]
  BY <1>2 DEF ProgramImageChanged
<1>11. same_connection(x, rt')
  BY <1>1, <1>9 DEF same_connection
<1>12. current_program_failure(x, r, rt', be')
  BY <1>1, <1>9, <1>10, <1>11 DEF current_program_failure, ImageCodes
<1>13. flash_task_finished(x, r, rt', be') /\ (x.kind = "IMAGE_VALID" => metadata_task_finished(x, r, rt', be'))
  BY <1>12 DEF flash_task_finished, metadata_task_finished
<1>14. CASE x.kind \in FlashKinds
  BY <1>13, <1>14 DEF shown, FlashKinds, AppendKinds, RamKinds
<1>15. CASE x.kind = "IMAGE_VALID"
  BY <1>13, <1>15 DEF shown, FlashKinds, AppendKinds, RamKinds
<1>q. QED
  BY <1>14, <1>15

LEMMA ServiceFailureShown ==
    ASSUME NEW x, NEW s, NEW b, NEW a, x.kind \in FlashKinds \cup AppendKinds, context_current(x, s, b),
           a.prog = b.prog, a.tool = b.tool, a.svc.rev = b.svc.rev + 1,
           a.svc.status \in {"STALE", "UNAVAILABLE"}, NEW r \in ServiceCodes
    PROVE  shown(x, r, s, a)
<1>1. non_service_context_current(x, s, b) /\ x.svcRev = b.svc.rev
  BY DEF context_current
<1>2. program_inputs_current(x, s, a) = program_inputs_current(x, s, b)
  BY DEF program_inputs_current
<1>3. non_service_context_current(x, s, a)
  BY <1>1, <1>2 DEF non_service_context_current
<1>4. current_service_failure(x, r, s, a)
  BY <1>1, <1>3 DEF current_service_failure, ServiceCodes
<1>5. flash_task_finished(x, r, s, a) /\ metadata_task_finished(x, r, s, a)
  BY <1>4 DEF flash_task_finished, metadata_task_finished
<1>6. CASE x.kind \in FlashKinds
  BY <1>5, <1>6 DEF shown, FlashKinds, AppendKinds, RamKinds
<1>7. CASE x.kind \in AppendKinds
  BY <1>5, <1>7 DEF shown, FlashKinds, AppendKinds, RamKinds
<1>q. QED
  BY <1>6, <1>7

LEMMA ImageReadKeeps ==
    ASSUME TasksInvariant, ImageRead
    PROVE  TasksInvariant'
<1>1. PICK x, e : x = job.ctx /\ e = image_error(x)
  OBVIOUS
<1>2. /\ be' = be /\ ui' = ui /\ disk' = disk /\ dev' = dev /\ changes' = changes
      /\ job.stage = "image" /\ job.stage # None
  BY NoneFacts DEF ImageRead
<1>3. x.cpu \in Cpus /\ x.kind \in Kinds /\ ContextIsSound(x)
  BY <1>1, <1>2, TaskFacts
<1>4. NeedsImage(x) /\ x.path \in Files
  BY <1>1, <1>2, <1>3, SoundFacts DEF TaskParts, Checked, StageFits, ContextIsSound
<1>5. x.kind \in FlashKinds \cup AppendKinds =>
        context_current(x, rt, be) /\ x.kind \in FlashKinds \cup {"IMAGE_VALID"}
  BY <1>1, <1>2, <1>4, SoundFacts DEF TaskParts, Pending, NeedsImage, FlashKinds, AppendKinds
<1>6. CASE e # None
  <2>1. job' = Ended(job, e) /\ FailParse(x) /\ e \in ImageCodes
    BY <1>1, <1>6, FileErrors DEF ImageRead
  <2>2. SoundStep(rt, rt') /\ rt'.conn = rt.conn
    BY <1>3, <1>4, <2>1, FailParseStep DEF SoundStep, Calm
  <2>3. x.kind \in FlashKinds \cup AppendKinds => shown(x, e, rt', be')
    BY <1>2, <1>3, <1>4, <1>5, <2>1, ImageFailureShown
  <2>4. NotMismatch(e)
    BY <2>1, CodeFacts
  <2>5. IsJob(job') /\ TaskParts'
    BY <1>1, <1>2, <2>1, <2>2, <2>3, <2>4, SoundFacts, EndedParts
  <2>q. QED
    BY <1>2, <2>2, <2>5, SoundFacts, SameDevices, StepIsKept
<1>7. CASE e = None /\ x.kind \in PrepareKinds
  <2>1. job' = Ended(job, "OK") /\ PrepareImageEnds(x)
    BY <1>1, <1>7 DEF ImageRead, PrepareImageEnds
  <2>2. disk[x.path] \in Contents
    BY <1>4, SoundFacts
  <2>3. SoundStep(rt, rt')
    <3>1. CASE OfRam(x)
      <4>1. PICK a : a = RamImageChanged(x.cpu, x.path, "READY", disk[x.path])
        OBVIOUS
      <4>2. rt' = Transition(a, rt)
        BY <2>1, <3>1, <4>1 DEF PrepareImageEnds, Dispatch
      <4>q. QED
        BY <1>3, <1>4, <2>2, <4>1, <4>2, SoundFacts, RamImageStep DEF ParseStatuses
    <3>2. CASE ~OfRam(x)
      <4>1. PICK a : a = ProgramImageChanged(x.cpu, x.path, "READY", disk[x.path])
        OBVIOUS
      <4>2. rt' = Transition(a, rt)
        BY <2>1, <3>2, <4>1 DEF PrepareImageEnds, Dispatch
      <4>q. QED
        BY <1>3, <1>4, <2>2, <4>1, <4>2, SoundFacts, ProgramStep DEF ParseStatuses
    <3>q. QED
      BY <3>1, <3>2
  <2>4. rt'.conn = rt.conn /\ x.kind \notin FlashKinds \cup AppendKinds
    BY <1>7, <2>3 DEF SoundStep, Calm, PrepareKinds, FlashKinds, AppendKinds
  <2>5. IsJob(job') /\ TaskParts'
    BY <1>1, <1>2, <2>1, <2>4, CodeFacts, SoundFacts, EndedParts
  <2>q. QED
    BY <1>2, <2>3, <2>5, SoundFacts, SameDevices, StepIsKept
<1>8. CASE e = None /\ x.kind \notin PrepareKinds /\ Problem(x) # None
  <2>1. job' = Ended(job, Problem(x)) /\ rt' = rt
    BY <1>1, <1>8 DEF ImageRead
  <2>2. x.kind \in FlashKinds \cup AppendKinds => shown(x, Problem(x), rt', be')
    BY <1>2, <1>5, <2>1, ShownIfCurrent
  <2>3. NotMismatch(Problem(x))
    BY <1>3, ProblemNotMismatch
  <2>4. IsJob(job') /\ TaskParts'
    BY <1>1, <1>2, <2>1, <2>2, <2>3, SoundFacts, EndedParts
  <2>q. QED
    BY <1>2, <2>1, <2>4, SoundFacts, SameDevices, StepIsKept
<1>9. CASE e = None /\ x.kind \notin PrepareKinds /\ Problem(x) = None
  <2>1. PICK v : v = IF NeedsService(x) THEN "service" ELSE "device"
    OBVIOUS
  <2>2. job' = ToStageWith(job, v, disk[x.path]) /\ rt' = rt
    BY <1>1, <1>9, <2>1 DEF ImageRead, ToStageWith
  <2>3. x.id # None
    BY <1>3, <1>4, <1>9, NoneIsApart
       DEF ContextIsSound, NeedsImage, FlashKinds, RamKinds, PrepareKinds
  <2>4. disk[x.path] = x.id
    BY <1>1, <1>9, <2>3, FileErrors
  <2>5. Onward(job, job', v, x.id)
    BY <2>2, <2>4, SoundFacts, OnwardType
  <2>6. job'.stage = v /\ job'.ctx = x /\ job'.reason = x.id /\ v \in {"service", "device"}
    BY <1>1, <2>1, <2>5 DEF Onward
  <2>7. Announced'
    <3>1. ~(v = "device" /\ x.kind \in AppendKinds)
      BY <2>1 DEF NeedsService
    <3>2. Announced
      BY SoundFacts DEF TaskParts
    <3>q. QED
      BY <1>1, <1>2, <2>2, <2>6, <3>1, <3>2 DEF Announced
  <2>8. Checked'
    <3>1. StageFits(v, x)
      BY <1>9, <2>1 DEF StageFits
    <3>2. x.kind \notin {"BOOT_ATTEMPT", "APP_CONFIRMED"}
      BY <1>4 DEF NeedsImage
    <3>3. x.kind = "IMAGE_VALID" =>
            x.evidence # None /\ x.evidence = rt.res[x.cpu].verify /\ x.evidence.id = x.id
      BY <1>1, <1>2, SoundFacts DEF TaskParts, Checked
    <3>q. QED
      BY <1>4, <2>2, <2>6, <3>1, <3>2, <3>3 DEF Checked
  <2>9. SameInputs(be, be') /\ SameProgram(rt, rt')
    BY <1>2, <2>2 DEF SameInputs, SameProgram
  <2>10. TaskParts'
    BY <1>1, <1>2, <2>2, <2>5, <2>6, <2>7, <2>8, <2>9, OnwardParts
  <2>q. QED
    BY <1>2, <2>2, <2>5, <2>10, SoundFacts, SameDevices, StepIsKept DEF Onward
<1>q. QED
  BY <1>6, <1>7, <1>8, <1>9

(***************************************************************************)
(* The Flash service is read.                                              *)
(***************************************************************************)
LEMMA ServiceFailedType ==
    ASSUME TasksInvariant, NEW e, NEW v, v = ServiceFailed(e)
    PROVE  /\ v \in ServiceStates /\ ServiceIsSound(v)
           /\ v.status \in {"STALE", "UNAVAILABLE"} /\ v.rev = be.svc.rev + 1
<1>0. be.svc.rev \in Nat
  BY SoundFacts DEF Backends, ServiceStates
<1>1. PICK u, n : u = (IF e = "SERVICE_FILE_ACCESS_FAILED" THEN "UNAVAILABLE" ELSE "STALE") /\ n = be.svc.rev + 1
  OBVIOUS
<1>2. v = [status |-> u, rev |-> n, summary |-> None]
  BY <1>1 DEF ServiceFailed
<1>3. u \in {"STALE", "UNAVAILABLE"} /\ n \in Nat
  BY <1>0, <1>1
<1>q. QED
  BY <1>1, <1>2, <1>3 DEF ServiceStates, ServiceIsSound

LEMMA ServicePreparedType ==
    ASSUME TasksInvariant, NEW x, x.cpu \in Cpus, NEW v, v = ServicePrepared(x)
    PROVE  v \in ServiceStates /\ ServiceIsSound(v)
<1>0. be.svc.rev \in Nat /\ disk[ServiceFile] \in Contents
  BY SoundFacts DEF Backends, ServiceStates, Files
<1>1. PICK w : w = [cpu |-> x.cpu, id |-> disk[ServiceFile]]
  OBVIOUS
<1>2. w \in Summaries /\ w # None
  BY <1>0, <1>1, NoneIsApart DEF Summaries
<1>3. PICK n : n = be.svc.rev + (IF x.svc # None /\ x.svc # w THEN 1 ELSE 0)
  OBVIOUS
<1>4. n \in Nat
  BY <1>0, <1>3
<1>5. v = [status |-> "READY", summary |-> w, rev |-> n]
  BY <1>1, <1>3 DEF ServicePrepared
<1>q. QED
  BY <1>2, <1>4, <1>5 DEF ServiceStates, ServiceIsSound

LEMMA ServiceReadFails ==
    ASSUME TasksInvariant, ServiceRead, service_error(job.ctx) # None
    PROVE  TasksInvariant'
<1>1. PICK x, e : x = job.ctx /\ e = service_error(x)
  OBVIOUS
<1>2. /\ ui' = ui /\ disk' = disk /\ dev' = dev /\ changes' = changes
      /\ job.stage = "service" /\ job.stage # None
  BY NoneFacts DEF ServiceRead
<1>3. job' = Ended(job, e) /\ rt' = rt /\ e \in ServiceCodes
  BY <1>1, FileErrors DEF ServiceRead
<1>4. PICK v : v = ServiceFailed(e)
  OBVIOUS
<1>5. be' = WithSvc(be, v)
  BY <1>1, <1>4 DEF ServiceRead, WithSvc
<1>6. /\ v \in ServiceStates /\ ServiceIsSound(v)
      /\ v.status \in {"STALE", "UNAVAILABLE"} /\ v.rev = be.svc.rev + 1
  BY <1>4, ServiceFailedType
<1>7. be' \in Backends /\ be'.svc = v /\ be'.prog = be.prog /\ be'.tool = be.tool
  BY <1>5, <1>6, SoundFacts, SvcType
<1>8. x.kind \in FlashKinds \cup AppendKinds => shown(x, e, rt', be')
  <2>1. SUFFICES ASSUME x.kind \in FlashKinds \cup AppendKinds PROVE shown(x, e, rt, be')
    BY <1>3
  <2>2. context_current(x, rt, be)
    BY <1>1, <1>2, <2>1, SoundFacts DEF TaskParts, Pending
  <2>q. QED
    BY <1>3, <1>6, <1>7, <2>1, <2>2, ServiceFailureShown
<1>9. NotMismatch(e)
  BY <1>3, CodeFacts
<1>10. IsJob(job') /\ TaskParts'
  BY <1>1, <1>2, <1>3, <1>8, <1>9, SoundFacts, EndedParts
<1>q. QED
  BY <1>2, <1>3, <1>6, <1>7, <1>10, SoundFacts, SameDevices, StepIsKept

LEMMA ServicePreparedKeeps ==
    ASSUME TasksInvariant, ServiceRead, service_error(job.ctx) = None, job.ctx.kind = "PREPARE_SERVICE"
    PROVE  TasksInvariant'
<1>1. PICK x : x = job.ctx
  OBVIOUS
<1>2. /\ ui' = ui /\ disk' = disk /\ dev' = dev /\ changes' = changes
      /\ job.stage = "service" /\ job.stage # None
  BY NoneFacts DEF ServiceRead
<1>3. x.cpu \in Cpus
  BY <1>1, <1>2, TaskFacts
<1>4. x.kind \notin FlashKinds \cup AppendKinds
  BY <1>1 DEF FlashKinds, AppendKinds
<1>5. job' = Ended(job, "OK") /\ rt' = rt
  BY <1>1, <1>4 DEF ServiceRead
<1>6. PICK v : v = ServicePrepared(x)
  OBVIOUS
<1>7. be' = WithSvc(be, v)
  BY <1>1, <1>6 DEF ServiceRead, WithSvc
<1>8. v \in ServiceStates /\ ServiceIsSound(v)
  BY <1>3, <1>6, ServicePreparedType
<1>9. be' \in Backends /\ be'.svc = v
  BY <1>7, <1>8, SoundFacts, SvcType
<1>10. IsJob(job') /\ TaskParts'
  BY <1>1, <1>2, <1>4, <1>5, CodeFacts, SoundFacts, EndedParts
<1>q. QED
  BY <1>2, <1>5, <1>8, <1>9, <1>10, SoundFacts, SameDevices, StepIsKept

LEMMA ServiceReadOn ==
    ASSUME TasksInvariant, ServiceRead, service_error(job.ctx) = None, job.ctx.kind # "PREPARE_SERVICE"
    PROVE  TasksInvariant'
<1>1. PICK x : x = job.ctx
  OBVIOUS
<1>2. /\ be' = be /\ ui' = ui /\ disk' = disk /\ dev' = dev /\ changes' = changes
      /\ job.stage = "service" /\ job.stage # None
  BY NoneFacts DEF ServiceRead
<1>3. x.kind \in FlashKinds \cup AppendKinds /\ x.kind \notin PrepareKinds
  BY <1>1, <1>2, SoundFacts
     DEF TaskParts, Checked, StageFits, NeedsService, FlashKinds, AppendKinds, PrepareKinds
<1>4. x.cpu \in Cpus /\ x.gen \in Nat /\ rt.conn # None /\ rt.conn.cpu = x.cpu /\ rt.conn.gen = x.gen
  BY <1>1, <1>2, <1>3, TaskFacts
<1>5. context_current(x, rt, be)
  BY <1>1, <1>2, <1>3, SoundFacts DEF TaskParts, Pending
<1>6. /\ SoundStep(rt, rt') /\ SameProgram(rt, rt') /\ SameVerify(rt, rt')
      /\ x.kind \in AppendKinds => rt'.meta.freshness # "FRESH"
      /\ x.kind \notin AppendKinds => rt' = rt
  <2>1. CASE x.kind \in AppendKinds
    <3>1. PICK e : e = MetadataWriteStarted(x.cpu, x.gen)
      OBVIOUS
    <3>2. rt' = Transition(e, rt)
      BY <1>1, <2>1, <3>1 DEF ServiceRead, Dispatch
    <3>q. QED
      BY <1>4, <2>1, <3>1, <3>2, SoundFacts, WriteStartedStep
  <2>2. CASE x.kind \notin AppendKinds
    <3>1. rt' = rt
      BY <1>1, <2>2 DEF ServiceRead
    <3>q. QED
      BY <2>2, <3>1, SoundFacts, SameStore
  <2>q. QED
    BY <2>1, <2>2
<1>7. rt'.conn = rt.conn /\ SameInputs(be, be')
  BY <1>2, <1>6 DEF SoundStep, Calm, SameInputs
<1>8. CASE x.kind = "IMAGE_VALID" /\ ~verify_evidence_matches(x)
  <2>1. job' = Ended(job, "VERIFY_EVIDENCE_REQUIRED")
    BY <1>1, <1>8 DEF ServiceRead
  <2>2. shown(x, "VERIFY_EVIDENCE_REQUIRED", rt', be')
    BY <1>3, <1>4, <1>5, <1>6, <1>7, CurrentKept, ShownIfCurrent
  <2>3. IsJob(job') /\ TaskParts'
    BY <1>1, <1>2, <1>7, <2>1, <2>2, CodeFacts, SoundFacts, EndedParts
  <2>q. QED
    BY <1>2, <1>6, <2>3, SoundFacts, SameDevices, StepIsKept
<1>9. CASE ~(x.kind = "IMAGE_VALID" /\ ~verify_evidence_matches(x))
  <2>1. job' = ToStage(job, "device")
    BY <1>1, <1>9 DEF ServiceRead, ToStage
  <2>2. Onward(job, job', "device", job.reason)
    BY <2>1, SoundFacts, OnwardType
  <2>3. job'.stage = "device" /\ job'.ctx = x /\ job'.reason = job.reason
    BY <1>1, <2>2 DEF Onward
  <2>4. Announced'
    <3>1. Announced
      BY SoundFacts DEF TaskParts
    <3>2. x.kind \notin {"RAM_LOAD", "RAM_CRC"}
      BY <1>3 DEF FlashKinds, AppendKinds
    <3>3. x.kind \in FlashKinds => x.kind \notin AppendKinds
      BY DEF FlashKinds, AppendKinds
    <3>4. {"ERASE", "PROGRAM"} \subseteq FlashKinds
      BY DEF FlashKinds
    <3>q. QED
      BY <1>1, <1>2, <1>6, <2>3, <3>1, <3>2, <3>3, <3>4 DEF Announced
  <2>5. Checked'
    <3>1. StageFits("device", x)
      BY <1>3 DEF StageFits
    <3>2. rt'.res[x.cpu].verify = rt.res[x.cpu].verify
      BY <1>4, <1>6 DEF SameVerify
    <3>3. Checked
      BY SoundFacts DEF TaskParts
    <3>q. QED
      BY <1>1, <1>2, <2>3, <3>1, <3>2, <3>3 DEF Checked
  <2>6. TaskParts'
    BY <1>2, <1>6, <1>7, <2>2, <2>4, <2>5, OnwardParts
  <2>q. QED
    BY <1>2, <1>6, <2>2, <2>6, SoundFacts, SameDevices, StepIsKept DEF Onward
<1>q. QED
  BY <1>8, <1>9

LEMMA ServiceReadKeeps ==
    ASSUME TasksInvariant, ServiceRead
    PROVE  TasksInvariant'
BY ServiceReadFails, ServicePreparedKeeps, ServiceReadOn

-----------------------------------------------------------------------------
(***************************************************************************)
(* What an operation can leave behind on the device, and what it reports.  *)
(***************************************************************************)
Results == {"OK", "LATE", "CANCELLED", "REFUSED", "LOST"}

DeviceFits(d, x, img, e) ==
    /\ e \in Devices
    /\ e.link => d.link
    /\ e.flash # d.flash => /\ x.kind \in {"ERASE", "PROGRAM"}
                            /\ e.flash \notin {"blank", "torn"} => x.kind = "PROGRAM" /\ e.flash = img
    /\ e.journal # d.journal => x.kind \in {"ERASE"} \cup AppendKinds
    /\ e.journal.image \notin {None, d.journal.image} => x.kind = "IMAGE_VALID" /\ e.journal.image = img
    /\ e.ram \notin {d.ram, "service"} => x.kind = "RAM_LOAD"
    /\ x.kind \in ReadKinds => e = d

OutcomeFits(d, x, img, o) ==
    /\ DeviceFits(d, x, img, o.dev)
    /\ o.result \in Results
    /\ x.kind \in AppendKinds /\ o.result \in Completed =>
          o.why = AppendReason(x.kind, d.journal) /\ o.dev.journal = Appended(x.kind, d.journal, img)
    /\ x.kind = "VERIFY" /\ o.result = "OK" => o.dev.flash = img
    /\ x.kind = "RAM_CRC" /\ o.result = "OK" => o.dev.ram = img

(***************************************************************************)
(* The changes of a device the paths are made of.                          *)
(***************************************************************************)
WithRam(d, i) == [d EXCEPT !.ram = i]
WithFlash(d, i) == [d EXCEPT !.flash = i]
WithJournal(d, j) == [d EXCEPT !.journal = j]
Unlinked(d) == [d EXCEPT !.link = FALSE]
SameBut(d, e) == e \in Devices /\ e.link = d.link

LEMMA RamSetOnly ==
    ASSUME NEW d \in Devices, NEW i \in Contents \cup {None, "service"}, NEW e, e = WithRam(d, i)
    PROVE  SameBut(d, e) /\ e.flash = d.flash /\ e.journal = d.journal /\ e.ram = i
BY DEF WithRam, SameBut, Devices

LEMMA FlashSetOnly ==
    ASSUME NEW d \in Devices, NEW i \in Contents \cup {"blank", "torn"}, NEW e, e = WithFlash(d, i)
    PROVE  SameBut(d, e) /\ e.flash = i /\ e.journal = d.journal /\ e.ram = d.ram
BY DEF WithFlash, SameBut, Devices

LEMMA JournalSetOnly ==
    ASSUME NEW d \in Devices, NEW j \in Journals, NEW e, e = WithJournal(d, j)
    PROVE  SameBut(d, e) /\ e.flash = d.flash /\ e.journal = j /\ e.ram = d.ram
BY DEF WithJournal, SameBut, Devices

LEMMA LinkDropped ==
    ASSUME NEW d \in Devices, NEW e, e = Unlinked(d)
    PROVE  e \in Devices /\ ~e.link /\ e.flash = d.flash /\ e.journal = d.journal /\ e.ram = d.ram
BY DEF Unlinked, Devices

LEMMA WithServiceIs ==
    ASSUME NEW d \in Devices, NEW e, e = WithService(d)
    PROVE  SameBut(d, e) /\ e.flash = d.flash /\ e.journal = d.journal /\ e.ram = "service"
<1>1. e = WithRam(d, "service")
  BY DEF WithService, WithRam
<1>q. QED
  BY <1>1, RamSetOnly

LEMMA BlankJournalType ==
    BlankJournal \in Journals /\ BlankJournal.image = None
BY DEF BlankJournal, Journals

LEMMA ErasedIs ==
    ASSUME NEW d \in Devices, NEW s, NEW e, e = Erased(d, s)
    PROVE  /\ SameBut(d, e) /\ e.flash \in {"blank", d.flash} /\ e.journal \in {BlankJournal, d.journal}
           /\ e.ram = "service"
<1>1. PICK w, f, j : /\ w = WithService(d) /\ f = (IF "APP" \in s THEN "blank" ELSE w.flash)
                     /\ j = (IF "META" \in s THEN BlankJournal ELSE w.journal)
  OBVIOUS
<1>2. SameBut(d, w) /\ w.flash = d.flash /\ w.journal = d.journal /\ w.ram = "service" /\ w \in Devices
  BY <1>1, WithServiceIs DEF SameBut
<1>3. f \in Contents \cup {"blank", "torn"} /\ j \in Journals
  BY <1>1, <1>2, BlankJournalType DEF Devices
<1>4. e = [w EXCEPT !.flash = f, !.journal = j]
  BY <1>1 DEF Erased
<1>5. PICK u : u = WithFlash(w, f)
  OBVIOUS
<1>6. SameBut(w, u) /\ u.flash = f /\ u.journal = w.journal /\ u.ram = w.ram /\ u \in Devices
  BY <1>2, <1>3, <1>5, FlashSetOnly DEF SameBut
<1>7. e = WithJournal(u, j)
  BY <1>4, <1>5 DEF WithFlash, WithJournal
<1>8. SameBut(u, e) /\ e.flash = u.flash /\ e.journal = j /\ e.ram = u.ram
  BY <1>3, <1>6, <1>7, JournalSetOnly
<1>q. QED
  BY <1>1, <1>2, <1>6, <1>8 DEF SameBut

LEMMA TornIs ==
    ASSUME NEW d \in Devices, NEW e, e = Torn(d)
    PROVE  SameBut(d, e) /\ e.flash = "torn" /\ e.journal = d.journal /\ e.ram = "service"
<1>1. PICK w : w = WithService(d)
  OBVIOUS
<1>2. SameBut(d, w) /\ w.flash = d.flash /\ w.journal = d.journal /\ w.ram = "service" /\ w \in Devices
  BY <1>1, WithServiceIs DEF SameBut
<1>3. e = WithFlash(w, "torn")
  BY <1>1 DEF Torn, WithFlash
<1>4. SameBut(w, e) /\ e.flash = "torn" /\ e.journal = w.journal /\ e.ram = w.ram
  BY <1>2, <1>3, FlashSetOnly
<1>q. QED
  BY <1>2, <1>4 DEF SameBut

LEMMA OutcomeIs ==
    ASSUME NEW e, NEW r, NEW o, o = DeviceOutcome(e, r)
    PROVE  o.dev = e /\ o.result = r
BY DEF DeviceOutcome

(***************************************************************************)
(* Before the Flash is touched.                                            *)
(***************************************************************************)
LEMMA UnstartedFits ==
    ASSUME NEW d \in Devices, NEW x, x.kind \in FlashKinds \cup AppendKinds, NEW img, NEW o \in Unstarted(d)
    PROVE  OutcomeFits(d, x, img, o)
<1>1. PICK e \in {d, WithService(d)}, r \in {"CANCELLED", "REFUSED", "LOST"} : o = DeviceOutcome(e, r)
  BY DEF Unstarted
<1>2. o.dev = e /\ o.result = r
  BY <1>1, OutcomeIs
<1>3. e \in Devices /\ e.link = d.link /\ e.flash = d.flash /\ e.journal = d.journal /\ e.ram \in {d.ram, "service"}
  BY <1>1, WithServiceIs DEF SameBut
<1>4. x.kind \notin ReadKinds
  BY GroupFacts DEF ReadKinds, FlashKinds, AppendKinds
<1>5. DeviceFits(d, x, img, e)
  BY <1>3, <1>4 DEF DeviceFits
<1>q. QED
  BY <1>1, <1>2, <1>5 DEF OutcomeFits, Results, Completed

LEMMA EraseFits ==
    ASSUME NEW d \in Devices, NEW x, x.kind = "ERASE", NEW img, NEW o \in ErasePath(d, x)
    PROVE  OutcomeFits(d, x, img, o)
<1>1. CASE o \in Unstarted(d)
  BY <1>1, UnstartedFits DEF FlashKinds
<1>2. CASE o \notin Unstarted(d)
  <2>1. PICK e, r : /\ o = DeviceOutcome(e, r) /\ r \in Results
                    /\ \/ \E s : e = Erased(d, s)
                       \/ \E s : e = Torn(Erased(d, s))
    <3>1. CASE o \in {DeviceOutcome(Erased(d, x.mask), r) : r \in Completed}
      BY <3>1 DEF Completed, Results
    <3>2. CASE o \in {DeviceOutcome(e, r) : e \in PartlyErased(d, x), r \in {"REFUSED", "LOST"}}
      <4>1. PICK e \in PartlyErased(d, x), r \in {"REFUSED", "LOST"} : o = DeviceOutcome(e, r)
        BY <3>2
      <4>2. (\E s : e = Erased(d, s)) \/ (\E s : e = Torn(Erased(d, s)))
        BY <4>1 DEF PartlyErased
      <4>q. QED
        BY <4>1, <4>2 DEF Results
    <3>q. QED
      BY <1>2, <3>1, <3>2 DEF ErasePath
  <2>2. o.dev = e /\ o.result = r
    BY <2>1, OutcomeIs
  <2>3. /\ SameBut(d, e) /\ e.flash \in {"blank", "torn", d.flash} /\ e.journal \in {BlankJournal, d.journal}
        /\ e.ram = "service"
    <3>1. CASE \E s : e = Erased(d, s)
      BY <3>1, ErasedIs
    <3>2. CASE \E s : e = Torn(Erased(d, s))
      <4>1. PICK s, u : u = Erased(d, s) /\ e = Torn(u)
        BY <3>2
      <4>2. SameBut(d, u) /\ u.journal \in {BlankJournal, d.journal}
        BY <4>1, ErasedIs
      <4>3. SameBut(u, e) /\ e.flash = "torn" /\ e.journal = u.journal /\ e.ram = "service"
        BY <4>1, <4>2, TornIs DEF SameBut
      <4>q. QED
        BY <4>2, <4>3 DEF SameBut
    <3>q. QED
      BY <2>1, <3>1, <3>2
  <2>4. x.kind \notin ReadKinds
    BY GroupFacts DEF ReadKinds, FlashKinds
  <2>5. e.journal.image \in {None, d.journal.image}
    BY <2>3, BlankJournalType
  <2>6. DeviceFits(d, x, img, e)
    BY <2>3, <2>4, <2>5 DEF DeviceFits, SameBut
  <2>q. QED
    BY <2>1, <2>2, <2>6 DEF OutcomeFits, AppendKinds
<1>q. QED
  BY <1>1, <1>2

LEMMA ProgramFits ==
    ASSUME NEW d \in Devices, NEW x, x.kind = "PROGRAM", NEW img \in Contents, NEW o \in ProgramPath(d, img)
    PROVE  OutcomeFits(d, x, img, o)
<1>0. x.kind \notin ReadKinds
  BY GroupFacts DEF ReadKinds, FlashKinds
<1>1. CASE o \in Unstarted(d)
  BY <1>1, UnstartedFits DEF FlashKinds
<1>2. CASE o \in {DeviceOutcome(Torn(d), r) : r \in {"CANCELLED", "REFUSED", "LOST"}}
  <2>1. PICK e, r : r \in {"CANCELLED", "REFUSED", "LOST"} /\ e = Torn(d) /\ o = DeviceOutcome(e, r)
    <3>1. PICK r \in {"CANCELLED", "REFUSED", "LOST"} : o = DeviceOutcome(Torn(d), r)
      BY <1>2
    <3>q. QED
      BY <3>1
  <2>2. o.dev = e /\ o.result = r
    BY <2>1, OutcomeIs
  <2>3. SameBut(d, e) /\ e.flash = "torn" /\ e.journal = d.journal /\ e.ram = "service"
    BY <2>1, TornIs
  <2>4. DeviceFits(d, x, img, e)
    BY <1>0, <2>3 DEF DeviceFits, SameBut
  <2>q. QED
    BY <2>1, <2>2, <2>4 DEF OutcomeFits, Results, AppendKinds
<1>3. CASE o \notin Unstarted(d) /\ o \notin {DeviceOutcome(Torn(d), r) : r \in {"CANCELLED", "REFUSED", "LOST"}}
  <2>1. PICK r \in Completed \cup {"REFUSED", "LOST"} :
          o = DeviceOutcome([WithService(d) EXCEPT !.flash = img], r)
    BY <1>3 DEF ProgramPath
  <2>2. PICK w, e : w = WithService(d) /\ e = WithFlash(w, img) /\ o = DeviceOutcome(e, r)
    BY <2>1 DEF WithFlash
  <2>3. o.dev = e /\ o.result = r
    BY <2>2, OutcomeIs
  <2>4. SameBut(d, w) /\ w.journal = d.journal /\ w.ram = "service" /\ w \in Devices
    BY <2>2, WithServiceIs DEF SameBut
  <2>5. SameBut(w, e) /\ e.flash = img /\ e.journal = w.journal /\ e.ram = w.ram
    BY <2>2, <2>4, FlashSetOnly
  <2>6. DeviceFits(d, x, img, e)
    BY <1>0, <2>4, <2>5 DEF DeviceFits, SameBut
  <2>q. QED
    BY <2>1, <2>3, <2>6 DEF OutcomeFits, Results, AppendKinds, Completed
<1>q. QED
  BY <1>1, <1>2, <1>3

LEMMA VerifyFits ==
    ASSUME NEW d \in Devices, NEW x, x.kind = "VERIFY", NEW img, NEW o \in VerifyPath(d, img)
    PROVE  OutcomeFits(d, x, img, o)
<1>1. CASE o \in Unstarted(d)
  BY <1>1, UnstartedFits DEF FlashKinds
<1>2. CASE o \notin Unstarted(d)
  <2>0. o \in {DeviceOutcome(WithService(d), r) : r \in Completed} /\ d.flash = img
    BY <1>2 DEF VerifyPath
  <2>1. PICK e, r : r \in Completed /\ e = WithService(d) /\ o = DeviceOutcome(e, r) /\ d.flash = img
    <3>1. PICK r \in Completed : o = DeviceOutcome(WithService(d), r)
      BY <2>0
    <3>q. QED
      BY <2>0, <3>1
  <2>2. o.dev = e /\ o.result = r
    BY <2>1, OutcomeIs
  <2>3. SameBut(d, e) /\ e.flash = d.flash /\ e.journal = d.journal /\ e.ram = "service"
    BY <2>1, WithServiceIs
  <2>4. x.kind \notin ReadKinds
    BY GroupFacts DEF ReadKinds, FlashKinds
  <2>5. DeviceFits(d, x, img, e)
    BY <2>3, <2>4 DEF DeviceFits, SameBut
  <2>q. QED
    BY <2>1, <2>2, <2>3, <2>5 DEF OutcomeFits, Results, AppendKinds, Completed
<1>q. QED
  BY <1>1, <1>2

(***************************************************************************)
(* An append writes one record of the journal, or none.                    *)
(***************************************************************************)
ToImage(j, i) == [j EXCEPT !.image = i]
ToAttempts(j, n) == [j EXCEPT !.attempts = n]
ToConfirmed(j) == [j EXCEPT !.confirmed = TRUE]

LEMMA AppendedIs ==
    ASSUME NEW k \in AppendKinds, NEW j \in Journals, NEW i, k = "IMAGE_VALID" => i \in Contents,
           NEW a, a = Appended(k, j, i)
    PROVE  /\ a \in Journals /\ (a.image # j.image => k = "IMAGE_VALID" /\ a.image = i)
           /\ AppendReason(k, j) = None =>
                 /\ k = "IMAGE_VALID" => a.image = i
                 /\ k = "BOOT_ATTEMPT" => a.attempts = j.attempts + 1
                 /\ k = "APP_CONFIRMED" => a.confirmed
           /\ AppendReason(k, j) # None => a = j
<1>1. CASE AppendReason(k, j) # None
  <2>1. a = j
    BY <1>1 DEF Appended
  <2>q. QED
    BY <1>1, <2>1
<1>2. CASE AppendReason(k, j) = None /\ k = "IMAGE_VALID"
  <2>1. a = ToImage(j, i)
    BY <1>2 DEF Appended, ToImage
  <2>2. a \in Journals /\ a.image = i
    BY <1>2, <2>1 DEF ToImage, Journals
  <2>q. QED
    BY <1>2, <2>2
<1>3. CASE AppendReason(k, j) = None /\ k = "BOOT_ATTEMPT"
  <2>1. PICK n : n = j.attempts + 1
    OBVIOUS
  <2>2. a = ToAttempts(j, n)
    BY <1>3, <2>1 DEF Appended, ToAttempts
  <2>3. n \in Nat
    BY <2>1 DEF Journals
  <2>4. a \in Journals /\ a.attempts = n /\ a.image = j.image
    BY <2>2, <2>3 DEF ToAttempts, Journals
  <2>q. QED
    BY <1>3, <2>1, <2>4
<1>4. CASE AppendReason(k, j) = None /\ k = "APP_CONFIRMED"
  <2>1. a = ToConfirmed(j)
    BY <1>4 DEF Appended, ToConfirmed
  <2>2. a \in Journals /\ a.confirmed /\ a.image = j.image
    BY <2>1 DEF ToConfirmed, Journals
  <2>q. QED
    BY <1>4, <2>2
<1>q. QED
  BY <1>1, <1>2, <1>3, <1>4 DEF AppendKinds

LEMMA AppendFits ==
    ASSUME NEW d \in Devices, NEW x, x.kind \in AppendKinds, NEW img, x.kind = "IMAGE_VALID" => img \in Contents,
           NEW o \in AppendPath(d, x, img)
    PROVE  OutcomeFits(d, x, img, o)
<1>0. x.kind \notin ReadKinds /\ x.kind \notin {"ERASE", "PROGRAM", "VERIFY", "RAM_CRC"} /\ d.journal \in Journals
  BY GroupFacts DEF ReadKinds, AppendKinds, Devices
<1>1. CASE o \in Unstarted(d)
  BY <1>1, UnstartedFits DEF FlashKinds
<1>2. CASE o \notin Unstarted(d)
  <2>1. PICK w, a, e, q : /\ w = WithService(d) /\ a = Appended(x.kind, w.journal, img) /\ e = WithJournal(w, a)
                          /\ q = AppendReason(x.kind, d.journal)
    OBVIOUS
  <2>2. o \in {[dev |-> e, result |-> r, why |-> q] : r \in Completed \cup {"REFUSED", "LOST"}}
    BY <1>2, <2>1 DEF AppendPath, WithJournal
  <2>3. PICK r \in Completed \cup {"REFUSED", "LOST"} : o = [dev |-> e, result |-> r, why |-> q]
    BY <2>2
  <2>4. o.dev = e /\ o.result = r /\ o.why = q
    BY <2>3
  <2>5. SameBut(d, w) /\ w.flash = d.flash /\ w.journal = d.journal /\ w.ram = "service" /\ w \in Devices
    BY <2>1, WithServiceIs DEF SameBut
  <2>6. a \in Journals /\ (a.image # d.journal.image => x.kind = "IMAGE_VALID" /\ a.image = img)
    BY <1>0, <2>1, <2>5, AppendedIs
  <2>7. SameBut(w, e) /\ e.flash = w.flash /\ e.journal = a /\ e.ram = w.ram
    BY <2>1, <2>5, <2>6, JournalSetOnly
  <2>8. DeviceFits(d, x, img, e)
    BY <1>0, <2>5, <2>6, <2>7 DEF DeviceFits, SameBut
  <2>9. r \in Results
    BY DEF Completed, Results
  <2>q. QED
    BY <1>0, <2>1, <2>4, <2>5, <2>7, <2>8, <2>9 DEF OutcomeFits
<1>q. QED
  BY <1>1, <1>2

(***************************************************************************)
(* RAM operations, RUN and the reads.                                      *)
(***************************************************************************)
LEMMA RamFits ==
    ASSUME NEW d \in Devices, NEW x, x.kind \in RamKinds, NEW img, x.kind = "RAM_LOAD" => img \in Contents,
           NEW o \in RamPath(d, x, img)
    PROVE  OutcomeFits(d, x, img, o)
<1>0. x.kind \notin ReadKinds /\ x.kind \notin AppendKinds /\ x.kind \notin {"ERASE", "PROGRAM", "VERIFY"}
  BY GroupFacts DEF ReadKinds, AppendKinds, RamKinds
<1>1. DeviceFits(d, x, img, d)
  BY DEF DeviceFits
<1>2. CASE x.kind = "RAM_LOAD"
  <2>1. PICK e, r : /\ o = DeviceOutcome(e, r) /\ r \in Results
                    /\ e = d \/ \E i \in {None, img} : e = WithRam(d, i)
    BY <1>2 DEF RamPath, Completed, Results, WithRam
  <2>2. o.dev = e /\ o.result = r
    BY <2>1, OutcomeIs
  <2>3. CASE e = d
    BY <1>0, <1>1, <1>2, <2>1, <2>2, <2>3 DEF OutcomeFits
  <2>4. CASE e # d
    <3>1. PICK i \in {None, img} : e = WithRam(d, i)
      BY <2>1, <2>4
    <3>2. SameBut(d, e) /\ e.flash = d.flash /\ e.journal = d.journal
      BY <1>2, <3>1, RamSetOnly
    <3>3. DeviceFits(d, x, img, e)
      BY <1>0, <1>2, <3>2 DEF DeviceFits, SameBut
    <3>q. QED
      BY <1>0, <1>2, <2>1, <2>2, <3>3 DEF OutcomeFits
  <2>q. QED
    BY <2>3, <2>4
<1>3. CASE x.kind = "RAM_CRC"
  <2>1. PICK r : o = DeviceOutcome(d, r) /\ r \in Results /\ (r = "OK" => d.ram = img)
    BY <1>3 DEF RamPath, Results
  <2>2. o.dev = d /\ o.result = r
    BY <2>1, OutcomeIs
  <2>q. QED
    BY <1>0, <1>1, <1>3, <2>1, <2>2 DEF OutcomeFits
<1>4. CASE x.kind = "RAM_RUN"
  <2>1. PICK e, r : /\ o = DeviceOutcome(e, r) /\ r \in Results
                    /\ e = d \/ e = Unlinked(d)
    BY <1>4 DEF RamPath, Results, Unlinked
  <2>2. o.dev = e /\ o.result = r
    BY <2>1, OutcomeIs
  <2>3. DeviceFits(d, x, img, e)
    <3>1. CASE e = d
      BY <1>1, <3>1
    <3>2. CASE e = Unlinked(d)
      <4>1. e \in Devices /\ ~e.link /\ e.flash = d.flash /\ e.journal = d.journal /\ e.ram = d.ram
        BY <3>2, LinkDropped
      <4>q. QED
        BY <1>0, <4>1 DEF DeviceFits
    <3>q. QED
      BY <2>1, <3>1, <3>2
  <2>q. QED
    BY <1>0, <1>4, <2>1, <2>2, <2>3 DEF OutcomeFits
<1>q. QED
  BY <1>2, <1>3, <1>4 DEF RamKinds

LEMMA RunFits ==
    ASSUME NEW d \in Devices, NEW x, x.kind = "RUN", NEW img, NEW o \in RunPath(d)
    PROVE  OutcomeFits(d, x, img, o)
<1>0. x.kind \notin ReadKinds /\ x.kind \notin AppendKinds /\ x.kind \notin {"ERASE", "PROGRAM", "VERIFY", "RAM_CRC"}
  BY GroupFacts DEF ReadKinds, AppendKinds
<1>1. PICK e, r : /\ o = DeviceOutcome(e, r) /\ r \in Results
                  /\ e = d \/ e = Unlinked(d)
  BY DEF RunPath, Results, Unlinked
<1>2. o.dev = e /\ o.result = r
  BY <1>1, OutcomeIs
<1>3. DeviceFits(d, x, img, e)
  <2>1. CASE e = d
    BY <2>1 DEF DeviceFits
  <2>2. CASE e = Unlinked(d)
    <3>1. e \in Devices /\ ~e.link /\ e.flash = d.flash /\ e.journal = d.journal /\ e.ram = d.ram
      BY <2>2, LinkDropped
    <3>q. QED
      BY <1>0, <3>1 DEF DeviceFits
  <2>q. QED
    BY <1>1, <2>1, <2>2
<1>q. QED
  BY <1>0, <1>1, <1>2, <1>3 DEF OutcomeFits

LEMMA ReadFits ==
    ASSUME NEW d \in Devices, NEW x, x.kind \in ReadKinds, NEW img, NEW o \in ReadPath(d, x)
    PROVE  OutcomeFits(d, x, img, o)
<1>0. x.kind \notin AppendKinds /\ x.kind \notin {"ERASE", "PROGRAM", "VERIFY", "RAM_CRC"}
  BY GroupFacts DEF ReadKinds, AppendKinds, FlashKinds, RamKinds
<1>1. PICK r \in Results : o = DeviceOutcome(d, r)
  BY DEF ReadPath, Results
<1>2. o.dev = d /\ o.result = r
  BY <1>1, OutcomeIs
<1>3. DeviceFits(d, x, img, d)
  BY DEF DeviceFits
<1>q. QED
  BY <1>0, <1>1, <1>2, <1>3 DEF OutcomeFits

(***************************************************************************)
(* Every outcome of an operation of a known kind.                          *)
(***************************************************************************)
LEMMA OutcomesFit ==
    ASSUME NEW d \in Devices, NEW x, x.kind \in Kinds \ PrepareKinds, NEW img, NeedsImage(x) => img \in Contents,
           NEW o \in DeviceOutcomes(d, x, img)
    PROVE  OutcomeFits(d, x, img, o) /\ (d.link \/ (o.dev = d /\ o.result = "LOST"))
<1>1. CASE ~d.link
  <2>1. o = DeviceOutcome(d, "LOST")
    BY <1>1 DEF DeviceOutcomes
  <2>2. o.dev = d /\ o.result = "LOST"
    BY <2>1, OutcomeIs
  <2>3. DeviceFits(d, x, img, d)
    BY DEF DeviceFits
  <2>q. QED
    BY <2>2, <2>3 DEF OutcomeFits, Results, Completed
<1>2. CASE d.link /\ x.kind \in FlashKinds
  <2>1. CASE x.kind = "ERASE"
    BY <1>2, <2>1, EraseFits DEF DeviceOutcomes, FlashKinds, AppendKinds, RamKinds
  <2>2. CASE x.kind = "PROGRAM"
    BY <1>2, <2>2, ProgramFits DEF DeviceOutcomes, FlashKinds, AppendKinds, RamKinds, NeedsImage
  <2>3. CASE x.kind = "VERIFY"
    BY <1>2, <2>3, VerifyFits DEF DeviceOutcomes, FlashKinds, AppendKinds, RamKinds
  <2>q. QED
    BY <1>2, <2>1, <2>2, <2>3 DEF FlashKinds
<1>3. CASE d.link /\ x.kind \in AppendKinds
  BY <1>3, AppendFits DEF DeviceOutcomes, AppendKinds, RamKinds, NeedsImage
<1>4. CASE d.link /\ x.kind \in RamKinds
  BY <1>4, RamFits DEF DeviceOutcomes, AppendKinds, RamKinds, NeedsImage
<1>5. CASE d.link /\ x.kind = "RUN"
  BY <1>5, RunFits DEF DeviceOutcomes, AppendKinds, RamKinds
<1>6. CASE d.link /\ x.kind \in ReadKinds
  <2>1. x.kind \notin FlashKinds \cup AppendKinds \cup RamKinds \cup {"RUN"}
    BY <1>6, GroupFacts DEF ReadKinds, FlashKinds, AppendKinds, RamKinds
  <2>2. o \in ReadPath(d, x)
    BY <1>6, <2>1 DEF DeviceOutcomes, FlashKinds
  <2>q. QED
    BY <1>6, <2>2, ReadFits
<1>q. QED
  BY <1>1, <1>2, <1>3, <1>4, <1>5, <1>6 DEF Kinds

-----------------------------------------------------------------------------
(***************************************************************************)
(* What the end of an operation tells the store: evidence is earned only   *)
(* by a verification that succeeded, and for the image it compared; the    *)
(* metadata shown is the journal the task has read.                        *)
(***************************************************************************)
EarnedAlone(s, c, g, i, b, v) == b = c /\ Earned(s, c, g, i, v)

Told(s, t, x, r, img, j) ==
    /\ t \in Stores /\ SnapshotValid(t) /\ AllNamed(t) /\ t.gen = s.gen /\ t.conn = s.conn
    /\ SameProgram(s, t) /\ MemoryOfConnection(s, t) /\ DiagOfConnection(s, t)
    /\ \A b \in Cpus : \/ t.res[b].verify \in {None, s.res[b].verify}
                       \/ x.kind = "VERIFY" /\ r = "OK" /\ EarnedAlone(s, x.cpu, x.gen, img, b, t.res[b].verify)
    /\ \A b \in Cpus : \/ t.res[b].crc \in {None, s.res[b].crc}
                       \/ x.kind = "RAM_CRC" /\ r = "OK" /\ EarnedAlone(s, x.cpu, x.gen, img, b, t.res[b].crc)
    /\ \/ t.meta = s.meta \/ t.meta.freshness # "FRESH"
       \/ x.kind = "METADATA" /\ t.meta.value = j

LEMMA SoundIsTold ==
    ASSUME NEW s, NEW t, SoundStep(s, t), SameProgram(s, t), NEW x, NEW r, NEW img, NEW j
    PROVE  Told(s, t, x, r, img, j)
BY DEF Told, SoundStep, Calm, LessEvidence

LEMMA SucceededTold ==
    ASSUME TasksInvariant, NEW x, x.kind \in {"VERIFY", "RAM_CRC"}, x.cpu \in Cpus, x.gen \in Nat,
           NEW img \in Contents, NEW e, e = OperationSucceeded(x.kind, x.cpu, x.gen, img),
           rt' = Transition(e, rt), NEW j
    PROVE  Told(rt, rt', x, "OK", img, j)
<1>1. CASE rt' = rt
  BY <1>1, SoundFacts, SameStore, SoundIsTold
<1>2. CASE rt' # rt
  <2>1. rt' = Candidate(e, rt) /\ SnapshotValid(rt')
    BY <1>2, TransitionCases
  <2>2. /\ rt' \in Stores /\ OnlyRes(rt, rt') /\ SameProgram(rt, rt') /\ SameRam(rt, rt')
        /\ OnlyEarned(rt, rt', x.kind, x.cpu, x.gen, img)
    BY <2>1, SoundFacts, SucceededEffect
  <2>3. AllNamed(rt')
    BY <2>2, SoundFacts DEF AllNamed, SameProgram, SameRam
  <2>4. MemoryOfConnection(rt, rt') /\ DiagOfConnection(rt, rt')
    BY <2>2 DEF OnlyRes, MemoryOfConnection, DiagOfConnection
  <2>5. \A b \in Cpus : \/ rt'.res[b].verify \in {None, rt.res[b].verify}
                        \/ x.kind = "VERIFY" /\ EarnedAlone(rt, x.cpu, x.gen, img, b, rt'.res[b].verify)
    BY <2>2 DEF EarnedAlone, OnlyEarned
  <2>6. \A b \in Cpus : \/ rt'.res[b].crc \in {None, rt.res[b].crc}
                        \/ x.kind = "RAM_CRC" /\ EarnedAlone(rt, x.cpu, x.gen, img, b, rt'.res[b].crc)
    BY <2>2 DEF EarnedAlone, OnlyEarned
  <2>q. QED
    BY <2>1, <2>2, <2>3, <2>4, <2>5, <2>6 DEF Told, OnlyRes
<1>q. QED
  BY <1>1, <1>2

LEMMA MetadataReadTold ==
    ASSUME TasksInvariant, NEW c \in Cpus, NEW g \in Nat, NEW j \in Journals, NEW e,
           e = MetadataReadSucceeded(c, g, j), rt' = Transition(e, rt)
    PROVE  /\ rt' \in Stores /\ SnapshotValid(rt') /\ AllNamed(rt') /\ OnlyMeta(rt, rt')
           /\ rt'.meta = rt.meta \/ rt'.meta.value = j
<1>1. CASE rt' = rt
  BY <1>1, SoundFacts DEF OnlyMeta
<1>2. CASE rt' # rt
  <2>1. rt' = Candidate(e, rt) /\ SnapshotValid(rt')
    BY <1>2, TransitionCases
  <2>2. rt' \in Stores /\ OnlyMeta(rt, rt') /\ (rt'.meta = rt.meta \/ rt'.meta.value = j)
    BY <2>1, SoundFacts, MetadataReadEffect
  <2>3. AllNamed(rt')
    BY <2>2, SoundFacts DEF AllNamed, OnlyMeta
  <2>q. QED
    BY <2>1, <2>2, <2>3
<1>q. QED
  BY <1>1, <1>2

LEMMA OnlyMetaTold ==
    ASSUME NEW s, NEW t \in Stores, SnapshotValid(t), AllNamed(t), OnlyMeta(s, t),
           NEW x, NEW r, NEW img, NEW j, x.kind = "METADATA", t.meta = s.meta \/ t.meta.value = j
    PROVE  Told(s, t, x, r, img, j)
<1>1. SameProgram(s, t) /\ MemoryOfConnection(s, t) /\ DiagOfConnection(s, t)
  BY DEF OnlyMeta, SameProgram, MemoryOfConnection, DiagOfConnection
<1>q. QED
  BY <1>1 DEF Told, OnlyMeta

LEMMA ReadEventTold ==
    ASSUME TasksInvariant, NEW x, x.kind \in ReadKinds, x.cpu \in Cpus, x.gen \in Nat, NEW r,
           rt' = Transition(ReadEvent(x, r), rt), NEW img
    PROVE  Told(rt, rt', x, r, img, dev[x.cpu].journal)
<1>1. CASE x.kind = "METADATA" /\ r = "OK"
  <2>1. PICK e, j : e = MetadataReadSucceeded(x.cpu, x.gen, j) /\ j = dev[x.cpu].journal
    OBVIOUS
  <2>2. rt' = Transition(e, rt)
    BY <1>1, <2>1 DEF ReadEvent
  <2>3. j \in Journals
    BY <2>1, SoundFacts DEF Devices
  <2>q. QED
    BY <1>1, <2>1, <2>2, <2>3, MetadataReadTold, OnlyMetaTold
<1>2. CASE x.kind = "METADATA" /\ r # "OK"
  <2>1. PICK e : e = MetadataReadFailed(x.cpu, x.gen)
    OBVIOUS
  <2>2. rt' = Transition(e, rt)
    BY <1>2, <2>1 DEF ReadEvent
  <2>q. QED
    BY <2>1, <2>2, SoundFacts, MetadataFailStep, SoundIsTold
<1>3. CASE x.kind = "MEMORY"
  <2>1. PICK e : /\ e = ReadEvent(x, r)
                 /\ e = MemoryReadSucceeded(x.cpu, x.gen, "words") \/ e = MemoryReadFailed(x.cpu, x.gen)
    BY <1>3 DEF ReadEvent
  <2>q. QED
    BY <2>1, SoundFacts, MemoryStep, SoundIsTold
<1>4. CASE x.kind \in Groups
  <2>1. x.kind \notin {"METADATA", "MEMORY"}
    BY <1>4, GroupFacts
  <2>2. PICK e : /\ e = ReadEvent(x, r)
                 /\ \/ e = DiagnosticReadSucceeded(x.cpu, x.gen, x.kind, "reading")
                    \/ e = DiagnosticReadFailed(x.cpu, x.gen, x.kind)
    BY <2>1 DEF ReadEvent
  <2>q. QED
    BY <1>4, <2>2, SoundFacts, DiagnosticStep, SoundIsTold
<1>q. QED
  BY <1>1, <1>2, <1>3, <1>4 DEF ReadKinds

LEMMA EndIsTold ==
    ASSUME TasksInvariant, NEW x, x.kind \in Kinds, x.cpu \in Cpus, x.gen \in Nat, NEW r, OperationEnds(x, r),
           x.kind \in {"VERIFY", "RAM_CRC"} => job.reason \in Contents
    PROVE  Told(rt, rt', x, r, job.reason, dev[x.cpu].journal)
<1>1. CASE rt' = rt
  BY <1>1, SoundFacts, SameStore, SoundIsTold
<1>2. CASE rt' # rt /\ x.kind \in {"VERIFY", "RAM_CRC"} /\ CleanSuccess(x, r)
  <2>1. PICK e : e = OperationSucceeded(x.kind, x.cpu, x.gen, job.reason)
    OBVIOUS
  <2>2. rt' = Transition(e, rt) /\ r = "OK"
    BY <1>2, <2>1 DEF OperationEnds, Dispatch, CleanSuccess
  <2>q. QED
    BY <1>2, <2>1, <2>2, SucceededTold
<1>3. CASE rt' # rt /\ ~(x.kind \in {"VERIFY", "RAM_CRC"} /\ CleanSuccess(x, r))
  <2>1. x.kind \in ReadKinds /\ rt' = Transition(ReadEvent(x, r), rt)
    BY <1>3 DEF OperationEnds, Dispatch
  <2>q. QED
    BY <2>1, ReadEventTold
<1>q. QED
  BY <1>1, <1>2, <1>3

-----------------------------------------------------------------------------
(***************************************************************************)
(* What is shown is true after a step of the device of the connection that *)
(* told the store no more than it did.                                     *)
(***************************************************************************)
EvidenceFits(c, f, g, v, old) == v \in {None, old} \/ (v.gen = g /\ f = v.id /\ c = v.cpu)

LEMMA TruthAfter ==
    ASSUME rt \in Stores, rt' \in Stores, ShownIsTrue, NEW c \in Cpus, rt.conn # None, rt.conn.cpu = c,
           rt'.conn = rt.conn, MemoryOfConnection(rt, rt'), DiagOfConnection(rt, rt'),
           \A b \in Cpus \ {c} : /\ dev'[b] = dev[b] /\ rt'.res[b].verify \in {None, rt.res[b].verify}
                                 /\ rt'.res[b].crc \in {None, rt.res[b].crc},
           dev'[c].link => dev[c].link,
           EvidenceFits(c, dev'[c].flash, rt.conn.gen, rt'.res[c].verify, rt.res[c].verify),
           dev'[c].flash = dev[c].flash \/ rt.res[c].verify = None,
           EvidenceFits(c, dev'[c].ram, rt.conn.gen, rt'.res[c].crc, rt.res[c].crc),
           dev'[c].ram \in {dev[c].ram, "service"} \/ rt.res[c].crc = None,
           rt'.meta = rt.meta \/ rt'.meta.freshness # "FRESH" \/ rt'.meta.value = dev'[c].journal,
           dev'[c].journal = dev[c].journal \/ rt.meta.freshness # "FRESH"
    PROVE  ShownIsTrue'
<1>0. PICK g : g = rt.conn.gen
  OBVIOUS
<1>1. rt.conn = [gen |-> g, cpu |-> c]
  BY <1>0, ConnectionEquals
<1>2. EvidenceIsTrue'
  <2>1. SUFFICES ASSUME NEW b \in Cpus, rt'.res[b].verify # None
                 PROVE  /\ rt'.conn = [gen |-> rt'.res[b].verify.gen, cpu |-> b]
                        /\ dev'[b].flash = rt'.res[b].verify.id
    BY DEF EvidenceIsTrue
  <2>2. CASE rt'.res[b].verify = rt.res[b].verify
    <3>1. rt.conn = [gen |-> rt.res[b].verify.gen, cpu |-> b] /\ dev[b].flash = rt.res[b].verify.id
      BY <2>1, <2>2 DEF ShownIsTrue, EvidenceIsTrue
    <3>2. dev'[b].flash = dev[b].flash
      BY <2>1, <2>2
    <3>q. QED
      BY <2>2, <3>1, <3>2
  <2>3. CASE rt'.res[b].verify # rt.res[b].verify
    <3>1. b = c
      BY <2>1, <2>3
    <3>2. rt'.res[b].verify.gen = g /\ dev'[b].flash = rt'.res[b].verify.id
      BY <1>0, <2>1, <2>3, <3>1 DEF EvidenceFits
    <3>q. QED
      BY <1>1, <3>1, <3>2
  <2>q. QED
    BY <2>2, <2>3
<1>3. RamEvidenceIsTrue'
  <2>1. SUFFICES ASSUME NEW b \in Cpus, rt'.res[b].crc # None
                 PROVE  /\ rt'.conn = [gen |-> rt'.res[b].crc.gen, cpu |-> b]
                        /\ dev'[b].link => dev'[b].ram \in {rt'.res[b].crc.id, "service"}
    BY DEF RamEvidenceIsTrue
  <2>2. CASE rt'.res[b].crc = rt.res[b].crc
    <3>1. /\ rt.conn = [gen |-> rt.res[b].crc.gen, cpu |-> b]
          /\ dev[b].link => dev[b].ram \in {rt.res[b].crc.id, "service"}
      BY <2>1, <2>2 DEF ShownIsTrue, RamEvidenceIsTrue
    <3>2. dev'[b].ram \in {dev[b].ram, "service"} /\ (dev'[b].link => dev[b].link)
      BY <2>1, <2>2
    <3>q. QED
      BY <2>2, <3>1, <3>2
  <2>3. CASE rt'.res[b].crc # rt.res[b].crc
    <3>1. b = c
      BY <2>1, <2>3
    <3>2. rt'.res[b].crc.gen = g /\ dev'[b].ram = rt'.res[b].crc.id
      BY <1>0, <2>1, <2>3, <3>1 DEF EvidenceFits
    <3>q. QED
      BY <1>1, <3>1, <3>2
  <2>q. QED
    BY <2>2, <2>3
<1>4. FreshBelongsToConnection'
  <2>1. \A b \in Cpus : rt'.mem[b].freshness = "FRESH" => rt'.conn = [gen |-> rt'.mem[b].gen, cpu |-> b]
    BY MemoryTruth DEF ShownIsTrue
  <2>2. Connected'
    BY DEF Connected
  <2>q. QED
    BY <2>1, <2>2 DEF FreshBelongsToConnection
<1>5. FreshMetadataIsTrue'
  <2>1. SUFFICES ASSUME rt'.meta.freshness = "FRESH", dev'[c].link
                 PROVE  rt'.meta.value = dev'[c].journal
    BY DEF FreshMetadataIsTrue, Cpu
  <2>2. CASE rt'.meta = rt.meta
    BY <2>1, <2>2 DEF ShownIsTrue, FreshMetadataIsTrue, Cpu
  <2>3. CASE rt'.meta # rt.meta
    BY <2>1, <2>3
  <2>q. QED
    BY <2>2, <2>3
<1>q. QED
  BY <1>2, <1>3, <1>4, <1>5 DEF ShownIsTrue

(***************************************************************************)
(* A step put together as in StepIsKept, when something new is shown.      *)
(***************************************************************************)
LEMMA StepIsShown ==
    ASSUME TasksInvariant, rt' \in Stores, SnapshotValid(rt'), AllNamed(rt'), rt'.gen = rt.gen, be' = be,
           dev' \in [Cpus -> Devices], disk' = disk, changes' = changes, ui' = ui,
           ShownIsTrue', IsJob(job'), TaskParts'
    PROVE  TasksInvariant'
<1>0. TaskTypes /\ StoreIsSound
  BY DEF TasksInvariant
<1>1. TaskTypes'
  BY <1>0 DEF TaskTypes
<1>2. StoreIsSound'
  BY <1>0 DEF StoreIsSound
<1>q. QED
  BY <1>1, <1>2 DEF TasksInvariant

(***************************************************************************)
(* The task ends and forgets why.                                          *)
(***************************************************************************)
EndedFor(j, r, q) == [Ended(j, r) EXCEPT !.reason = q]
ToRefresh(j, r, q) == [j EXCEPT !.stage = "refresh", !.result = r, !.touched = {}, !.reason = q]

LEMMA EndedForParts ==
    ASSUME JobIsSound, job.stage # None, IsJob(job), NEW r, NEW q, job' = EndedFor(job, r, q), ui' = ui,
           rt'.conn = rt.conn, NotMismatch(r),
           job.ctx.kind \in FlashKinds \cup AppendKinds => shown(job.ctx, r, rt', be')
    PROVE  IsJob(job') /\ TaskParts'
<1>0. PICK j : j = job
  OBVIOUS
<1>1. j = [stage |-> j.stage, ctx |-> j.ctx, touched |-> j.touched, result |-> j.result,
           reason |-> j.reason]
  BY <1>0 DEF IsJob
<1>2. PICK k : k = EndedFor(j, r, q)
  OBVIOUS
<1>3. IsJob(k) /\ k.stage = "done" /\ k.ctx = j.ctx /\ k.result = r
  BY <1>1, <1>2 DEF IsJob, Ended, EndedFor
<1>4. job' = k
  BY <1>0, <1>2
<1>5. JobIsSound'
  BY <1>0, <1>3, <1>4, NoneFacts DEF JobIsSound, Stages, ActiveStages, OnConnection
<1>6. Announced' /\ Checked'
  BY <1>3, <1>4 DEF Announced, Checked, StageFits
<1>7. Pending' /\ NoFalseMismatch'
  BY <1>0, <1>3, <1>4 DEF Pending, NoFalseMismatch, NotMismatch
<1>q. QED
  BY <1>3, <1>4, <1>5, <1>6, <1>7 DEF TaskParts

LEMMA RefreshParts ==
    ASSUME JobIsSound, job.stage # None, IsJob(job), NEW r, NEW q, job' = ToRefresh(job, r, q), ui' = ui,
           rt'.conn = rt.conn, NotMismatch(r), job.ctx.kind \in WriteKinds,
           job.ctx.kind \in AppendKinds /\ dev'[job.ctx.cpu].link =>
               readback_matches(job.ctx, q, dev'[job.ctx.cpu].journal),
           job.ctx.kind \in FlashKinds \cup AppendKinds => context_current(job.ctx, rt', be')
    PROVE  IsJob(job') /\ TaskParts'
<1>0. PICK j : j = job
  OBVIOUS
<1>1. j = [stage |-> j.stage, ctx |-> j.ctx, touched |-> j.touched, result |-> j.result,
           reason |-> j.reason]
  BY <1>0 DEF IsJob
<1>2. PICK k : k = ToRefresh(j, r, q)
  OBVIOUS
<1>3. IsJob(k) /\ k.stage = "refresh" /\ k.ctx = j.ctx /\ k.result = r /\ k.reason = q
  BY <1>1, <1>2 DEF IsJob, ToRefresh
<1>4. job' = k
  BY <1>0, <1>2
<1>5. JobIsSound'
  BY <1>0, <1>3, <1>4, NoneFacts DEF JobIsSound, Stages, ActiveStages, OnConnection
<1>6. Announced'
  BY <1>3, <1>4 DEF Announced
<1>7. Checked'
  BY <1>0, <1>3, <1>4 DEF Checked, StageFits
<1>8. Pending' /\ NoFalseMismatch'
  BY <1>0, <1>3, <1>4 DEF Pending, NoFalseMismatch, NotMismatch
<1>q. QED
  BY <1>3, <1>4, <1>5, <1>6, <1>7, <1>8 DEF TaskParts

(***************************************************************************)
(* The readback of an append agrees with it: the journal is the one the    *)
(* user was shown, plus the record written.                                *)
(***************************************************************************)
LEMMA ReadbackAgrees ==
    ASSUME NEW x, x.kind \in AppendKinds, NEW j \in Journals, NEW a, a = Appended(x.kind, j, x.id),
           ContextIsSound(x), x.kind # "IMAGE_VALID" => j = x.meta, NEW q, q = AppendReason(x.kind, j)
    PROVE  readback_matches(x, q, a)
<1>0. /\ None \notin {"IMAGE_VALID_ALREADY_EXISTS", "IMAGE_VALID_REQUIRED", "APP_CONFIRMED_ALREADY_EXISTS",
                      "BOOT_ATTEMPT_LIMIT_REACHED", "BOOT_ATTEMPT_REQUIRED"}
      /\ None \notin Contents
  BY NoneIsApart DEF ErrorCodes
<1>1. CASE x.kind = "IMAGE_VALID"
  <2>1. x.id \in Contents /\ x.id # None
    BY <1>0, <1>1 DEF ContextIsSound
  <2>2. CASE j.image # None
    <3>1. q = "IMAGE_VALID_ALREADY_EXISTS"
      BY <1>1, <2>2 DEF AppendReason
    <3>2. a = j
      BY <1>0, <3>1 DEF Appended
    <3>q. QED
      BY <2>2, <3>1, <3>2 DEF readback_matches
  <2>3. CASE j.image = None
    <3>1. q = None
      BY <1>1, <2>3 DEF AppendReason
    <3>2. a.image = x.id
      BY <1>1, <2>1, <3>1, AppendedIs
    <3>q. QED
      BY <1>0, <1>1, <2>1, <3>1, <3>2 DEF readback_matches
  <2>q. QED
    BY <2>2, <2>3
<1>2. CASE x.kind = "BOOT_ATTEMPT"
  <2>1. j = x.meta /\ j.image # None /\ ~j.confirmed /\ j.attempts < Limit
    BY <1>2 DEF ContextIsSound
  <2>2. j.attempts \in Nat /\ Limit \in Nat
    BY RuntimeConstants DEF Journals
  <2>3. ~(j.attempts >= Limit)
    BY <2>1, <2>2
  <2>4. q = None
    BY <1>2, <2>1, <2>3 DEF AppendReason
  <2>5. a.attempts = j.attempts + 1 /\ a.image = j.image
    BY <1>2, <2>4, AppendedIs
  <2>q. QED
    BY <1>0, <1>2, <2>1, <2>4, <2>5 DEF readback_matches
<1>3. CASE x.kind = "APP_CONFIRMED"
  <2>1. j = x.meta /\ j.image # None /\ ~j.confirmed /\ j.attempts > 0
    BY <1>3 DEF ContextIsSound
  <2>2. j.attempts # 0
    BY <2>1 DEF Journals
  <2>3. q = None
    BY <1>3, <2>1, <2>2 DEF AppendReason
  <2>4. a.confirmed /\ a.image = j.image
    BY <1>3, <2>3, AppendedIs
  <2>q. QED
    BY <1>0, <1>3, <2>1, <2>3, <2>4 DEF readback_matches
<1>q. QED
  BY <1>1, <1>2, <1>3 DEF AppendKinds

-----------------------------------------------------------------------------
(***************************************************************************)
(* The device: what a task finds there, and what it leaves.                *)
(***************************************************************************)
OutcomeStep(x, o) ==
    /\ OutcomeFits(dev[x.cpu], x, job.reason, o)
    /\ dev' = WithDevice(dev, x.cpu, o.dev)
    /\ OperationEnds(x, o.result)
    /\ x.kind \in WriteKinds /\ o.result \in Completed => job' = ToRefresh(job, o.result, o.why)
    /\ ~(x.kind \in WriteKinds /\ o.result \in Completed) => job' = EndedFor(job, o.result, None)

OnDevice(x) ==
    /\ x.kind \in Kinds \ PrepareKinds /\ ContextIsSound(x) /\ OnConnection(x, rt)
    /\ x.cpu \in Cpus /\ x.gen \in Nat /\ rt.conn # None /\ rt.conn.cpu = x.cpu /\ rt.conn.gen = x.gen
    /\ dev[x.cpu] \in Devices

LEMMA OnDeviceFacts ==
    ASSUME TasksInvariant, job.stage \in {"device", "refresh"}, NEW x, x = job.ctx
    PROVE  OnDevice(x)
<1>1. x.kind \notin PrepareKinds
  BY SoundFacts DEF TaskParts, Checked, StageFits, WriteKinds, PrepareKinds, AppendKinds
<1>2. job.stage # None
  BY NoneFacts
<1>3. dev[x.cpu] \in Devices
  BY <1>2, TaskFacts, SoundFacts
<1>q. QED
  BY <1>1, <1>2, <1>3, TaskFacts DEF OnDevice

LEMMA ReasonIsImage ==
    ASSUME TasksInvariant, job.stage = "device", NEW x, x = job.ctx
    PROVE  NeedsImage(x) => job.reason = x.id /\ job.reason \in Contents
<1>1. OnDevice(x)
  BY OnDeviceFacts
<1>2. NeedsImage(x) => job.reason = x.id
  BY SoundFacts DEF TaskParts, Checked
<1>3. NeedsImage(x) => x.kind \in FlashKinds \cup RamKinds \cup {"IMAGE_VALID"}
  BY <1>1 DEF NeedsImage, OnDevice, PrepareKinds, FlashKinds, RamKinds
<1>4. NeedsImage(x) => x.id \in Contents
  BY <1>1, <1>3 DEF OnDevice, ContextIsSound
<1>q. QED
  BY <1>2, <1>4

LEMMA DeviceUsedStep ==
    ASSUME TasksInvariant, DeviceUsed, NEW x, x = job.ctx
    PROVE  \E o : OutcomeStep(x, o)
<1>1. job.stage = "device"
  BY DEF DeviceUsed
<1>2. OnDevice(x)
  BY <1>1, OnDeviceFacts
<1>3. NeedsImage(x) => job.reason \in Contents
  BY <1>1, ReasonIsImage
<1>4. PICK o : /\ o \in DeviceOutcomes(dev[x.cpu], x, job.reason)
               /\ dev' = WithDevice(dev, x.cpu, o.dev)
               /\ OperationEnds(x, o.result)
               /\ x.kind \in WriteKinds /\ o.result \in Completed => job' = ToRefresh(job, o.result, o.why)
               /\ ~(x.kind \in WriteKinds /\ o.result \in Completed) => job' = EndedFor(job, o.result, None)
  BY DEF DeviceUsed, WithDevice, ToRefresh, EndedFor
<1>5. OutcomeFits(dev[x.cpu], x, job.reason, o)
  BY <1>2, <1>3, <1>4, OutcomesFit DEF OnDevice
<1>q. QED
  BY <1>4, <1>5 DEF OutcomeStep

(***************************************************************************)
(* What is shown is true of the device the operation leaves.               *)
(***************************************************************************)
LEMMA DeviceUsedShows ==
    ASSUME TasksInvariant, job.stage = "device", NEW x, x = job.ctx, NEW o, OutcomeStep(x, o)
    PROVE  /\ rt' \in Stores /\ SnapshotValid(rt') /\ AllNamed(rt') /\ rt'.gen = rt.gen /\ rt'.conn = rt.conn
           /\ SameProgram(rt, rt') /\ dev' \in [Cpus -> Devices] /\ dev'[x.cpu] = o.dev
           /\ (\A b \in Cpus \ {x.cpu} : dev'[b] = dev[b]) /\ ShownIsTrue'
<1>0. OnDevice(x)
  BY OnDeviceFacts
<1>1. PICK c, d, img : c = x.cpu /\ d = dev[c] /\ img = job.reason
  OBVIOUS
<1>2. OutcomeFits(d, x, img, o) /\ DeviceFits(d, x, img, o.dev)
  BY <1>1 DEF OutcomeStep, OutcomeFits
<1>3. dev' \in [Cpus -> Devices] /\ dev'[c] = o.dev /\ \A b \in Cpus \ {c} : dev'[b] = dev[b]
  BY <1>0, <1>1, <1>2, SoundFacts, SetDevice DEF OutcomeStep, DeviceFits, OnDevice
<1>4. x.kind \in {"VERIFY", "RAM_CRC"} => img \in Contents
  BY <1>1, ReasonIsImage DEF NeedsImage
<1>5. Told(rt, rt', x, o.result, img, d.journal)
  BY <1>0, <1>1, <1>4, EndIsTold DEF OutcomeStep, OnDevice
<1>6. /\ rt' \in Stores /\ SnapshotValid(rt') /\ AllNamed(rt') /\ rt'.gen = rt.gen /\ rt'.conn = rt.conn
      /\ SameProgram(rt, rt') /\ MemoryOfConnection(rt, rt') /\ DiagOfConnection(rt, rt')
  BY <1>5 DEF Told
<1>7. Announced /\ ShownIsTrue /\ rt \in Stores
  BY SoundFacts DEF TaskParts, TasksInvariant
<1>8. \A b \in Cpus \ {c} : /\ rt'.res[b].verify \in {None, rt.res[b].verify}
                            /\ rt'.res[b].crc \in {None, rt.res[b].crc}
  BY <1>1, <1>5 DEF Told, EarnedAlone
<1>9. EvidenceFits(c, o.dev.flash, rt.conn.gen, rt'.res[c].verify, rt.res[c].verify)
  <2>1. CASE rt'.res[c].verify \in {None, rt.res[c].verify}
    BY <2>1 DEF EvidenceFits
  <2>2. CASE rt'.res[c].verify \notin {None, rt.res[c].verify}
    <3>1. x.kind = "VERIFY" /\ o.result = "OK" /\ EarnedAlone(rt, x.cpu, x.gen, img, c, rt'.res[c].verify)
      BY <1>0, <1>1, <1>5, <2>2 DEF Told, OnDevice
    <3>2. o.dev.flash = img
      BY <1>2, <3>1 DEF OutcomeFits
    <3>q. QED
      BY <1>0, <1>1, <3>1, <3>2 DEF EarnedAlone, Earned, EvidenceFits, OnDevice
  <2>q. QED
    BY <2>1, <2>2
<1>10. EvidenceFits(c, o.dev.ram, rt.conn.gen, rt'.res[c].crc, rt.res[c].crc)
  <2>1. CASE rt'.res[c].crc \in {None, rt.res[c].crc}
    BY <2>1 DEF EvidenceFits
  <2>2. CASE rt'.res[c].crc \notin {None, rt.res[c].crc}
    <3>1. x.kind = "RAM_CRC" /\ o.result = "OK" /\ EarnedAlone(rt, x.cpu, x.gen, img, c, rt'.res[c].crc)
      BY <1>0, <1>1, <1>5, <2>2 DEF Told, OnDevice
    <3>2. o.dev.ram = img
      BY <1>2, <3>1 DEF OutcomeFits
    <3>q. QED
      BY <1>0, <1>1, <3>1, <3>2 DEF EarnedAlone, Earned, EvidenceFits, OnDevice
  <2>q. QED
    BY <2>1, <2>2
<1>11. o.dev.flash = d.flash \/ rt.res[c].verify = None
  BY <1>1, <1>2, <1>7 DEF DeviceFits, Announced, FlashKinds
<1>12. o.dev.ram \in {d.ram, "service"} \/ rt.res[c].crc = None
  BY <1>1, <1>2, <1>7 DEF DeviceFits, Announced
<1>13. o.dev.journal = d.journal \/ rt.meta.freshness # "FRESH"
  BY <1>1, <1>2, <1>7 DEF DeviceFits, Announced
<1>14. rt'.meta = rt.meta \/ rt'.meta.freshness # "FRESH" \/ rt'.meta.value = o.dev.journal
  <2>1. x.kind = "METADATA" => o.dev = d
    BY <1>2 DEF DeviceFits, ReadKinds
  <2>q. QED
    BY <1>5, <2>1 DEF Told
<1>15. o.dev.link => d.link
  BY <1>2 DEF DeviceFits
<1>16. ShownIsTrue'
  <2>1. c \in Cpus /\ rt.conn # None /\ rt.conn.cpu = c /\ dev[c] = d
    BY <1>0, <1>1 DEF OnDevice
  <2>2. \A b \in Cpus \ {c} : /\ dev'[b] = dev[b] /\ rt'.res[b].verify \in {None, rt.res[b].verify}
                              /\ rt'.res[b].crc \in {None, rt.res[b].crc}
    BY <1>3, <1>8
  <2>3. /\ dev'[c].link => dev[c].link
        /\ EvidenceFits(c, dev'[c].flash, rt.conn.gen, rt'.res[c].verify, rt.res[c].verify)
        /\ dev'[c].flash = dev[c].flash \/ rt.res[c].verify = None
    BY <1>3, <1>9, <1>11, <1>15, <2>1
  <2>4. /\ EvidenceFits(c, dev'[c].ram, rt.conn.gen, rt'.res[c].crc, rt.res[c].crc)
        /\ dev'[c].ram \in {dev[c].ram, "service"} \/ rt.res[c].crc = None
    BY <1>3, <1>10, <1>12, <2>1
  <2>5. /\ rt'.meta = rt.meta \/ rt'.meta.freshness # "FRESH" \/ rt'.meta.value = dev'[c].journal
        /\ dev'[c].journal = dev[c].journal \/ rt.meta.freshness # "FRESH"
    BY <1>3, <1>13, <1>14, <2>1
  <2>q. QED
    BY <1>6, <1>7, <2>1, <2>2, <2>3, <2>4, <2>5, TruthAfter
<1>q. QED
  BY <1>1, <1>3, <1>6, <1>16

LEMMA ResultNotMismatch ==
    ASSUME NEW r \in Results
    PROVE  NotMismatch(r)
BY DEF Results, NotMismatch

(***************************************************************************)
(* An append that completed left the journal its readback expects.         *)
(***************************************************************************)
LEMMA AppendReadsBack ==
    ASSUME TasksInvariant, job.stage = "device", NEW x, x = job.ctx, NEW o, OutcomeStep(x, o),
           x.kind \in AppendKinds, o.result \in Completed, o.dev.link
    PROVE  readback_matches(x, o.why, o.dev.journal)
<1>0. OnDevice(x)
  BY OnDeviceFacts
<1>1. PICK d, j : d = dev[x.cpu] /\ j = d.journal
  OBVIOUS
<1>2. OutcomeFits(d, x, job.reason, o)
  BY <1>1 DEF OutcomeStep
<1>3. d.link
  BY <1>2 DEF OutcomeFits, DeviceFits
<1>4. j \in Journals
  BY <1>0, <1>1 DEF OnDevice, Devices
<1>5. x.kind # "IMAGE_VALID" => j = x.meta
  BY <1>1, <1>3, SoundFacts DEF TaskParts, Checked, AppendKinds
<1>6. x.kind = "IMAGE_VALID" => job.reason = x.id
  BY ReasonIsImage DEF NeedsImage
<1>7. o.why = AppendReason(x.kind, j) /\ o.dev.journal = Appended(x.kind, j, x.id)
  <2>1. o.why = AppendReason(x.kind, j) /\ o.dev.journal = Appended(x.kind, j, job.reason)
    BY <1>1, <1>2 DEF OutcomeFits
  <2>2. x.kind # "IMAGE_VALID" => Appended(x.kind, j, job.reason) = Appended(x.kind, j, x.id)
    BY DEF Appended, AppendKinds
  <2>q. QED
    BY <1>6, <2>1, <2>2
<1>q. QED
  BY <1>0, <1>4, <1>5, <1>7, ReadbackAgrees DEF OnDevice

LEMMA DeviceUsedKeeps ==
    ASSUME TasksInvariant, DeviceUsed
    PROVE  TasksInvariant'
<1>0. PICK x : x = job.ctx
  OBVIOUS
<1>1. PICK o : OutcomeStep(x, o)
  BY <1>0, DeviceUsedStep
<1>2. job.stage = "device" /\ be' = be /\ ui' = ui /\ disk' = disk /\ changes' = changes
  BY DEF DeviceUsed
<1>3. /\ rt' \in Stores /\ SnapshotValid(rt') /\ AllNamed(rt') /\ rt'.gen = rt.gen /\ rt'.conn = rt.conn
      /\ SameProgram(rt, rt') /\ dev' \in [Cpus -> Devices] /\ dev'[x.cpu] = o.dev /\ ShownIsTrue'
  BY <1>0, <1>1, <1>2, DeviceUsedShows
<1>4. OnDevice(x) /\ job.stage # None
  BY <1>0, <1>2, OnDeviceFacts, NoneFacts
<1>5. o.result \in Results /\ NotMismatch(o.result)
  BY <1>1, ResultNotMismatch DEF OutcomeStep, OutcomeFits
<1>6. x.kind \in FlashKinds \cup AppendKinds => context_current(x, rt', be')
  <2>1. x.kind \in FlashKinds \cup AppendKinds => context_current(x, rt, be)
    BY <1>0, <1>2, SoundFacts DEF TaskParts, Pending
  <2>2. SameInputs(be, be')
    BY <1>2 DEF SameInputs
  <2>q. QED
    BY <1>3, <1>4, <2>1, <2>2, CurrentKept DEF OnDevice
<1>7. IsJob(job') /\ TaskParts'
  <2>1. CASE x.kind \in WriteKinds /\ o.result \in Completed
    <3>1. job' = ToRefresh(job, o.result, o.why)
      BY <1>1, <2>1 DEF OutcomeStep
    <3>2. x.kind \in AppendKinds /\ dev'[x.cpu].link => readback_matches(x, o.why, dev'[x.cpu].journal)
      BY <1>0, <1>1, <1>2, <1>3, <2>1, AppendReadsBack
    <3>q. QED
      BY <1>0, <1>2, <1>3, <1>4, <1>5, <1>6, <2>1, <3>1, <3>2, SoundFacts, RefreshParts
  <2>2. CASE ~(x.kind \in WriteKinds /\ o.result \in Completed)
    <3>1. job' = EndedFor(job, o.result, None)
      BY <1>1, <2>2 DEF OutcomeStep
    <3>2. x.kind \in FlashKinds \cup AppendKinds => shown(x, o.result, rt', be')
      BY <1>6, ShownIfCurrent
    <3>q. QED
      BY <1>0, <1>2, <1>3, <1>4, <1>5, <3>1, <3>2, SoundFacts, EndedForParts
  <2>q. QED
    BY <2>1, <2>2
<1>q. QED
  BY <1>2, <1>3, <1>7, StepIsShown

(***************************************************************************)
(* The metadata is read again after a write, or cannot be read.            *)
(***************************************************************************)
LEMMA RefreshedParts ==
    ASSUME TasksInvariant, job.stage = "refresh", NEW x, x = job.ctx, rt'.conn = rt.conn, SameProgram(rt, rt'),
           be' = be, ui' = ui, job' = EndedFor(job, job.result, None)
    PROVE  IsJob(job') /\ TaskParts'
<1>0. OnDevice(x) /\ job.stage # None
  BY OnDeviceFacts, NoneFacts
<1>1. NotMismatch(job.result)
  BY SoundFacts DEF TaskParts, NoFalseMismatch, NotMismatch
<1>2. x.kind \in FlashKinds \cup AppendKinds => context_current(x, rt, be)
  BY SoundFacts DEF TaskParts, Pending
<1>3. SameInputs(be, be')
  BY DEF SameInputs
<1>4. x.kind \in FlashKinds \cup AppendKinds => context_current(x, rt', be')
  BY <1>0, <1>2, <1>3, CurrentKept DEF OnDevice
<1>5. x.kind \in FlashKinds \cup AppendKinds => shown(x, job.result, rt', be')
  BY <1>4, ShownIfCurrent
<1>q. QED
  BY <1>0, <1>1, <1>5, SoundFacts, EndedForParts

LEMMA MetadataRefreshedKeeps ==
    ASSUME TasksInvariant, MetadataRefreshed
    PROVE  TasksInvariant'
<1>0. PICK x, j : x = job.ctx /\ j = dev[x.cpu].journal
  OBVIOUS
<1>1. job.stage = "refresh" /\ be' = be /\ ui' = ui /\ disk' = disk /\ dev' = dev /\ changes' = changes
  BY DEF MetadataRefreshed
<1>2. OnDevice(x)
  BY <1>0, <1>1, OnDeviceFacts
<1>3. PICK e, f : e = MetadataReadSucceeded(x.cpu, x.gen, j) /\ f = MetadataReadFailed(x.cpu, x.gen)
  OBVIOUS
<1>4. CASE dev[x.cpu].link /\ rt' = Transition(e, rt) /\ job' = EndedFor(job, job.result, None)
  <2>1. j \in Journals
    BY <1>0, <1>2 DEF OnDevice, Devices
  <2>2. /\ rt' \in Stores /\ SnapshotValid(rt') /\ AllNamed(rt') /\ OnlyMeta(rt, rt')
        /\ rt'.meta = rt.meta \/ rt'.meta.value = j
    BY <1>2, <1>3, <1>4, <2>1, MetadataReadTold DEF OnDevice
  <2>3. /\ rt'.gen = rt.gen /\ rt'.conn = rt.conn /\ rt'.res = rt.res /\ SameProgram(rt, rt')
        /\ MemoryOfConnection(rt, rt') /\ DiagOfConnection(rt, rt')
    BY <2>2 DEF OnlyMeta, SameProgram, MemoryOfConnection, DiagOfConnection
  <2>4. PICK c : c = x.cpu
    OBVIOUS
  <2>5. /\ \A b \in Cpus \ {c} : /\ dev'[b] = dev[b] /\ rt'.res[b].verify \in {None, rt.res[b].verify}
                                 /\ rt'.res[b].crc \in {None, rt.res[b].crc}
    BY <1>1, <2>3
  <2>6. /\ EvidenceFits(c, dev'[c].flash, rt.conn.gen, rt'.res[c].verify, rt.res[c].verify)
        /\ EvidenceFits(c, dev'[c].ram, rt.conn.gen, rt'.res[c].crc, rt.res[c].crc)
    BY <2>3 DEF EvidenceFits
  <2>7. rt'.meta = rt.meta \/ rt'.meta.freshness # "FRESH" \/ rt'.meta.value = dev'[c].journal
    BY <1>0, <1>1, <2>2, <2>4
  <2>8. rt \in Stores /\ ShownIsTrue /\ c \in Cpus /\ rt.conn # None /\ rt.conn.cpu = c /\ dev'[c] = dev[c]
    BY <1>1, <1>2, <2>4, SoundFacts DEF OnDevice, TasksInvariant
  <2>9. ShownIsTrue'
    BY <2>2, <2>3, <2>5, <2>6, <2>7, <2>8, TruthAfter
  <2>10. IsJob(job') /\ TaskParts'
    BY <1>0, <1>1, <1>4, <2>3, RefreshedParts
  <2>11. dev' \in [Cpus -> Devices]
    BY <1>1, SoundFacts
  <2>q. QED
    BY <1>1, <2>2, <2>3, <2>9, <2>10, <2>11, StepIsShown
<1>5. CASE rt' = Transition(f, rt) /\ job' = EndedFor(job, job.result, None)
  <2>1. SoundStep(rt, rt') /\ SameProgram(rt, rt')
    BY <1>2, <1>3, <1>5, SoundFacts, MetadataFailStep DEF OnDevice
  <2>2. rt'.conn = rt.conn
    BY <2>1 DEF SoundStep, Calm
  <2>3. IsJob(job') /\ TaskParts'
    BY <1>0, <1>1, <1>5, <2>1, <2>2, RefreshedParts
  <2>q. QED
    BY <1>1, <2>1, <2>3, SoundFacts, SameDevices, StepIsKept
<1>6. dev[x.cpu].link /\ x.kind \in AppendKinds => readback_matches(x, job.reason, j)
  BY <1>0, <1>1, SoundFacts DEF TaskParts, Checked
<1>7. \/ dev[x.cpu].link /\ rt' = Transition(e, rt) /\ job' = EndedFor(job, job.result, None)
      \/ rt' = Transition(f, rt) /\ job' = EndedFor(job, job.result, None)
  BY <1>0, <1>3, <1>6 DEF MetadataRefreshed, EndedFor, Dispatch
<1>q. QED
  BY <1>4, <1>5, <1>7

-----------------------------------------------------------------------------
(***************************************************************************)
(* Every step keeps the invariant.                                         *)
(***************************************************************************)
LEMMA StutteringKeeps ==
    ASSUME TasksInvariant, UNCHANGED taskVars
    PROVE  TasksInvariant'
<1>1. /\ rt' = rt /\ be' = be /\ ui' = ui /\ job' = job /\ disk' = disk /\ dev' = dev /\ changes' = changes
  BY DEF taskVars
<1>2. IsUi(ui') /\ IsJob(job') /\ TaskParts'
  BY <1>1, SoundFacts, DialogParts
<1>q. QED
  BY <1>1, <1>2, SoundFacts, SameDevices, StepIsKept

LEMMA TasksStepKeeps ==
    ASSUME TasksInvariant, [TasksNext]_taskVars
    PROVE  TasksInvariant'
<1>1. ASSUME NEW c \in Cpus, NEW f \in ProgramFiles, SetProgramPath(c, f)
      PROVE  TasksInvariant'
  BY <1>1, SetProgramPathKeeps
<1>2. ASSUME NEW c \in Cpus, NEW f \in RamFiles, SetRamPath(c, f)
      PROVE  TasksInvariant'
  BY <1>2, SetRamPathKeeps
<1>3. ASSUME NEW c \in Cpus, ClearMemory(c)
      PROVE  TasksInvariant'
  BY <1>3, ClearMemoryKeeps
<1>4. ASSUME NEW c \in Cpus, OpenConnection(c)
      PROVE  TasksInvariant'
  BY <1>4, ConnectKeeps
<1>5. ASSUME NEW c \in Cpus, PrepareProgramImage(c) \/ PrepareRamImage(c) \/ PrepareFlashService(c)
      PROVE  TasksInvariant'
  BY <1>5, PrepareProgramImageKeeps, PrepareRamImageKeeps, PrepareFlashServiceKeeps
<1>6. ASSUME NEW c \in Cpus, PowerCycle(c) \/ ApplicationConfirms(c)
      PROVE  TasksInvariant'
  BY <1>6, DeviceAloneKeeps
<1>7. CASE SetImageToolPaths \/ RefreshFlashService
  BY <1>7, SetImageToolPathsKeeps, RefreshFlashServiceKeeps
<1>8. ASSUME NEW s \in Scopes, NEW k \in Masks, SetEraseConfiguration(s, k)
      PROVE  TasksInvariant'
  BY <1>8, SetEraseConfigurationKeeps
<1>9. CASE ApplySessionChange
  BY <1>9, ApplySessionChangeKeeps
<1>10. ASSUME NEW f \in Files, NEW v \in Holds(f), FileChanged(f, v)
       PROVE  TasksInvariant'
  BY <1>10, FileChangedKeeps
<1>11. CASE Disconnect
  <2>1. be' = be /\ disk' = disk /\ changes' = changes
    BY <1>11 DEF Disconnect
  <2>q. QED
    BY <1>11, <2>1, CloseConnectionKeeps
<1>12. ASSUME Idle, NEW k \in Kinds, Submit(k) \/ Present(k)
       PROVE  TasksInvariant'
  BY <1>12, SubmitKeeps, PresentKeeps
<1>13. CASE Confirm \/ RejectWrite
  BY <1>13, ConfirmKeeps, RejectWriteKeeps
<1>14. CASE Start \/ ImageRead \/ ServiceRead
  BY <1>14, StartKeeps, ImageReadKeeps, ServiceReadKeeps
<1>15. CASE DeviceUsed \/ MetadataRefreshed
  BY <1>15, DeviceUsedKeeps, MetadataRefreshedKeeps
<1>16. CASE TaskFinished \/ KeepConnection \/ DisconnectSuspect
  BY <1>16, TaskFinishedKeeps, AskedKeeps
<1>17. CASE UNCHANGED taskVars
  BY <1>17, StutteringKeeps
<1>q. QED
  BY <1>1, <1>2, <1>3, <1>4, <1>5, <1>6, <1>7, <1>8, <1>9, <1>10, <1>11, <1>12, <1>13, <1>14, <1>15,
     <1>16, <1>17 DEF TasksNext

-----------------------------------------------------------------------------
(***************************************************************************)
(* In every state the types, the store, what is shown and what the task    *)
(* has checked fit together, as TasksInvariant says.                       *)
(***************************************************************************)
THEOREM TasksInvariantHolds == TasksSpec => []TasksInvariant
<1>1. TasksInit => TasksInvariant
  BY TasksInvariantInit
<1>2. TasksInvariant /\ [TasksNext]_taskVars => TasksInvariant'
  BY TasksStepKeeps
<1>q. QED
  BY <1>1, <1>2, PTL DEF TasksSpec

(***************************************************************************)
(* Whatever the pages show as verified, checked or fresh is true of the    *)
(* device on the active connection, for any number of CPUs, files, images  *)
(* and connections.                                                        *)
(***************************************************************************)
THEOREM ShownIsAlwaysTrue == TasksSpec => []ShownIsTrue
<1>1. TasksInvariant => ShownIsTrue
  BY DEF TasksInvariant
<1>q. QED
  BY <1>1, TasksInvariantHolds, PTL

(***************************************************************************)
(* The state stays well formed, nothing is offered that the worker then    *)
(* refuses, and no readback contradicts an append in vain.                 *)
(***************************************************************************)
THEOREM PagesAndWorkerAgree == TasksSpec => []TasksInv
<1>1. TasksInvariant => TasksTypeOK
  <2>1. SUFFICES ASSUME TasksInvariant PROVE TasksTypeOK
    OBVIOUS
  <2>2. TaskTypes /\ StoreIsSound /\ JobIsSound
    BY <2>1 DEF TasksInvariant, TaskParts
  <2>3. rt.gen \in 0..MaxGen
    BY <2>2, RuntimeConstants DEF TaskTypes, StoreIsSound, Stores
  <2>4. be.svc.status \in {"UNVALIDATED", "READY", "STALE", "UNAVAILABLE"}
    BY <2>2 DEF TaskTypes, Backends, ServiceStates
  <2>q. QED
    BY <2>2, <2>3, <2>4 DEF TasksTypeOK, TaskTypes, StoreIsSound, JobIsSound
<1>2. TasksInvariant => EnabledIsAccepted
  BY OfferedIsAccepted DEF EnabledIsAccepted
<1>3. TasksInvariant => NoFalseMismatch
  BY SoundFacts DEF TaskParts
<1>4. TasksInvariant => TasksInv
  BY <1>1, <1>2, <1>3 DEF TasksInv
<1>q. QED
  BY <1>4, TasksInvariantHolds, PTL

(***************************************************************************)
(* Only a task that uses the device changes its Flash or the image its     *)
(* journal trusts.                                                         *)
(***************************************************************************)
FlashKept(d, e) == \A c \in Cpus : e[c].flash = d[c].flash /\ e[c].journal.image = d[c].journal.image

LEMMA DeviceKept ==
    ASSUME TasksInvariant, [TasksNext]_taskVars, ~DeviceUsed
    PROVE  FlashKept(dev, dev')
<1>0. dev \in [Cpus -> Devices]
  BY SoundFacts
<1>1. ASSUME dev' = dev
      PROVE  FlashKept(dev, dev')
  BY <1>1 DEF FlashKept
<1>2. ASSUME NEW c \in Cpus, OpenConnection(c)
      PROVE  FlashKept(dev, dev')
  BY <1>0, <1>2, JoinedType DEF OpenConnection, Joined, FlashKept
<1>3. ASSUME CloseConnection \/ Disconnect
      PROVE  FlashKept(dev, dev')
  <2>1. dev' = Left(dev, Cpu)
    BY <1>3 DEF CloseConnection, Disconnect, Left
  <2>q. QED
    BY <1>0, <2>1, LeftType DEF FlashKept, DevicesKeep
<1>4. ASSUME NEW c \in Cpus, PowerCycle(c)
      PROVE  FlashKept(dev, dev')
  BY <1>0, <1>4, PoweredDownType DEF PowerCycle, PoweredDown, FlashKept, DevicesKeep
<1>5. ASSUME NEW c \in Cpus, ApplicationConfirms(c)
      PROVE  FlashKept(dev, dev')
  BY <1>0, <1>5, ConfirmedInType DEF ApplicationConfirms, ConfirmedIn, FlashKept, DevicesKeep
<1>6. ASSUME NEW c \in Cpus
      PROVE  /\ \A f : SetProgramPath(c, f) \/ SetRamPath(c, f) => dev' = dev
             /\ ClearMemory(c) \/ PrepareProgramImage(c) \/ PrepareRamImage(c) \/ PrepareFlashService(c)
                => dev' = dev
  BY DEF SetProgramPath, SetRamPath, ClearMemory, PrepareProgramImage, PrepareRamImage, PrepareFlashService
<1>7. /\ SetImageToolPaths \/ RefreshFlashService \/ ApplySessionChange \/ Confirm \/ RejectWrite => dev' = dev
      /\ \A v, k : SetEraseConfiguration(v, k) \/ FileChanged(v, k) \/ Submit(k) \/ Present(k) => dev' = dev
  BY DEF SetImageToolPaths, RefreshFlashService, ApplySessionChange, Confirm, RejectWrite, SetEraseConfiguration, FileChanged,
         Submit, Present
<1>8. Start \/ ImageRead \/ ServiceRead \/ MetadataRefreshed \/ KeepConnection \/ UNCHANGED taskVars
      => dev' = dev
  BY DEF Start, ImageRead, ServiceRead, MetadataRefreshed, KeepConnection, taskVars
<1>9. TaskFinished \/ DisconnectSuspect => dev' = dev \/ CloseConnection
  BY DEF TaskFinished, DisconnectSuspect
<1>q. QED
  BY <1>1, <1>2, <1>3, <1>4, <1>5, <1>6, <1>7, <1>8, <1>9 DEF TasksNext

ExecutesConfirmed(c) ==
    /\ dev'[c].flash # dev[c].flash =>
          /\ rt.conn = [gen |-> job.ctx.gen, cpu |-> c] /\ job.ctx.cpu = c
          /\ dev'[c].flash \in {"blank", "torn", Program(c).summary}
          /\ job.ctx.rev = be.prog[c]
    /\ dev'[c].journal.image \notin {None, dev[c].journal.image} =>
          dev[c].flash = dev'[c].journal.image

LEMMA DeviceUsedExecutes ==
    ASSUME TasksInvariant, DeviceUsed, NEW c \in Cpus
    PROVE  ExecutesConfirmed(c)
<1>0. PICK x : x = job.ctx
  OBVIOUS
<1>1. PICK o : OutcomeStep(x, o)
  BY <1>0, DeviceUsedStep
<1>2. job.stage = "device"
  BY DEF DeviceUsed
<1>3. OnDevice(x)
  BY <1>0, <1>2, OnDeviceFacts
<1>4. /\ dev'[x.cpu] = o.dev
      /\ \A b \in Cpus \ {x.cpu} : dev'[b] = dev[b]
  BY <1>0, <1>1, <1>2, DeviceUsedShows
<1>5. DeviceFits(dev[x.cpu], x, job.reason, o.dev)
  BY <1>1 DEF OutcomeStep, OutcomeFits
<1>6. CASE c # x.cpu
  BY <1>4, <1>6 DEF ExecutesConfirmed
<1>7. CASE c = x.cpu
  <2>1. ASSUME dev'[c].flash # dev[c].flash
        PROVE  /\ rt.conn = [gen |-> job.ctx.gen, cpu |-> c] /\ job.ctx.cpu = c
               /\ dev'[c].flash \in {"blank", "torn", Program(c).summary}
               /\ job.ctx.rev = be.prog[c]
    <3>1. x.kind \in {"ERASE", "PROGRAM"}
      BY <1>4, <1>5, <1>7, <2>1 DEF DeviceFits
    <3>2. context_current(x, rt, be)
      BY <1>0, <1>2, <3>1, SoundFacts DEF TaskParts, Pending, FlashKinds
    <3>3. be.prog[c] = x.rev /\ Program(c).summary = x.id
      BY <1>7, <3>1, <3>2, InputsCurrent DEF FlashKinds, Program
    <3>4. o.dev.flash \in {"blank", "torn", x.id}
      <4>1. CASE x.kind = "PROGRAM"
        BY <1>0, <1>2, <1>4, <1>5, <1>7, <2>1, <4>1, ReasonIsImage DEF DeviceFits, NeedsImage
      <4>2. CASE x.kind # "PROGRAM"
        BY <1>4, <1>5, <1>7, <2>1, <4>2 DEF DeviceFits
      <4>q. QED
        BY <4>1, <4>2
    <3>5. rt.conn = [gen |-> x.gen, cpu |-> c]
      BY <1>3, <1>7 DEF OnDevice, OnConnection
    <3>q. QED
      BY <1>0, <1>4, <1>7, <3>3, <3>4, <3>5
  <2>2. ASSUME dev'[c].journal.image \notin {None, dev[c].journal.image}
        PROVE  dev[c].flash = dev'[c].journal.image
    <3>1. x.kind = "IMAGE_VALID" /\ o.dev.journal.image = job.reason
      BY <1>4, <1>5, <1>7, <2>2 DEF DeviceFits
    <3>2. job.reason = x.id
      BY <1>0, <1>2, <3>1, ReasonIsImage DEF NeedsImage
    <3>3. x.evidence # None /\ x.evidence = rt.res[c].verify /\ x.evidence.id = x.id
      BY <1>0, <1>2, <1>7, <3>1, SoundFacts DEF TaskParts, Checked
    <3>4. dev[c].flash = rt.res[c].verify.id
      BY <3>3 DEF TasksInvariant, ShownIsTrue, EvidenceIsTrue
    <3>q. QED
      BY <1>4, <1>7, <3>1, <3>2, <3>3, <3>4
  <2>q. QED
    BY <2>1, <2>2 DEF ExecutesConfirmed
<1>q. QED
  BY <1>6, <1>7

(***************************************************************************)
(* A job writes nothing but what was confirmed, to the device and the      *)
(* connection it was confirmed for, and the journal trusts only an image   *)
(* that is in the Flash.                                                   *)
(***************************************************************************)
THEOREM OnlyConfirmedIsExecuted == TasksSpec => ConfirmedIsExecuted
<1>1. ASSUME TasksInvariant, [TasksNext]_taskVars, NEW c \in Cpus
      PROVE  ExecutesConfirmed(c)
  <2>1. CASE DeviceUsed
    BY <1>1, <2>1, DeviceUsedExecutes
  <2>2. CASE ~DeviceUsed
    BY <1>1, <2>2, DeviceKept DEF FlashKept, ExecutesConfirmed
  <2>q. QED
    BY <2>1, <2>2
<1>2. TasksInvariant /\ [TasksNext]_taskVars =>
      [\A c \in Cpus :
        /\ dev'[c].flash # dev[c].flash =>
              /\ rt.conn = [gen |-> job.ctx.gen, cpu |-> c] /\ job.ctx.cpu = c
              /\ dev'[c].flash \in {"blank", "torn", Program(c).summary}
              /\ job.ctx.rev = be.prog[c]
        /\ dev'[c].journal.image \notin {None, dev[c].journal.image} =>
              dev[c].flash = dev'[c].journal.image]_taskVars
  BY <1>1 DEF ExecutesConfirmed
<1>q. QED
  BY <1>2, TasksInvariantHolds, PTL DEF TasksSpec, ConfirmedIsExecuted

-----------------------------------------------------------------------------
(***************************************************************************)
(* A task that has ended leaves only when the controller has finished with *)
(* it: on its own, or with its connection.                                 *)
(***************************************************************************)
LEMMA TaskLeaves ==
    ASSUME TasksInvariant, [TasksNext]_taskVars, job.stage \in {"done", "ask"}, job'.stage = None
    PROVE  (rt' = rt /\ be' = be) \/ (CloseConnection /\ be' = be)
<1>0. job.stage # None /\ job.stage \notin {"queued", "image", "service", "device", "refresh"}
  BY NoneFacts
<1>1. ASSUME NEW c \in Cpus
      PROVE  /\ \A f : ~SetProgramPath(c, f)
             /\ ~OpenConnection(c) /\ ~PrepareProgramImage(c) /\ ~PrepareRamImage(c) /\ ~PrepareFlashService(c)
  BY <1>0 DEF SetProgramPath, OpenConnection, PrepareProgramImage, PrepareRamImage, PrepareFlashService, NoTask
<1>2. ASSUME job' = job
      PROVE  FALSE
  BY <1>0, <1>2
<1>3. ASSUME NEW c \in Cpus
      PROVE  /\ \A f : ~SetRamPath(c, f)
             /\ ~ClearMemory(c) /\ ~PowerCycle(c) /\ ~ApplicationConfirms(c)
  BY <1>2 DEF SetRamPath, ClearMemory, PowerCycle, ApplicationConfirms
<1>4. ~SetImageToolPaths /\ ~RefreshFlashService /\ ~ApplySessionChange /\ ~Disconnect /\ ~Idle
  BY <1>0 DEF SetImageToolPaths, RefreshFlashService, ApplySessionChange, Disconnect, Idle, NoTask
<1>5. ~RejectWrite /\ \A v, k : ~SetEraseConfiguration(v, k)
  BY <1>2 DEF RejectWrite, SetEraseConfiguration
<1>6. ~Confirm
  <2>1. SUFFICES ASSUME Confirm PROVE FALSE
    OBVIOUS
  <2>2. job' = Queued(ui.pending)
    BY <1>2, <2>1 DEF Confirm
  <2>3. job'.stage = "queued"
    BY <2>2 DEF Queued, NoJob
  <2>q. QED
    BY <2>3, NoneFacts
<1>7. \A f, v : ~FileChanged(f, v)
  <2>1. SUFFICES ASSUME NEW f, NEW v, FileChanged(f, v) PROVE FALSE
    OBVIOUS
  <2>2. job' = job
    BY <1>0, <2>1 DEF FileChanged
  <2>q. QED
    BY <1>2, <2>2
<1>8. ~Start /\ ~ImageRead /\ ~ServiceRead /\ ~DeviceUsed /\ ~MetadataRefreshed
  BY <1>0 DEF Start, ImageRead, ServiceRead, DeviceUsed, MetadataRefreshed
<1>9. ~UNCHANGED taskVars
  BY <1>2 DEF taskVars
<1>10. TaskFinished \/ KeepConnection \/ DisconnectSuspect
  BY <1>1, <1>3, <1>4, <1>5, <1>6, <1>7, <1>8, <1>9 DEF TasksNext
<1>11. CASE TaskFinished
  <2>1. ~AsksDisconnect(job.result)
    <3>1. SUFFICES ASSUME AsksDisconnect(job.result) PROVE FALSE
      OBVIOUS
    <3>2. job' = ToAsk(job)
      BY <1>11, <3>1 DEF TaskFinished, ToAsk, AsksDisconnect, ReleasesConnection, Completed
    <3>3. PICK j, k : j = job /\ k = ToAsk(j)
      OBVIOUS
    <3>4. j = [stage |-> j.stage, ctx |-> j.ctx, touched |-> j.touched, result |-> j.result,
               reason |-> j.reason]
      BY <3>3, SoundFacts DEF IsJob
    <3>5. k.stage = "ask"
      BY <3>3, <3>4 DEF ToAsk
    <3>q. QED
      BY <3>2, <3>3, <3>5, NoneFacts
  <2>2. be' = be /\ (CloseConnection \/ rt' = rt)
    BY <1>11, <2>1 DEF TaskFinished
  <2>q. QED
    BY <2>2
<1>12. CASE KeepConnection
  BY <1>12 DEF KeepConnection
<1>13. CASE DisconnectSuspect
  BY <1>13 DEF DisconnectSuspect
<1>q. QED
  BY <1>10, <1>11, <1>12, <1>13

(***************************************************************************)
(* A page recognises a result before the connection closes and after.      *)
(***************************************************************************)
LEMMA ShownAfterClose ==
    ASSUME NEW x, x.cpu \in Cpus, x.kind \in FlashKinds \cup AppendKinds, NEW r, NEW s, NEW t, NEW b,
           shown(x, r, s, b), SameProgram(s, t), t.conn = None
    PROVE  shown(x, r, t, b)
<1>1. t.res[x.cpu].program = s.res[x.cpu].program
  BY DEF SameProgram
<1>2. program_inputs_current(x, t, b) = program_inputs_current(x, s, b)
  BY <1>1 DEF program_inputs_current
<1>3. same_connection(x, t)
  BY DEF same_connection
<1>4. non_service_context_current(x, s, b) => non_service_context_current(x, t, b)
  BY <1>2, <1>3 DEF non_service_context_current
<1>5. context_current(x, s, b) => context_current(x, t, b)
  BY <1>4 DEF context_current
<1>6. current_service_failure(x, r, s, b) => current_service_failure(x, r, t, b)
  BY <1>4 DEF current_service_failure
<1>7. current_program_failure(x, r, s, b) => current_program_failure(x, r, t, b)
  BY <1>1, <1>3 DEF current_program_failure
<1>8. CASE x.kind \in FlashKinds
  <2>1. flash_task_finished(x, r, t, b)
    BY <1>5, <1>6, <1>7, <1>8 DEF shown, flash_task_finished, FlashKinds, AppendKinds, RamKinds
  <2>q. QED
    BY <1>8, <2>1 DEF shown, FlashKinds, AppendKinds, RamKinds
<1>9. CASE x.kind \in AppendKinds
  <2>1. x.kind \notin FlashKinds
    BY <1>9 DEF AppendKinds, FlashKinds
  <2>2. metadata_task_finished(x, r, t, b)
    BY <1>5, <1>6, <1>7, <1>9, <2>1 DEF shown, metadata_task_finished, FlashKinds, AppendKinds, RamKinds
  <2>q. QED
    BY <1>9, <2>1, <2>2 DEF shown, FlashKinds, AppendKinds, RamKinds
<1>q. QED
  BY <1>8, <1>9

OutcomeShown ==
    \/ shown(job.ctx, job.result, rt', be')
    \/ job.ctx.kind \in RamKinds /\ be'.ram[job.ctx.cpu] # job.ctx.rev

LEMMA OutcomeReachesPage ==
    ASSUME TasksInvariant, [TasksNext]_taskVars, job.stage \in {"done", "ask"}, job'.stage = None
    PROVE  OutcomeShown
<1>0. PICK x, r : x = job.ctx /\ r = job.result
  OBVIOUS
<1>1. job.stage # None
  BY NoneFacts
<1>2. x.cpu \in Cpus /\ x.kind \in Kinds /\ (x.kind \notin PrepareKinds => OnConnection(x, rt))
  BY <1>0, <1>1, TaskFacts
<1>3. be' = be /\ SameProgram(rt, rt') /\ (rt'.conn = None \/ rt' = rt)
  <2>1. CASE rt' = rt /\ be' = be
    BY <2>1 DEF SameProgram
  <2>2. CASE CloseConnection /\ be' = be
    <3>1. PICK e : e = ConnectionClosed(rt.gen)
      OBVIOUS
    <3>2. rt' = Transition(e, rt) /\ dev' = Left(dev, Cpu)
      BY <2>2, <3>1 DEF CloseConnection, Dispatch, Left
    <3>q. QED
      BY <2>2, <3>1, <3>2, CloseStep
  <2>q. QED
    BY <2>1, <2>2, TaskLeaves
<1>4. CASE x.kind \in FlashKinds \cup AppendKinds
  <2>1. shown(x, r, rt, be)
    BY <1>0, <1>4, SoundFacts DEF TaskParts, Pending
  <2>2. shown(x, r, rt', be)
    BY <1>2, <1>3, <1>4, <2>1, ShownAfterClose
  <2>q. QED
    BY <1>0, <1>3, <2>2 DEF OutcomeShown
<1>5. CASE x.kind \in RamKinds
  <2>1. x.kind \notin FlashKinds \cup AppendKinds \cup PrepareKinds
    BY <1>5 DEF RamKinds, FlashKinds, AppendKinds, PrepareKinds
  <2>2. same_connection(x, rt')
    BY <1>2, <1>3, <2>1 DEF same_connection, OnConnection
  <2>3. be'.ram[x.cpu] = x.rev => shown(x, r, rt', be')
    BY <1>5, <2>1, <2>2 DEF shown, ram_task_finished
  <2>q. QED
    BY <1>0, <1>5, <2>3 DEF OutcomeShown
<1>6. CASE x.kind \notin FlashKinds \cup AppendKinds \cup RamKinds
  BY <1>0, <1>6 DEF OutcomeShown, shown
<1>q. QED
  BY <1>4, <1>5, <1>6

(***************************************************************************)
(* The outcome of every Flash, append and RAM operation reaches the page   *)
(* it was asked from, except that of a RAM operation whose image was       *)
(* replaced meanwhile.                                                     *)
(***************************************************************************)
THEOREM OutcomesAreShown == TasksSpec => ResultIsShown
<1>1. TasksInvariant /\ [TasksNext]_taskVars =>
      [job.stage \in {"done", "ask"} /\ job'.stage = None =>
        \/ shown(job.ctx, job.result, rt', be')
        \/ job.ctx.kind \in RamKinds /\ be'.ram[job.ctx.cpu] # job.ctx.rev]_taskVars
  BY OutcomeReachesPage DEF OutcomeShown
<1>q. QED
  BY <1>1, TasksInvariantHolds, PTL DEF TasksSpec, ResultIsShown

-----------------------------------------------------------------------------
(* BootDevice                                                              *)

USE LayoutAssumption, LoadBoundsAssumption, HeaderAssumption,
    ContentsAssumption, ImageAssumption, RunRamAssumption, BuildAssumption

\* An active service is intact and published; so is any published one once
\* start-up has looked at it, and nothing is attached before that.
ServiceInv ==
  /\ mode = "RESET" => ~service_active
  /\ WellLinked => /\ service_active => ServiceIntact /\ IsPublished(ram)
                   /\ mode # "RESET" /\ IsPublished(ram) => ServiceIntact

Trusted(e) == image # NoImage /\ e = EntryOf[image] /\ attempts > 0

\* The checks behind a start hold until the application runs.
StartInv ==
  /\ confirmed => attempts > 0
  /\ mode = "COMMAND" => action = "NONE"
  /\ mode \in {"CONNECT", "LOCKED"} /\ bootable # NoEntry => Trusted(bootable)
  /\ mode = "JUMP" /\ action = "RUN_FLASH_APP" => Trusted(pending_entry_point)
  /\ mode = "FLASH_APP" => Trusted(running)

\* The service executes only in the command loop, with the timer stopped.
GuardInv == service_busy => mode = "COMMAND" /\ ~timer

CheckedRam(e) ==
  /\ ram_load.image_ready /\ ram_load.crc_checked
  /\ ram_load.words = ram_load.expected_words
  /\ InLoadedRange(e)

\* A finished load has all its words, and a RAM start rests on one.
RamInv ==
  /\ ram_load.image_ready => /\ ~ram_load.active
                             /\ ram_load.words = ram_load.expected_words
  /\ mode = "COMMAND" => action = "NONE"
  /\ mode = "JUMP" /\ action # "RUN_FLASH_APP" => CheckedRam(pending_entry_point)
  /\ mode = "RAM_APP" => CheckedRam(running)

IInv == TypeOK /\ ServiceInv /\ StartInv /\ GuardInv /\ RamInv

-----------------------------------------------------------------------------
(***************************************************************************)
(* The verdict of a validation                                             *)
(***************************************************************************)
\* The verdict depends on the service cells other than the publish words.
LEMMA SameVerdict ==
  ASSUME WellLinked, NEW r \in [RamCells -> Data], NEW q \in [RamCells -> Data],
         \A a \in ServiceCells : a # PublishCell => r[a] = q[a]
  PROVE  ValidateStatuses(r) = ValidateStatuses(q)
<1>1. r[HeaderCell] = q[HeaderCell]
  BY DEF HeaderCell, PublishCell, ServiceCells
<1>2. ASSUME NEW h \in Headers PROVE CodeIntact(r, h) = CodeIntact(q, h)
  <2>1. ASSUME NEW a \in CodeCells(h) PROVE r[a] = q[a]
    <3>1. a \in ServiceCells /\ a # PublishCell
      BY DEF WellLinked, CodeCells, ServiceCells, PublishCell
    <3> QED BY <3>1
  <2> QED BY <2>1 DEF CodeIntact
<1> QED BY <1>1, <1>2 DEF ValidateStatuses

LEMMA PublishWords ==
  ASSUME NEW r \in [RamCells -> Data]
  PROVE  /\ PublishCell \in RamCells
         /\ InvalidatePublishState(r) \in [RamCells -> Data]
         /\ ~IsPublished(InvalidatePublishState(r))
         /\ Publish(r) \in [RamCells -> Data]
         /\ IsPublished(Publish(r))
         /\ \A a \in ServiceCells : a # PublishCell =>
              InvalidatePublishState(r)[a] = r[a] /\ Publish(r)[a] = r[a]
<1>1. PublishCell \in RamCells
  BY DEF PublishCell, RamCells
<1>2. Junk \in Data /\ Published \in Data
  BY DEF Data
<1>3. \A a \in ServiceCells : a \in RamCells
  BY DEF ServiceCells, RamCells
<1> QED BY <1>1, <1>2, <1>3 DEF InvalidatePublishState, Publish, IsPublished

\* After a validation the service is published exactly when it is intact, and
\* one that was intact is still.
LEMMA ValidationPublishes ==
  ASSUME TypeOK, NEW status, ValidateFlashService(status)
  PROVE  /\ ram' \in [RamCells -> Data]
         /\ IsPublished(ram)' <=> status = "OK"
         /\ WellLinked => ValidateStatuses(ram') = ValidateStatuses(ram)
         /\ WellLinked => status \in ValidateStatuses(ram)
<1>1. ram \in [RamCells -> Data]
  BY DEF TypeOK
<1>2. ram' \in [RamCells -> Data]
  BY <1>1, PublishWords DEF ValidateFlashService
<1>3. IsPublished(ram)' <=> status = "OK"
  BY <1>1, PublishWords DEF ValidateFlashService, IsPublished
<1>4. \A a \in ServiceCells : a # PublishCell => ram'[a] = ram[a]
  BY <1>1, PublishWords DEF ValidateFlashService
<1>5. WellLinked => ValidateStatuses(ram') = ValidateStatuses(ram)
  BY <1>1, <1>2, <1>4, SameVerdict
<1>6. WellLinked => ValidateStatuses(InvalidatePublishState(ram)) = ValidateStatuses(ram)
  BY <1>1, PublishWords, SameVerdict
<1> QED BY <1>2, <1>3, <1>5, <1>6 DEF ValidateFlashService

\* No verdict but OK is possible on a service whose verdicts include OK.
LEMMA VerdictIsSingle ==
  ASSUME NEW r \in [RamCells -> Data], "OK" \in ValidateStatuses(r)
  PROVE  ValidateStatuses(r) = {"OK"}
BY DEF ValidateStatuses

\* What a packet leaves in RAM, and what it does not touch.
LEMMA WrittenRam ==
  ASSUME TypeOK, NEW packet \in LoadPackets, NEW n \in Nat
  PROVE  /\ Written(packet, n) \in [RamCells -> Data]
         /\ n <= packet.count /\ ~RangeOverlapsFlashService(packet) =>
              \A a \in ServiceCells : Written(packet, n)[a] = ram[a]
<1>1. packet.data \in Data /\ packet.address \in Nat /\ packet.count \in Nat
  BY DEF LoadPackets, Addresses
<1>2. \A a \in RamCells : Stored(a, packet.data) \in Data
  BY <1>1 DEF Stored, Data
<1>3. \A a \in ServiceCells : a \in RamCells
  BY DEF ServiceCells, RamCells
<1>4. Written(packet, n) \in [RamCells -> Data]
  BY <1>2 DEF Written, TypeOK
<1>5. ASSUME n <= packet.count, ~RangeOverlapsFlashService(packet),
             NEW a \in ServiceCells
      PROVE  Written(packet, n)[a] = ram[a]
  <2>1. a \notin packet.address .. packet.address + n - 1
    BY <1>1, <1>5 DEF RangeOverlapsFlashService, PacketCells, ServiceCells
  <2> QED BY <2>1, <1>3, <1>5 DEF Written
<1> QED BY <1>4, <1>5

-----------------------------------------------------------------------------
(***************************************************************************)
(* Types                                                                   *)
(***************************************************************************)
CoreType ==
  /\ ram \in [RamCells -> Data]
  /\ ram_load \in LoadType
  /\ service_active \in BOOLEAN
  /\ service_state \in {"DETACHED", "ATTACHED", "ERROR"}
  /\ service_busy \in BOOLEAN
  /\ action \in {"NONE", "RUN_FLASH_APP", "RUN_RAM_APP"}

JournalType ==
  /\ image \in Images \cup {NoImage}
  /\ attempts \in 0 .. AttemptLimit
  /\ confirmed \in BOOLEAN

LEMMA JournalStepType ==
  ASSUME JournalType, Journal!Next \/ UNCHANGED journal
  PROVE  JournalType'
<1>1. CASE Journal!Revoke
  <2>1. attempts' \in 0 .. AttemptLimit
    BY <1>1 DEF Journal!Revoke
  <2>2. image' \in Images \cup {NoImage} /\ confirmed' \in BOOLEAN
    BY <1>1, Zenon DEF Journal!Revoke
  <2> QED BY <2>1, <2>2 DEF JournalType
<1>2. CASE Journal!Publish
  <2>1. attempts' \in 0 .. AttemptLimit
    BY <1>2 DEF Journal!Publish
  <2>2. image' \in Images \cup {NoImage} /\ confirmed' \in BOOLEAN
    BY <1>2, Zenon DEF Journal!Publish
  <2> QED BY <2>1, <2>2 DEF JournalType
<1>3. CASE Journal!Attempt
  BY <1>3 DEF JournalType, Journal!Attempt
<1>4. CASE Journal!Confirm
  BY <1>4 DEF JournalType, Journal!Confirm
<1>5. CASE UNCHANGED journal
  BY <1>5 DEF JournalType, journal
<1> QED BY <1>1, <1>2, <1>3, <1>4, <1>5 DEF Journal!Next

LEMMA NoLoadType == NoLoad \in LoadType
BY DEF NoLoad, LoadType, Addresses

LEMMA PacketType ==
  ASSUME NEW packet \in LoadPackets
  PROVE  /\ packet.wellFormed = TRUE
         /\ packet.data \in Data
         /\ packet.address \in Nat /\ packet.count \in Nat /\ packet.count > 0
<1>1. packet.wellFormed = TRUE /\ packet.data \in Data
  BY DEF LoadPackets
<1>2. packet.address \in 0 .. RamEnd /\ packet.count \in 1 .. MaxPacketWords
  BY DEF LoadPackets, Addresses
<1> QED BY <1>1, <1>2

LEMMA LoadDataType ==
  ASSUME TypeOK, NEW packet \in LoadPackets, LoadDataStatus(packet) = "OK"
  PROVE  [ram_load EXCEPT !.packets = @ + 1, !.words = @ + packet.count,
                          !.loaded = @ \cup PacketCells(packet)] \in LoadType
<1>1. /\ packet.wellFormed = TRUE
      /\ packet.address \in Nat /\ packet.count \in Nat /\ packet.count > 0
  BY PacketType
<1>2. /\ ~(ram_load.packets >= ram_load.expected_packets)
      /\ ~(packet.count > ram_load.expected_words - ram_load.words)
      /\ packet.address + packet.count <= RamEnd
  BY <1>1 DEF LoadDataStatus
<1>3. PacketCells(packet) \subseteq Addresses
  BY <1>1, <1>2 DEF PacketCells, Addresses
<1>4. ram_load \in LoadType
  BY DEF TypeOK
<1>5. ram_load.packets + 1 \in 0 .. MaxLoadPackets
  BY <1>2, <1>4 DEF LoadType
<1>6. ram_load.words + packet.count \in 0 .. MaxLoadWords
  BY <1>1, <1>2, <1>4 DEF LoadType
<1> QED BY <1>3, <1>4, <1>5, <1>6 DEF LoadType

LEMMA CommandType ==
  ASSUME TypeOK, ProcessOne
  PROVE  CoreType' /\ UNCHANGED <<journal, service_busy>>
<1> USE DEF CoreType, TypeOK
<1>1. CASE BadFrame \/ HandleQuery \/ HandleMemoryRead \/ HandleOther \/ ForwardRefused
  BY <1>1 DEF BadFrame, HandleQuery, HandleMemoryRead, HandleOther,
              ForwardRefused, Answer, coreVars, journal
<1>2. CASE HandleRamLoadBegin
  <2>1. CASE RamLoadBeginRefused
    BY <2>1 DEF RamLoadBeginRefused, Answer, coreVars, journal
  <2>2. ASSUME NEW packets \in 1 .. MaxLoadPackets, NEW words \in 1 .. MaxLoadWords,
               NEW entry \in LoadEntries, RamLoadBeginDone(packets, words, entry)
        PROVE  CoreType' /\ UNCHANGED <<journal, service_busy>>
    <3>1. entry \in Addresses /\ packets \in 0 .. MaxLoadPackets /\ words \in 0 .. MaxLoadWords
      BY DEF Addresses
    <3>2. ram_load' \in LoadType
      BY <2>2, <3>1, NoLoadType DEF RamLoadBeginDone, LoadType
    <3> QED BY <2>2, <3>2 DEF RamLoadBeginDone, service
  <2> QED BY <1>2, <2>1, <2>2 DEF HandleRamLoadBegin
<1>3. CASE HandleRamLoadData
  <2>1. CASE RamLoadDataMissingBegin
    BY <2>1 DEF RamLoadDataMissingBegin, Answer, coreVars, journal
  <2>2. ASSUME NEW packet, RamLoadDataRefused(packet)
        PROVE  CoreType' /\ UNCHANGED <<journal, service_busy>>
    BY <2>2, NoLoadType DEF RamLoadDataRefused, service
  <2>3. ASSUME NEW packet \in LoadPackets, RamLoadDataOutOfRegion(packet)
        PROVE  CoreType' /\ UNCHANGED <<journal, service_busy>>
    BY <2>3, NoLoadType, PublishWords
       DEF RamLoadDataOutOfRegion, InvalidateIfOverlapping, service
  <2>4. ASSUME NEW packet \in LoadPackets, RamLoadDataDone(packet)
        PROVE  CoreType' /\ UNCHANGED <<journal, service_busy>>
    <3>1. ram_load' \in LoadType
      BY <2>4, LoadDataType DEF RamLoadDataDone
    <3>2. Written(packet, packet.count) \in [RamCells -> Data]
      BY WrittenRam, PacketType
    <3>3. ram' \in [RamCells -> Data]
      BY <2>4, <3>2, PublishWords DEF RamLoadDataDone
    <3> QED BY <2>4, <3>1, <3>3 DEF RamLoadDataDone, InvalidateIfOverlapping, service
  <2> QED BY <1>3, <2>1, <2>2, <2>3, <2>4 DEF HandleRamLoadData
<1>4. CASE HandleRamLoadEnd
  <2>1. CASE RamLoadEndMissingBegin
    BY <2>1 DEF RamLoadEndMissingBegin, Answer, coreVars, journal
  <2>2. CASE RamLoadEndFails
    BY <2>2, NoLoadType DEF RamLoadEndFails, service
  <2>3. CASE RamLoadEndDone
    BY <2>3 DEF RamLoadEndDone, LoadType, service
  <2> QED BY <1>4, <2>1, <2>2, <2>3 DEF HandleRamLoadEnd
<1>5. CASE HandleRamCheckCrc
  <2>1. CASE RamCheckCrcRefused
    BY <2>1 DEF RamCheckCrcRefused, Answer, coreVars, journal
  <2>2. ASSUME NEW matches \in BOOLEAN, RamCheckCrcAnswered(matches)
        PROVE  CoreType' /\ UNCHANGED <<journal, service_busy>>
    BY <2>2 DEF RamCheckCrcAnswered, LoadType, service
  <2> QED BY <1>5, <2>1, <2>2 DEF HandleRamCheckCrc
<1>6. CASE HandleServiceAttach
  <2>1. ASSUME NEW status, ServiceAttachRefused(status)
        PROVE  CoreType' /\ UNCHANGED <<journal, service_busy>>
    BY <2>1 DEF ServiceAttachRefused, FailServiceAttach
  <2>2. ASSUME NEW verdict, ServiceAttachFails(verdict)
        PROVE  CoreType' /\ UNCHANGED <<journal, service_busy>>
    BY <2>2, ValidationPublishes DEF ServiceAttachFails, FailServiceAttach
  <2>3. CASE ServiceAttachDone
    BY <2>3, ValidationPublishes DEF ServiceAttachDone, Attached
  <2> QED BY <1>6, <2>1, <2>2, <2>3 DEF HandleServiceAttach
<1>7. CASE HandleRun
  BY <1>7 DEF HandleRun, RunDone, Answer, coreVars, journal, service
<1>8. CASE HandleRunRam
  BY <1>8 DEF HandleRunRam, RunRamDone, Answer, coreVars, journal, service
<1> QED BY <1>1, <1>2, <1>3, <1>4, <1>5, <1>6, <1>7, <1>8 DEF ProcessOne

LEMMA RestartType ==
  ASSUME TypeOK, Restart, ram' \in [RamCells -> Data], JournalType'
  PROVE  TypeOK'
BY NoLoadType DEF TypeOK, Restart, JournalType

LEMMA TypeStep ==
  ASSUME TypeOK, [Next]_vars
  PROVE  TypeOK'
<1>1. CASE UNCHANGED vars
  BY <1>1 DEF TypeOK, vars, coreVars, device
<1>2. CASE StartUp
  BY <1>2, ValidationPublishes DEF StartUp, TypeOK, service, journal
<1>3. CASE WindowExpires
  BY <1>3 DEF WindowExpires, TypeOK, coreVars
<1>4. CASE FlashCommandReturns
  <2>1. JournalType'
    BY <1>4, JournalStepType DEF FlashCommandReturns, ServiceReturns, TypeOK, JournalType
  <2> QED BY <1>4, <2>1
          DEF FlashCommandReturns, ServiceReturns, TypeOK, JournalType, service
<1>5. CASE Jump
  BY <1>5 DEF Jump, TypeOK, coreVars
<1>6. CASE CommTimeout
  <2>1. ram' \in [RamCells -> Data]
    BY <1>6, WrittenRam DEF CommTimeout, TypeOK
  <2>2. JournalType'
    BY <1>6 DEF CommTimeout, TypeOK, JournalType, journal
  <2> QED BY <1>6, <2>1, <2>2, RestartType DEF CommTimeout
<1>7. CASE Connect
  <2>1. PICK status \in AttachStatuses :
          /\ ValidateFlashService(status)
          /\ IF status = "OK" THEN Attached
             ELSE /\ service_active' = FALSE
                  /\ service_state' = "DETACHED"
    BY <1>7 DEF Connect, OpenSession, RestoreFlashService
  <2>2. ram' \in [RamCells -> Data]
    BY <2>1, ValidationPublishes
  <2>3. service_active' \in BOOLEAN /\ service_state' \in {"DETACHED", "ATTACHED", "ERROR"}
    BY <2>1 DEF Attached
  <2> QED BY <1>7, <2>2, <2>3, NoLoadType DEF Connect, OpenSession, TypeOK, journal
<1>8. CASE LockWithoutByte
  BY <1>8 DEF LockWithoutByte, TypeOK, coreVars
<1>9. CASE Command
  BY <1>9, CommandType DEF Command, TypeOK, CoreType, journal
<1>10. CASE FlashCommand
  BY <1>10 DEF FlashCommand, Listening, ForwardToService, TypeOK, service, journal
<1>11. CASE AppConfirms
  <2>1. JournalType'
    BY <1>11, JournalStepType DEF AppConfirms, Journal!Next, TypeOK, JournalType
  <2> QED BY <1>11, <2>1 DEF AppConfirms, TypeOK, JournalType, service, device
<1>12. CASE AppResets
  BY <1>12, RestartType DEF AppResets, TypeOK, JournalType, journal
<1>13. CASE PowerLoss
  <2>1. ram' \in [RamCells -> Data]
    BY <1>13 DEF PowerLoss, TypeOK, Data
  <2>2. JournalType'
    BY <1>13, JournalStepType DEF PowerLoss, TypeOK, JournalType
  <2> QED BY <1>13, <2>1, <2>2, RestartType DEF PowerLoss
<1>14. CASE HostLeaves
  BY <1>14, ZenonT(40) DEF HostLeaves, TypeOK, coreVars
<1> QED BY <1>1, <1>2, <1>3, <1>4, <1>5, <1>6, <1>7, <1>8, <1>9, <1>10, <1>11,
           <1>12, <1>13, <1>14 DEF Next, DeviceSteps

-----------------------------------------------------------------------------
(***************************************************************************)
(* The service                                                             *)
(***************************************************************************)
ServiceGood ==
  /\ service_active => ServiceIntact /\ IsPublished(ram)
  /\ IsPublished(ram) => ServiceIntact

\* A step that leaves the service's cells and its status alone.
LEMMA ServiceUntouched ==
  ASSUME TypeOK, TypeOK', WellLinked, ServiceGood, UNCHANGED service_active,
         \A a \in ServiceCells : ram'[a] = ram[a]
  PROVE  ServiceGood'
<1>1. ValidateStatuses(ram') = ValidateStatuses(ram)
  BY SameVerdict DEF TypeOK
<1>2. PublishCell \in ServiceCells
  BY DEF PublishCell, ServiceCells
<1> QED BY <1>1, <1>2 DEF ServiceGood, ServiceIntact, IsPublished

\* A validation attaches at most an intact service.
LEMMA ServiceValidated ==
  ASSUME TypeOK, TypeOK', WellLinked, NEW status, ValidateFlashService(status),
         service_active' => status = "OK"
  PROVE  ServiceGood'
<1>1. /\ IsPublished(ram)' <=> status = "OK"
      /\ ValidateStatuses(ram') = ValidateStatuses(ram)
      /\ status \in ValidateStatuses(ram)
  BY ValidationPublishes
<1>2. status = "OK" => ValidateStatuses(ram') = {"OK"}
  BY <1>1, VerdictIsSingle DEF TypeOK
<1> QED BY <1>1, <1>2 DEF ServiceGood, ServiceIntact

\* A packet over the service detaches and unpublishes it.
LEMMA ServiceOverwritten ==
  ASSUME TypeOK, WellLinked, ~service_active', ~IsPublished(ram)'
  PROVE  ServiceGood'
BY DEF ServiceGood

LEMMA CommandService ==
  ASSUME TypeOK, TypeOK', WellLinked, ServiceGood, ProcessOne
  PROVE  ServiceGood'
<1>1. CASE UNCHANGED <<ram, service_active>>
  BY <1>1, ServiceUntouched
<1>2. ASSUME NEW packet \in LoadPackets, RamLoadDataOutOfRegion(packet)
      PROVE  ServiceGood'
  <2>1. CASE RangeOverlapsFlashService(packet)
    <3>1. ~service_active' /\ ~IsPublished(ram)'
      BY <1>2, <2>1, PublishWords
         DEF RamLoadDataOutOfRegion, InvalidateIfOverlapping, TypeOK, IsPublished
    <3> QED BY <3>1, ServiceOverwritten
  <2>2. CASE ~RangeOverlapsFlashService(packet)
    BY <1>1, <1>2, <2>2 DEF RamLoadDataOutOfRegion, InvalidateIfOverlapping, service
  <2> QED BY <2>1, <2>2
<1>3. ASSUME NEW packet \in LoadPackets, RamLoadDataDone(packet)
      PROVE  ServiceGood'
  <2>0. packet.count \in Nat
    BY PacketType
  <2>1. CASE RangeOverlapsFlashService(packet)
    <3>1. Written(packet, packet.count) \in [RamCells -> Data]
      BY <2>0, WrittenRam
    <3>2. ~service_active' /\ ~IsPublished(ram)'
      BY <1>3, <2>1, <3>1, PublishWords
         DEF RamLoadDataDone, InvalidateIfOverlapping, IsPublished
    <3> QED BY <3>2, ServiceOverwritten
  <2>2. CASE ~RangeOverlapsFlashService(packet)
    <3>1. ram' = Written(packet, packet.count) /\ UNCHANGED service_active
      BY <1>3, <2>2 DEF RamLoadDataDone, InvalidateIfOverlapping, service
    <3>2. \A a \in ServiceCells : ram'[a] = ram[a]
      BY <2>0, <2>2, <3>1, WrittenRam, SMTT(40)
    <3> QED BY <3>1, <3>2, ServiceUntouched
  <2> QED BY <2>1, <2>2
<1>4. ASSUME NEW verdict, ServiceAttachFails(verdict)
      PROVE  ServiceGood'
  <2>1. ValidateFlashService(verdict) /\ verdict # "OK" /\ UNCHANGED service_active
    BY <1>4 DEF ServiceAttachFails, FailServiceAttach
  <2>2. verdict \in ValidateStatuses(ram)
    BY <2>1, ValidationPublishes
  <2>3. ~service_active
    BY <2>1, <2>2 DEF ServiceGood, ServiceIntact
  <2> QED BY <2>1, <2>3, ServiceValidated
<1>5. CASE ServiceAttachDone
  BY <1>5, ServiceValidated DEF ServiceAttachDone
<1>6. ASSUME NEW status, ServiceAttachRefused(status)
      PROVE  ServiceGood'
  BY <1>1, <1>6 DEF ServiceAttachRefused, FailServiceAttach
<1>7. CASE HandleServiceAttach
  BY <1>4, <1>5, <1>6, <1>7 DEF HandleServiceAttach
<1>8. CASE HandleRamLoadData
  <2>1. CASE RamLoadDataMissingBegin
    BY <1>1, <2>1 DEF RamLoadDataMissingBegin, Answer, coreVars
  <2>2. ASSUME NEW packet, RamLoadDataRefused(packet) PROVE ServiceGood'
    BY <1>1, <2>2 DEF RamLoadDataRefused, service
  <2> QED BY <1>2, <1>3, <1>8, <2>1, <2>2 DEF HandleRamLoadData
<1>9. CASE BadFrame \/ HandleQuery \/ HandleMemoryRead \/ HandleOther \/ ForwardRefused
  BY <1>1, <1>9 DEF BadFrame, HandleQuery, HandleMemoryRead, HandleOther,
                    ForwardRefused, Answer, coreVars
<1>10. CASE HandleRamLoadBegin
  BY <1>1, <1>10 DEF HandleRamLoadBegin, RamLoadBeginRefused, RamLoadBeginDone,
                     Answer, coreVars, service
<1>11. CASE HandleRamLoadEnd
  BY <1>1, <1>11 DEF HandleRamLoadEnd, RamLoadEndMissingBegin, RamLoadEndFails,
                     RamLoadEndDone, Answer, coreVars, service
<1>12. CASE HandleRamCheckCrc
  BY <1>1, <1>12 DEF HandleRamCheckCrc, RamCheckCrcRefused, RamCheckCrcAnswered,
                     Answer, coreVars, service
<1>13. CASE HandleRun
  BY <1>1, <1>13 DEF HandleRun, RunDone, Answer, coreVars, service
<1>14. CASE HandleRunRam
  BY <1>1, <1>14 DEF HandleRunRam, RunRamDone, Answer, coreVars, service
<1> QED BY <1>7, <1>8, <1>9, <1>10, <1>11, <1>12, <1>13, <1>14 DEF ProcessOne

LEMMA ServiceStep ==
  ASSUME TypeOK, TypeOK', ServiceInv, [Next]_vars
  PROVE  ServiceInv'
<1>1. ASSUME mode # "RESET", mode' # "RESET", UNCHANGED <<ram, service_active>>
      PROVE  ServiceInv'
  BY <1>1 DEF ServiceInv, ServiceIntact, IsPublished
<1>2. CASE UNCHANGED vars
  BY <1>2 DEF ServiceInv, ServiceIntact, IsPublished, vars, coreVars, device
<1>3. CASE StartUp
  <2>1. PICK status \in AttachStatuses : ValidateFlashService(status)
    BY <1>3 DEF StartUp
  <2>2. ~service_active' /\ mode' = "CONNECT"
    BY <1>3 DEF StartUp, ServiceInv, service
  <2>3. WellLinked => ServiceGood'
    BY <2>1, <2>2, ServiceValidated
  <2> QED BY <2>2, <2>3 DEF ServiceInv, ServiceGood
<1>4. CASE Connect
  <2>1. PICK status \in AttachStatuses :
          /\ ValidateFlashService(status)
          /\ IF status = "OK" THEN Attached
             ELSE /\ service_active' = FALSE
                  /\ service_state' = "DETACHED"
    BY <1>4 DEF Connect, OpenSession, RestoreFlashService
  <2>2. WellLinked => ServiceGood'
    BY <2>1, ServiceValidated
  <2>3. mode' = "COMMAND"
    BY <1>4 DEF Connect, OpenSession
  <2> QED BY <2>2, <2>3 DEF ServiceInv, ServiceGood
<1>5. CASE Command
  <2>1. mode = "COMMAND" /\ mode' # "RESET"
    BY <1>5 DEF Command, Listening
  <2>2. WellLinked => ServiceGood'
    BY <1>5, <2>1, CommandService DEF Command, ServiceInv, ServiceGood
  <2> QED BY <2>1, <2>2 DEF ServiceInv, ServiceGood
<1>6. CASE CommTimeout \/ AppResets \/ PowerLoss
  <2>1. mode' = "RESET" /\ ~service_active'
    BY <1>6 DEF CommTimeout, AppResets, PowerLoss, Restart
  <2> QED BY <2>1 DEF ServiceInv
<1>7. CASE WindowExpires \/ LockWithoutByte
  BY <1>1, <1>7 DEF WindowExpires, LockWithoutByte, coreVars
<1>8. CASE FlashCommandReturns \/ FlashCommand
  BY <1>1, <1>8 DEF FlashCommandReturns, FlashCommand, Listening, ServiceReturns,
                    ForwardToService, service
<1>9. CASE Jump
  BY <1>1, <1>9 DEF Jump, coreVars
<1>10. CASE AppConfirms
  BY <1>1, <1>10 DEF AppConfirms, service, device
<1>11. CASE HostLeaves
  BY <1>11 DEF HostLeaves, coreVars, ServiceInv, ServiceIntact, IsPublished
<1> QED BY <1>2, <1>3, <1>4, <1>5, <1>6, <1>7, <1>8, <1>9, <1>10, <1>11
        DEF Next, DeviceSteps

-----------------------------------------------------------------------------
(***************************************************************************)
(* What is started                                                         *)
(***************************************************************************)
\* Only RUN and RUN_RAM leave the command loop.
LEMMA CommandAction ==
  ASSUME ProcessOne
  PROVE  \/ UNCHANGED <<action, pending_entry_point>>
         \/ \E entry \in Entries \cup {BadEntry} : RunDone(entry)
         \/ \E entry : RunRamDone(entry)
<1>1. CASE BadFrame \/ HandleQuery \/ HandleMemoryRead \/ HandleOther \/ ForwardRefused
  BY <1>1 DEF BadFrame, HandleQuery, HandleMemoryRead, HandleOther,
              ForwardRefused, Answer, coreVars
<1>2. CASE HandleRamLoadBegin
  BY <1>2 DEF HandleRamLoadBegin, RamLoadBeginRefused, RamLoadBeginDone, Answer, coreVars
<1>3. CASE HandleRamLoadData
  BY <1>3 DEF HandleRamLoadData, RamLoadDataMissingBegin, RamLoadDataRefused,
              RamLoadDataOutOfRegion, RamLoadDataDone, Answer, coreVars
<1>4. CASE HandleRamLoadEnd
  BY <1>4 DEF HandleRamLoadEnd, RamLoadEndMissingBegin, RamLoadEndFails,
              RamLoadEndDone, Answer, coreVars
<1>5. CASE HandleRamCheckCrc
  BY <1>5 DEF HandleRamCheckCrc, RamCheckCrcRefused, RamCheckCrcAnswered, Answer, coreVars
<1>6. CASE HandleServiceAttach
  BY <1>6 DEF HandleServiceAttach, ServiceAttachRefused, ServiceAttachFails,
              ServiceAttachDone, FailServiceAttach
<1>7. CASE HandleRun
  BY <1>7 DEF HandleRun, Answer, coreVars
<1>8. CASE HandleRunRam
  BY <1>8 DEF HandleRunRam, Answer, coreVars
<1> QED BY <1>1, <1>2, <1>3, <1>4, <1>5, <1>6, <1>7, <1>8 DEF ProcessOne

\* An accepted RUN names the trusted image, which has been attempted.
LEMMA RunIsTrusted ==
  ASSUME TypeOK, StartInv, NEW entry, RunStatus(entry) = "OK"
  PROVE  Trusted(entry)
<1>1. /\ image # NoImage /\ EntryOf[image] = entry
      /\ confirmed \/ attempts # 0
  BY DEF RunStatus
<1>2. attempts \in Nat /\ (confirmed => attempts > 0)
  BY DEF TypeOK, StartInv
<1>3. attempts > 0
  BY <1>1, <1>2
<1> QED BY <1>1, <1>3 DEF Trusted

\* A confirmed image has been attempted.
LEMMA JournalConfirms ==
  ASSUME confirmed => attempts > 0, JournalType, Journal!Next \/ UNCHANGED journal
  PROVE  (confirmed => attempts > 0)'
<1>1. CASE Journal!Revoke \/ Journal!Publish
  BY <1>1 DEF Journal!Revoke, Journal!Publish
<1>2. CASE Journal!Attempt
  BY <1>2 DEF Journal!Attempt, JournalType
<1>3. CASE Journal!Confirm
  BY <1>3 DEF Journal!Confirm
<1>4. CASE UNCHANGED journal
  BY <1>4 DEF journal
<1> QED BY <1>1, <1>2, <1>3, <1>4 DEF Journal!Next

LEMMA StartStep ==
  ASSUME TypeOK, TypeOK', StartInv, GuardInv, [Next]_vars
  PROVE  StartInv'
<1>0. JournalType
  BY DEF TypeOK, JournalType
<1>1. CASE UNCHANGED vars
  BY <1>1 DEF StartInv, Trusted, vars, coreVars, device
<1>2. CASE StartUp
  BY <1>2 DEF StartUp, StartInv, IsConfirmedBootable, Trusted, journal
<1>3. CASE WindowExpires
  BY <1>3 DEF WindowExpires, StartInv, Trusted, coreVars
<1>4. CASE FlashCommandReturns
  <2>1. mode' = "COMMAND" /\ action' = "NONE"
    BY <1>4 DEF FlashCommandReturns, ServiceReturns, StartInv
  <2>2. (confirmed => attempts > 0)'
    BY <1>0, <1>4, JournalConfirms DEF FlashCommandReturns, ServiceReturns, StartInv
  <2> QED BY <2>1, <2>2 DEF StartInv
<1>5. CASE Jump
  BY <1>5 DEF Jump, StartInv, Trusted, coreVars
<1>6. CASE CommTimeout \/ AppResets \/ PowerLoss
  <2>1. mode' = "RESET"
    BY <1>6 DEF CommTimeout, AppResets, PowerLoss, Restart
  <2>2. Journal!Next \/ UNCHANGED journal
    BY <1>6 DEF CommTimeout, AppResets, PowerLoss, journal
  <2>3. (confirmed => attempts > 0)'
    BY <1>0, <2>2, JournalConfirms DEF StartInv
  <2> QED BY <2>1, <2>3 DEF StartInv
<1>7. CASE Connect
  BY <1>7 DEF Connect, OpenSession, StartInv, journal
<1>8. CASE LockWithoutByte
  BY <1>8 DEF LockWithoutByte, StartInv, Trusted, coreVars
<1>9. CASE Command
  <2>1. /\ mode = "COMMAND" /\ action = "NONE" /\ UNCHANGED journal /\ ProcessOne
        /\ mode' = IF action' = "NONE" THEN "COMMAND" ELSE "JUMP"
    BY <1>9, CommandType DEF Command, Listening, StartInv
  <2>2. CASE UNCHANGED <<action, pending_entry_point>>
    BY <2>1, <2>2 DEF StartInv, journal
  <2>3. ASSUME NEW entry, RunDone(entry) PROVE StartInv'
    <3>1. Trusted(entry)
      BY <2>3, RunIsTrusted DEF RunDone
    <3> QED BY <2>1, <2>3, <3>1 DEF RunDone, StartInv, Trusted, journal
  <2>4. ASSUME NEW entry, RunRamDone(entry) PROVE StartInv'
    BY <2>1, <2>4 DEF RunRamDone, StartInv, journal
  <2> QED BY <2>1, <2>2, <2>3, <2>4, CommandAction
<1>10. CASE FlashCommand
  BY <1>10 DEF FlashCommand, Listening, ForwardToService, StartInv, journal
<1>11. CASE AppConfirms
  BY <1>11 DEF AppConfirms, Journal!Confirm, StartInv, Trusted, device
<1>12. CASE HostLeaves
  BY <1>12 DEF HostLeaves, StartInv, Trusted, coreVars
<1> QED BY <1>1, <1>2, <1>3, <1>4, <1>5, <1>6, <1>7, <1>8, <1>9, <1>10, <1>11,
           <1>12 DEF Next, DeviceSteps

LEMMA GuardStep ==
  ASSUME TypeOK, GuardInv, [Next]_vars
  PROVE  GuardInv'
<1>1. CASE UNCHANGED vars
  BY <1>1 DEF GuardInv, vars, coreVars, device
<1>2. CASE StartUp \/ WindowExpires \/ Jump \/ LockWithoutByte \/ HostLeaves
  BY <1>2 DEF StartUp, WindowExpires, Jump, LockWithoutByte, HostLeaves,
              GuardInv, coreVars
<1>3. CASE FlashCommandReturns \/ Connect \/ CommTimeout \/ AppResets \/ PowerLoss
  BY <1>3 DEF FlashCommandReturns, ServiceReturns, Connect, OpenSession,
              CommTimeout, AppResets, PowerLoss, Restart, GuardInv
<1>4. CASE Command
  BY <1>4, CommandType DEF Command, Listening, GuardInv
<1>5. CASE FlashCommand
  BY <1>5 DEF FlashCommand, Listening, GuardInv
<1>6. CASE AppConfirms
  BY <1>6 DEF AppConfirms, GuardInv, device
<1> QED BY <1>1, <1>2, <1>3, <1>4, <1>5, <1>6 DEF Next, DeviceSteps

LoadFinished ==
  ram_load.image_ready => /\ ~ram_load.active
                          /\ ram_load.words = ram_load.expected_words

\* A load is declared ready only when complete, and nothing is added to it then.
LEMMA CommandLoad ==
  ASSUME TypeOK, LoadFinished, ProcessOne
  PROVE  LoadFinished'
<1>1. CASE UNCHANGED ram_load
  BY <1>1 DEF LoadFinished
<1>2. CASE ram_load' = NoLoad
  BY <1>2 DEF LoadFinished, NoLoad
<1>3. CASE HandleRamLoadBegin
  <2>1. ASSUME NEW packets, NEW words, NEW entry, RamLoadBeginDone(packets, words, entry)
        PROVE  LoadFinished'
    BY <2>1 DEF RamLoadBeginDone, LoadFinished, NoLoad
  <2> QED BY <1>1, <1>3, <2>1 DEF HandleRamLoadBegin, RamLoadBeginRefused, Answer, coreVars
<1>4. CASE HandleRamLoadData
  <2>1. ASSUME NEW packet, RamLoadDataDone(packet)
        PROVE  LoadFinished'
    BY <2>1 DEF RamLoadDataDone, LoadFinished, TypeOK, LoadType
  <2> QED BY <1>1, <1>2, <1>4, <2>1
          DEF HandleRamLoadData, RamLoadDataMissingBegin, RamLoadDataRefused,
              RamLoadDataOutOfRegion, Answer, coreVars
<1>5. CASE HandleRamLoadEnd
  <2>1. CASE RamLoadEndMissingBegin \/ RamLoadEndFails
    BY <1>1, <1>2, <2>1 DEF RamLoadEndMissingBegin, RamLoadEndFails, Answer, coreVars
  <2>2. ASSUME NEW packets, NEW words, RamLoadEndValid(packets, words), RamLoadEndDone
        PROVE  LoadFinished'
    BY <2>2 DEF RamLoadEndValid, RamLoadEndDone, LoadFinished, TypeOK, LoadType
  <2> QED BY <1>5, <2>1, <2>2 DEF HandleRamLoadEnd
<1>6. CASE HandleRamCheckCrc
  <2>1. ASSUME NEW matches \in BOOLEAN, RamCheckCrcAnswered(matches)
        PROVE  LoadFinished'
    BY <2>1 DEF RamCheckCrcAnswered, LoadFinished, TypeOK, LoadType
  <2> QED BY <1>1, <1>6, <2>1 DEF HandleRamCheckCrc, RamCheckCrcRefused, Answer, coreVars
<1>7. CASE HandleServiceAttach
  BY <1>1, <1>7 DEF HandleServiceAttach, ServiceAttachRefused, ServiceAttachFails,
                    ServiceAttachDone, FailServiceAttach
<1>8. CASE HandleRun \/ HandleRunRam
  BY <1>1, <1>8 DEF HandleRun, RunDone, HandleRunRam, RunRamDone, Answer, coreVars
<1>9. CASE BadFrame \/ HandleQuery \/ HandleMemoryRead \/ HandleOther \/ ForwardRefused
  BY <1>1, <1>9 DEF BadFrame, HandleQuery, HandleMemoryRead, HandleOther,
                    ForwardRefused, Answer, coreVars
<1> QED BY <1>3, <1>4, <1>5, <1>6, <1>7, <1>8, <1>9 DEF ProcessOne

LEMMA RamStep ==
  ASSUME TypeOK, RamInv, [Next]_vars
  PROVE  RamInv'
<1>1. CASE UNCHANGED vars
  BY <1>1 DEF RamInv, CheckedRam, InLoadedRange, vars, coreVars, device
<1>2. CASE StartUp \/ WindowExpires \/ LockWithoutByte
  BY <1>2 DEF StartUp, WindowExpires, LockWithoutByte, RamInv, coreVars
<1>3. CASE FlashCommandReturns \/ FlashCommand
  BY <1>3 DEF FlashCommandReturns, ServiceReturns, FlashCommand, Listening,
              ForwardToService, RamInv
<1>4. CASE Jump
  BY <1>4 DEF Jump, RamInv, CheckedRam, InLoadedRange, coreVars
<1>5. CASE Connect \/ CommTimeout \/ AppResets \/ PowerLoss
  BY <1>5 DEF Connect, OpenSession, CommTimeout, AppResets, PowerLoss, Restart,
              NoLoad, RamInv
<1>6. CASE Command
  <2>1. /\ mode = "COMMAND" /\ action = "NONE" /\ ProcessOne
        /\ mode' = IF action' = "NONE" THEN "COMMAND" ELSE "JUMP"
    BY <1>6 DEF Command, Listening, RamInv
  <2>2. LoadFinished'
    BY <2>1, CommandLoad DEF RamInv, LoadFinished
  <2>3. CASE UNCHANGED <<action, pending_entry_point>>
    BY <2>1, <2>2, <2>3 DEF RamInv, LoadFinished
  <2>4. ASSUME NEW entry, RunDone(entry) PROVE RamInv'
    BY <2>1, <2>2, <2>4 DEF RunDone, RamInv, LoadFinished
  <2>5. ASSUME NEW entry, RunRamDone(entry) PROVE RamInv'
    <3>1. CheckedRam(entry)
      BY <2>5 DEF RunRamDone, RunRamStatus, CheckedRam, RamInv
    <3>2. CheckedRam(pending_entry_point)'
      BY <2>5, <3>1 DEF RunRamDone, CheckedRam, InLoadedRange
    <3> QED BY <2>1, <2>2, <2>5, <3>2 DEF RunRamDone, RamInv, LoadFinished
  <2> QED BY <2>1, <2>3, <2>4, <2>5, CommandAction
<1>7. CASE AppConfirms
  BY <1>7 DEF AppConfirms, RamInv, CheckedRam, InLoadedRange, device
<1>8. CASE HostLeaves
  BY <1>8 DEF HostLeaves, RamInv, CheckedRam, InLoadedRange, coreVars
<1> QED BY <1>1, <1>2, <1>3, <1>4, <1>5, <1>6, <1>7, <1>8 DEF Next, DeviceSteps

-----------------------------------------------------------------------------
(***************************************************************************)
(* Theorems                                                                *)
(***************************************************************************)
LEMMA InitInvariant ==
  ASSUME Init
  PROVE  IInv
<1>1. ram \in [RamCells -> Data]
  BY DEF Init, Data
<1>2. image \in Images \cup {NoImage} /\ attempts \in 0 .. AttemptLimit /\ confirmed = FALSE
  BY DEF Init, Journal!Init
<1>3. TypeOK
  BY <1>1, <1>2, NoLoadType DEF Init, CoreInit, TypeOK
<1> QED BY <1>2, <1>3 DEF Init, CoreInit, NoLoad, IInv, ServiceInv, StartInv,
                          GuardInv, RamInv

\* The inductive invariant of the device: every step of start-up, of the
\* command loop, of a jump, of a reset and of a power loss keeps it.
THEOREM DeviceInvariant == Spec => []IInv
<1>1. Init => IInv
  BY InitInvariant
<1>2. IInv /\ [Next]_vars => IInv'
  BY TypeStep, ServiceStep, StartStep, GuardStep, RamStep DEF IInv
<1> QED BY <1>1, <1>2, PTL DEF Spec

\* Types, and the counters of a RAM load under the totals of its BEGIN
\* (the unsigned differences of BootAlgorithm_HandleRamLoadData never wrap).
THEOREM DeviceTypeCorrect == Spec => []TypeOK
<1>1. IInv => TypeOK
  BY DEF IInv
<1> QED BY <1>1, DeviceInvariant, PTL

\* Flash commands are forwarded only to code that would pass validation now
\* (boot_algorithm.c, service_command_handler), for well linked artifacts.
THEOREM ServiceStaysIntact == Spec => []AttachedServiceIntact
<1>1. IInv => AttachedServiceIntact
  BY DEF IInv, ServiceInv, AttachedServiceIntact
<1> QED BY <1>1, DeviceInvariant, PTL

\* The application finds the publish words valid only over intact code.
THEOREM PublishedIsIntact == Spec => []PublishedServiceIntact
<1>1. IInv => PublishedServiceIntact
  BY DEF IInv, ServiceInv, PublishedServiceIntact
<1> QED BY <1>1, DeviceInvariant, PTL

\* RUN and auto-boot start the trusted, attempted image and nothing else.
THEOREM OnlyTrusted == Spec => []OnlyTrustedRuns
<1>1. IInv => OnlyTrustedRuns
  BY DEF IInv, StartInv, Trusted, OnlyTrustedRuns
<1> QED BY <1>1, DeviceInvariant, PTL

\* RUN_RAM starts only a complete load whose CRC was checked.
THEOREM OnlyCheckedRam == Spec => []OnlyCheckedRamRuns
<1>1. IInv => OnlyCheckedRamRuns
  BY DEF IInv, RamInv, CheckedRam, OnlyCheckedRamRuns
<1> QED BY <1>1, DeviceInvariant, PTL

\* The Timer 2 interrupt never resets the device inside the Flash service.
THEOREM TimeoutSparesFlash == Spec => FlashRunsToItsEnd
<1>1. IInv => [CommTimeout => ~service_busy]_vars
  BY DEF IInv, GuardInv, CommTimeout
<1> QED BY <1>1, DeviceInvariant, PTL DEF FlashRunsToItsEnd

=============================================================================
