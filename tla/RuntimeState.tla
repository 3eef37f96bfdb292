---------------------------- MODULE RuntimeState ----------------------------
(***************************************************************************)
(* The Runtime V2 state of the GUI: one immutable snapshot, changed only   *)
(* by domain events.  dispatch runs an event through every policy in a     *)
(* fixed order on a draft, builds the candidate snapshot from the draft    *)
(* and publishes it; a policy that raises, or a candidate that is not well *)
(* formed, leaves the old snapshot in place.                               *)
(*                                                                         *)
(* An image identity (entry point, size, CRC) is one value, a file path    *)
(* another; times, error texts and operation identifiers are left out.     *)
(* The health of the connection is modelled in GuiConnection.              *)
(***************************************************************************)
EXTENDS Naturals, FiniteSets

CONSTANTS
    Cpus,       \* RuntimeCpuId
    Groups,     \* DiagnosticGroup
    None        \* Python's None

ParseStatuses == {"EMPTY", "PARSING", "READY", "ERROR"}
Freshnesses == {"EMPTY", "FRESH", "STALE"}
EraseScopes == {"REQUIRED", "ENTIRE", "CUSTOM"}

NewImage == [path |-> None, summary |-> None, status |-> "EMPTY"]
NewResource == [program |-> NewImage, ram |-> NewImage, scope |-> "REQUIRED",
                mask |-> {}, verify |-> None, crc |-> None]
NewMemory == [freshness |-> "EMPTY", words |-> None, gen |-> 0]
NewReading == [value |-> None, freshness |-> "EMPTY"]
NewDiagnostics == [g \in Groups |-> NewReading]

(***************************************************************************)
(* RuntimeStateStore.__init__                                              *)
(***************************************************************************)
NewStore ==
    [gen |-> 0, conn |-> None,
     res |-> [c \in Cpus |-> NewResource],
     mem |-> [c \in Cpus |-> NewMemory],
     meta |-> NewReading, diag |-> NewDiagnostics]

-----------------------------------------------------------------------------
(***************************************************************************)
(* What the constructors of the state's parts accept.                      *)
(***************************************************************************)
ParseStateValid(i) ==
    (i.status = "READY") = (i.summary # None)

ImageEventValid(i) ==
    ParseStateValid(i) /\ (i.status # "EMPTY" => i.path # None)

ResourceValid(c, r) ==
    /\ ParseStateValid(r.program)
    /\ ParseStateValid(r.ram)
    /\ r.verify # None => r.verify.cpu = c
    /\ r.crc # None => r.crc.cpu = c

MemoryValid(m) == (m.freshness = "EMPTY") = (m.words = None)

MetadataValid(v) == v.freshness = "FRESH" => v.value # None

DiagnosticsValid(d) == \A g \in Groups : d[g].freshness = "FRESH" => d[g].value # None

SnapshotValid(s) ==
    /\ s.conn # None => s.conn.gen = s.gen
    /\ \A c \in Cpus : ResourceValid(c, s.res[c]) /\ MemoryValid(s.mem[c])
    /\ MetadataValid(s.meta)
    /\ DiagnosticsValid(s.diag)

-----------------------------------------------------------------------------
(***************************************************************************)
(* The events that carry data.                                             *)
(***************************************************************************)
ConnectionOpened(c) == [type |-> "ConnectionOpened", cpu |-> c]
ConnectionClosed(g) == [type |-> "ConnectionClosed", gen |-> g]
SessionChanged == [type |-> "SessionChanged"]
MemoryReadSucceeded(c, g, w) == [type |-> "MemoryReadSucceeded", cpu |-> c, gen |-> g, words |-> w]
MemoryReadFailed(c, g) == [type |-> "MemoryReadFailed", cpu |-> c, gen |-> g]
MemoryCleared(c) == [type |-> "MemoryCleared", cpu |-> c]
MetadataReadSucceeded(c, g, v) == [type |-> "MetadataReadSucceeded", cpu |-> c, gen |-> g, value |-> v]
MetadataReadFailed(c, g) == [type |-> "MetadataReadFailed", cpu |-> c, gen |-> g]
MetadataWriteStarted(c, g) == [type |-> "MetadataWriteStarted", cpu |-> c, gen |-> g]
DiagnosticReadSucceeded(c, g, k, v) ==
    [type |-> "DiagnosticReadSucceeded", cpu |-> c, gen |-> g, group |-> k, value |-> v]
DiagnosticReadFailed(c, g, k) ==
    [type |-> "DiagnosticReadFailed", cpu |-> c, gen |-> g, group |-> k]
ProgramImageChanged(c, p, s, i) ==
    [type |-> "ProgramImageChanged", cpu |-> c,
     image |-> [path |-> p, summary |-> i, status |-> s]]
RamImageChanged(c, p, s, i) ==
    [type |-> "RamImageChanged", cpu |-> c,
     image |-> [path |-> p, summary |-> i, status |-> s]]
SectorSelectionChanged(c, s, k) ==
    [type |-> "SectorSelectionChanged", cpu |-> c, scope |-> s, mask |-> k]
OperationStarted(o, c, g) == [type |-> "OperationStarted", op |-> o, cpu |-> c, gen |-> g]
OperationSucceeded(o, c, g, i) ==
    [type |-> "OperationSucceeded", op |-> o, cpu |-> c, gen |-> g, id |-> i]

EventValid(e) ==
    e.type \in {"ProgramImageChanged", "RamImageChanged"} => ImageEventValid(e.image)

-----------------------------------------------------------------------------
(***************************************************************************)
(* The policies, in the order in which DEFAULT_DOMAIN_POLICIES runs them.  *)
(***************************************************************************)
OnCurrentConnection(e, d) ==              \* _current_connection
    d.conn # None /\ d.conn.cpu = e.cpu /\ d.conn.gen = e.gen

ConnectionGenerationPolicy(e, d) ==
    IF e.type = "ConnectionOpened" THEN [d EXCEPT !.gen = @ + 1] ELSE d

ConnectionStatePolicy(e, d) ==
    CASE e.type = "ConnectionOpened" -> [d EXCEPT !.conn = [gen |-> d.gen, cpu |-> e.cpu]]
      [] e.type = "ConnectionClosed" -> [d EXCEPT !.conn = None]
      [] OTHER -> d

MemoryFreshnessPolicy(e, d) ==
    CASE e.type = "SessionChanged" -> [d EXCEPT !.mem = [c \in Cpus |-> NewMemory]]
      [] e.type = "MemoryCleared" -> [d EXCEPT !.mem[e.cpu] = NewMemory]
      [] e.type = "MemoryReadSucceeded" /\ OnCurrentConnection(e, d) ->
            [d EXCEPT !.mem[e.cpu] = [freshness |-> "FRESH", words |-> e.words, gen |-> e.gen]]
      [] e.type = "MemoryReadFailed" /\ OnCurrentConnection(e, d) ->
            [d EXCEPT !.mem[e.cpu].freshness = IF d.mem[e.cpu].words # None THEN "STALE" ELSE "EMPTY"]
      [] e.type \in {"ConnectionOpened", "ConnectionClosed"} ->
            [d EXCEPT !.mem = [c \in Cpus |->
                IF /\ d.mem[c].words # None
                   /\ \/ d.conn = None
                      \/ d.conn.cpu # c
                      \/ d.mem[c].gen # d.conn.gen
                THEN [d.mem[c] EXCEPT !.freshness = "STALE"]
                ELSE d.mem[c]]]
      [] OTHER -> d

MetadataFreshnessPolicy(e, d) ==
    CASE e.type \in {"ConnectionOpened", "ConnectionClosed", "SessionChanged"} ->
            [d EXCEPT !.meta = NewReading]
      [] e.type = "MetadataReadSucceeded" /\ OnCurrentConnection(e, d) ->
            [d EXCEPT !.meta = [value |-> e.value, freshness |-> "FRESH"]]
      [] e.type = "MetadataReadFailed" /\ OnCurrentConnection(e, d) ->
            [d EXCEPT !.meta.freshness = IF @ = "STALE" \/ d.meta.value # None THEN "STALE" ELSE "EMPTY"]
      [] /\ \/ e.type = "MetadataWriteStarted"
            \/ e.type = "OperationStarted" /\ e.op \in {"ERASE", "PROGRAM"}
         /\ OnCurrentConnection(e, d) ->
            [d EXCEPT !.meta.freshness = "STALE"]
      [] OTHER -> d

DiagnosticsFreshnessPolicy(e, d) ==
    CASE e.type \in {"ConnectionOpened", "ConnectionClosed", "SessionChanged"} ->
            [d EXCEPT !.diag = NewDiagnostics]
      [] e.type = "DiagnosticReadSucceeded" /\ OnCurrentConnection(e, d) ->
            [d EXCEPT !.diag[e.group] = [value |-> e.value, freshness |-> "FRESH"]]
      [] e.type = "DiagnosticReadFailed" /\ OnCurrentConnection(e, d) ->
            [d EXCEPT !.diag[e.group].freshness =
                IF d.diag[e.group].value # None THEN "STALE" ELSE "EMPTY"]
      [] OTHER -> d

(***************************************************************************)
(* A mutant: evidence of a verification outlives an erase or a program     *)
(* operation.                                                              *)
(***************************************************************************)
MutantEvidenceInvalidationPolicy(e, d) ==
    CASE e.type \in {"ConnectionOpened", "ConnectionClosed", "SessionChanged"} ->
            [d EXCEPT !.res = [c \in Cpus |-> [d.res[c] EXCEPT !.verify = None, !.crc = None]]]
      [] e.type = "OperationStarted" ->
            IF e.op \in {"ERASE", "PROGRAM"} THEN d
            ELSE IF e.op = "VERIFY" THEN [d EXCEPT !.res[e.cpu].verify = None]
            ELSE [d EXCEPT !.res[e.cpu].crc = None]
      [] OTHER -> d

EvidenceInvalidationPolicy(e, d) ==
    CASE e.type \in {"ConnectionOpened", "ConnectionClosed", "SessionChanged"} ->
            [d EXCEPT !.res = [c \in Cpus |-> [d.res[c] EXCEPT !.verify = None, !.crc = None]]]
      [] e.type = "OperationStarted" ->
            IF e.op \in {"ERASE", "PROGRAM", "VERIFY"}
            THEN [d EXCEPT !.res[e.cpu].verify = None]
            ELSE [d EXCEPT !.res[e.cpu].crc = None]
      [] /\ e.type = "ProgramImageChanged" /\ e.image.summary # None
         /\ d.res[e.cpu].verify # None /\ d.res[e.cpu].verify.id # e.image.summary ->
            [d EXCEPT !.res[e.cpu].verify = None]
      [] /\ e.type = "RamImageChanged" /\ e.image.summary # None
         /\ d.res[e.cpu].crc # None /\ d.res[e.cpu].crc.id # e.image.summary ->
            [d EXCEPT !.res[e.cpu].crc = None]
      [] OTHER -> d

EarnsEvidence(e, d, image) ==
    /\ OnCurrentConnection(e, d)
    /\ image.status = "READY"
    /\ image.summary = e.id

Evidence(e) == [cpu |-> e.cpu, gen |-> e.gen, id |-> e.id]

VerifyEvidencePolicy(e, d) ==
    IF /\ e.type = "OperationSucceeded" /\ e.op = "VERIFY"
       /\ EarnsEvidence(e, d, d.res[e.cpu].program)
    THEN [d EXCEPT !.res[e.cpu].verify = Evidence(e)]
    ELSE d

RamCrcEvidencePolicy(e, d) ==
    IF /\ e.type = "OperationSucceeded" /\ e.op = "RAM_CRC"
       /\ EarnsEvidence(e, d, d.res[e.cpu].ram)
    THEN [d EXCEPT !.res[e.cpu].crc = Evidence(e)]
    ELSE d

SectorSelectionPolicy(e, d) ==
    IF e.type = "SectorSelectionChanged"
    THEN [d EXCEPT !.res[e.cpu].scope = e.scope, !.res[e.cpu].mask = e.mask]
    ELSE d

SessionStatePolicy(e, d) ==
    IF e.type = "SessionChanged" THEN [d EXCEPT !.res = [c \in Cpus |-> NewResource]] ELSE d

ProgramImageStatePolicy(e, d) ==
    IF e.type = "ProgramImageChanged" THEN [d EXCEPT !.res[e.cpu].program = e.image] ELSE d

RamImageStatePolicy(e, d) ==
    IF e.type = "RamImageChanged" THEN [d EXCEPT !.res[e.cpu].ram = e.image] ELSE d

-----------------------------------------------------------------------------
(***************************************************************************)
(* DomainEventDispatcher.dispatch and RuntimeStateStore.transition.  The   *)
(* policies that raise are the one for the connection, on a close that is  *)
(* not of the active connection, and the one for the session, while        *)
(* connected.                                                              *)
(***************************************************************************)
Candidate(e, s) ==
    LET d1 == ConnectionStatePolicy(e, ConnectionGenerationPolicy(e, s))
        d2 == DiagnosticsFreshnessPolicy(e, MetadataFreshnessPolicy(e, MemoryFreshnessPolicy(e, d1)))
        d3 == RamCrcEvidencePolicy(e, VerifyEvidencePolicy(e, EvidenceInvalidationPolicy(e, d2)))
    IN  RamImageStatePolicy(e, ProgramImageStatePolicy(e,
            SessionStatePolicy(e, SectorSelectionPolicy(e, d3))))

Raises(e, s) ==
    \/ e.type = "ConnectionClosed" /\ (s.conn = None \/ s.conn.gen # e.gen)
    \/ e.type = "SessionChanged" /\ s.conn # None

Accepted(e, s) == EventValid(e) /\ ~Raises(e, s) /\ SnapshotValid(Candidate(e, s))

Transition(e, s) == IF Accepted(e, s) THEN Candidate(e, s) ELSE s
=============================================================================
