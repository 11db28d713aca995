---------------------------- MODULE DataBatches ----------------------------
(***************************************************************************)
(* The market-data batches of SqlAlchemyResearchRepository: registration   *)
(* of a file (create_batch), import of an authorized file                  *)
(* (import_daily_bars, called by DataImportApplicationService) and         *)
(* publication of a provider pull (import_provider_batch), with the tables *)
(* they share: data_source, data_batch, security, trade_calendar and       *)
(* daily_bar.                                                              *)
(*                                                                         *)
(* Every call is one transaction.  It reads first, without locks, and its  *)
(* INSERTs meet the unique constraints when they are flushed; nothing is   *)
(* ever deleted, so a conflict that exists at some flush still exists at   *)
(* the commit, and all of them are modelled there.  A batch is named by    *)
(* the call that inserted it.                                              *)
(*                                                                         *)
(* A call's document is the set of securities it has bars for (what the    *)
(* content hash tells apart; a registration has none), the securities with *)
(* a status row only, those with a listing date and a board, and the       *)
(* verdict of the quality gate and of the caller.  The environment:        *)
(*   "overlap"     two transactions may be open at once                    *)
(*   "owners"      several users import                                    *)
(*   "label"       an administrator names the version of a file            *)
(*   "postgresql"  the database enforces column widths (SQLite does not)   *)
(***************************************************************************)
CONSTANTS
  Import,        \* calls, each a transaction of its own
  NoBatch,       \* a call that returned no batch
  Owner,
  Security,
  Contents,      \* the sets of securities a document has bars for
  Label,         \* version names an administrator may give
  Environments

ASSUME NoBatchAssumption == NoBatch \notin Import
ASSUME OwnerAssumption == Owner # {}
ASSUME ContentAssumption == Contents \subseteq SUBSET Security /\ {} \notin Contents
ASSUME DataEnvironmentAssumption ==
  Environments \subseteq SUBSET {"overlap", "owners", "label", "postgresql"}

VARIABLES
  call,        \* per call: where it stands, what it asks for, what it has read
  batch,       \* the status of the data_batch row each call inserted
  bars,        \* daily_bar: per batch, the securities it has a bar for
  securities,  \* security: absent, with an assumed or an evidenced list_date
  calendar,    \* trade_calendar has a row for the business date
  sources,     \* data_source
  env

vars == <<call, batch, bars, securities, calendar, sources, env>>

BatchStatus == {"none", "VALIDATING", "UNAVAILABLE", "AVAILABLE", "WARNING_AVAILABLE"}
Usable == {"AVAILABLE", "WARNING_AVAILABLE"}

SourceOf(kind) == IF kind = "provider" THEN "provider" ELSE "file"

Request == [kind : {"register", "file", "provider"}, owner : Owner,
            version : Contents \cup {{}} \cup Label, rows : Contents \cup {{}},
            extra : SUBSET Security, master : SUBSET Security, dated : BOOLEAN,
            verdict : {"clean", "warning", "blocking"}, reuse : BOOLEAN]

Seen == [source : BOOLEAN, securities : SUBSET Security, calendar : BOOLEAN]

NothingAsked ==
  [kind |-> "register", owner |-> CHOOSE o \in Owner : TRUE, version |-> {}, rows |-> {},
   extra |-> {}, master |-> {}, dated |-> TRUE, verdict |-> "clean", reuse |-> FALSE]
NothingSeen == [source |-> FALSE, securities |-> {}, calendar |-> FALSE]

Init ==
  /\ call = [i \in Import |->
       [pc |-> "idle", req |-> NothingAsked, seen |-> NothingSeen, answer |-> NoBatch]]
  /\ batch = [i \in Import |-> "none"]
  /\ bars = [i \in Import |-> {}]
  /\ securities = [s \in Security |-> "none"]
  /\ calendar = FALSE
  /\ sources = {}
  /\ env \in Environments

----------------------------------------------------------------------------
(* What may be asked.                                                      *)

Owners == IF "owners" \in env THEN Owner ELSE {NothingAsked.owner}
Names(c) == IF "label" \in env THEN Label \cup {c} ELSE {c}

Registrations ==
  [kind : {"register"}, owner : Owners, version : {{}}, rows : {{}}, extra : {{}},
   master : {{}}, dated : {TRUE}, verdict : {"clean"}, reuse : {FALSE}]

\* DataImportApplicationService.import_file: the version is the payload's or
\* the content's.  QualityGate and the provenance check block or admit.
FileImports ==
  {r \in [kind : {"file"}, owner : Owners, version : Contents \cup Label, rows : Contents,
          extra : {{}}, master : {{}}, dated : {TRUE}, verdict : {"clean", "blocking"},
          reuse : BOOLEAN] :
     r.version \in Names(r.rows)}

\* An ingestion service names the version after the standardized rows; the
\* rest of the evidence does not enter it.  Evidence nobody looks at is
\* fixed: of a blocked pull, dates of no row.
ProviderImports ==
  {r \in [kind : {"provider"}, owner : Owners, version : Contents, rows : Contents,
          extra : SUBSET Security, master : SUBSET Security, dated : BOOLEAN,
          verdict : {"clean", "warning", "blocking"}, reuse : {FALSE}] :
     /\ r.version = r.rows /\ r.extra \cap r.rows = {}
     /\ r.verdict = "blocking" => r.extra = {} /\ r.master = Security
     /\ r.extra = {} => r.dated}

Requests == Registrations \cup FileImports \cup ProviderImports

----------------------------------------------------------------------------
(* Reads.                                                                  *)

Stored(i) == batch[i] # "none"
Same(i, r) == Stored(i) /\ SourceOf(call[i].req.kind) = SourceOf(r.kind)

\* The batch a call takes for a repetition of itself.  The provider's lookup
\* is by version and does not look at the owner.
DuplicateOf(i, r) ==
  /\ Same(i, r)
  /\ IF r.kind = "provider"
     THEN call[i].req.version = r.version
     ELSE call[i].req.rows = r.rows /\ call[i].req.owner = r.owner

Duplicates(r) == {i \in Import : DuplicateOf(i, r)}

\* find_daily_batch, after the StateConflictError of a repeated file.
FindDailyBatch(r) ==
  {i \in Import : /\ Same(i, r)
                  /\ call[i].req.owner = r.owner
                  /\ call[i].req.rows = r.rows}

\* What a repetition is answered with: a file is refused unless the caller
\* asked to reuse its batch.
Repeated(r) ==
  IF r.kind # "file" THEN Duplicates(r) ELSE IF r.reuse THEN FindDailyBatch(r) ELSE {NoBatch}

Open(i) == call[i].pc \in {"read", "commit"}

\* A call arrives and looks for its source and for an earlier batch.
Call(i) ==
  /\ call[i].pc = "idle"
  /\ "overlap" \in env \/ \A j \in Import : ~Open(j)
  /\ \E r \in Requests :
       \/ /\ Duplicates(r) = {}
          /\ call' = [call EXCEPT ![i].pc = "read", ![i].req = r,
                                  ![i].seen.source = SourceOf(r.kind) \in sources]
       \/ /\ Duplicates(r) # {}
          /\ \E found \in Repeated(r) :
               call' = [call EXCEPT ![i].pc = "done", ![i].req = r, ![i].answer = found]
  /\ UNCHANGED <<batch, bars, securities, calendar, sources, env>>

\* The SELECTs of securities and of the calendar row.
ReadMaster(i) ==
  /\ call[i].pc = "read"
  /\ call' = [call EXCEPT ![i].pc = "commit",
       ![i].seen = [source |-> call[i].seen.source,
                    securities |-> {s \in Security : securities[s] # "none"},
                    calendar |-> calendar]]
  /\ UNCHANGED <<batch, bars, securities, calendar, sources, env>>

----------------------------------------------------------------------------
(* The verdict on a document.                                              *)

\* metadata_errors: a bar without listing date or board.
Unlisted(r) == r.kind = "provider" /\ ~(r.rows \subseteq r.master)

\* Returned before anything but the batch row is written.
BlockedEarly(r) == r.kind = "register" \/ r.verdict = "blocking" \/ Unlisted(r)

\* A status row of a security without a bar: undated, or of a security that
\* is neither known nor listed.  Found when the bars are written already.
BadExtra(r, seen) ==
  {s \in r.extra : ~r.dated \/ (s \notin seen.securities /\ s \notin r.master)}
BlockedLate(r, seen) == ~BlockedEarly(r) /\ BadExtra(r, seen) # {}

StatusOf(r, seen) ==
  CASE r.kind = "register" -> "VALIDATING"
    [] r.kind # "register" /\ (BlockedEarly(r) \/ BlockedLate(r, seen)) -> "UNAVAILABLE"
    [] ~BlockedEarly(r) /\ ~BlockedLate(r, seen) ->
         IF r.verdict = "warning" THEN "WARNING_AVAILABLE" ELSE "AVAILABLE"

\* data_batch.status is a String(16): the longer name does not fit.
TooWide(r) == "postgresql" \in env /\ r.verdict = "warning" /\ r.kind = "provider"

----------------------------------------------------------------------------
(* Writes.                                                                 *)

BarsOf(r) == IF BlockedEarly(r) THEN {} ELSE r.rows

\* Securities a call inserts or rewrites, and those it inserts.
Named(r) ==
  IF BlockedEarly(r) THEN {}
  ELSE r.rows \cup {s \in r.extra : r.dated /\ s \in r.master}
InsertedUnlooked(r, seen) == Named(r)
Inserted(r, seen) == Named(r) \ seen.securities

\* A file invents the list_date of a security it inserts and leaves others
\* alone; a provider's master row gives it, and replaces what is there.
ListingDate(r, seen, s) ==
  IF r.kind = "provider" THEN "evidenced"
  ELSE IF s \in seen.securities THEN securities[s] ELSE "assumed"

MasterAfter(r, seen) ==
  [s \in Security |-> IF s \in Named(r) THEN ListingDate(r, seen, s) ELSE securities[s]]

WritesCalendar(r) == r.kind = "provider" /\ ~BlockedEarly(r)

\* IntegrityError (or a value too long): some row this transaction inserts
\* was committed by another one after it looked.
VersionUnchecked(r) == FALSE
VersionTaken(r) == \E j \in Import : Same(j, r) /\ call[j].req.version = r.version
SecurityUnchecked(r, seen) == FALSE
SecurityTaken(r, seen) == \E s \in Inserted(r, seen) : securities[s] # "none"
Conflict(r, seen) ==
  \/ VersionTaken(r)
  \/ SecurityTaken(r, seen)
  \/ ~seen.source /\ SourceOf(r.kind) \in sources
  \/ WritesCalendar(r) /\ ~seen.calendar /\ calendar
  \/ TooWide(r)

RolledBack(i) ==
  /\ call' = [call EXCEPT ![i].pc = "done"]
  /\ UNCHANGED <<batch, bars, securities, calendar, sources>>

Written(i) ==
  LET r == call[i].req
      seen == call[i].seen
  IN
  /\ call' = [call EXCEPT ![i].pc = "done", ![i].answer = i]
  /\ batch' = [batch EXCEPT ![i] = StatusOf(r, seen)]
  /\ bars' = [bars EXCEPT ![i] = BarsOf(r)]
  /\ securities' = MasterAfter(r, seen)
  /\ calendar' = (calendar \/ WritesCalendar(r))
  /\ sources' = sources \cup {SourceOf(r.kind)}

Commit(i) ==
  /\ call[i].pc = "commit"
  /\ IF Conflict(call[i].req, call[i].seen) THEN RolledBack(i) ELSE Written(i)
  /\ UNCHANGED env

Finished == (\A i \in Import : call[i].pc = "done") /\ UNCHANGED vars

Next ==
  \/ \E i \in Import :
       \/ Call(i)
       \/ ReadMaster(i)
       \/ Commit(i)
  \/ Finished

Spec == Init /\ [][Next]_vars

----------------------------------------------------------------------------
DataTypeOK ==
  /\ call \in [Import -> [pc : {"idle", "read", "commit", "done"}, req : Request,
                          seen : Seen, answer : Import \cup {NoBatch}]]
  /\ batch \in [Import -> BatchStatus]
  /\ bars \in [Import -> SUBSET Security]
  /\ securities \in [Security -> {"none", "assumed", "evidenced"}]
  /\ calendar \in BOOLEAN
  /\ sources \subseteq {"file", "provider"}
  /\ env \in Environments

\* list_daily_bars joins the bars with the batches in a usable status.
Served(i) == IF batch[i] \in Usable THEN bars[i] ELSE {}

\* research.py:394, "this path never invents listing dates": a security a
\* provider batch serves has a listing date a provider gave, although files
\* imported before, between and after invent one.
ServedIsEvidenced ==
  \A i \in Import : \A s \in Served(i) :
    call[i].req.kind = "provider" => securities[s] = "evidenced"

\* research.py:291, "this market-data file has already been imported": an
\* owner has one batch per content.  The check is a SELECT; of two imports
\* that overlap the version stops the second, unless it was given a name.
OneBatchPerContent ==
  ~({"overlap", "label"} \subseteq env) =>
    \A i, j \in Import :
      /\ Stored(i) /\ Stored(j)
      /\ Same(i, call[j].req)
      /\ call[i].req.owner = call[j].req.owner
      /\ call[i].req.rows = call[j].req.rows
      => i = j

\* An import that shares its source, its securities or its date with earlier
\* ones of other content is not in their way: with nobody beside it, a call
\* ends without a batch only if its content is stored, by its caller or by
\* another user (whose version the unique constraint compares, and no
\* lookup).
OnlyRepetitionIsRefused ==
  env \cap {"overlap", "label", "postgresql"} = {} =>
    \A i \in Import : call[i].pc = "done" /\ call[i].answer = NoBatch =>
      \E j \in Import :
        Same(j, call[i].req) /\ call[j].req.rows = call[i].req.rows

\* A call is answered with a batch of its caller: the only batches
\* list_batches and get_batch_quality show him.  The provider's lookup leaves
\* the owner out, so that two administrators share the first one's batch.
AnswerIsOwn ==
  \A i \in Import :
    LET found == call[i].answer IN
    found # NoBatch /\ (call[i].req.kind # "provider" \/ "owners" \notin env) =>
      /\ Stored(found)
      /\ call[found].req.owner = call[i].req.owner
      /\ call[found].req.rows = call[i].req.rows

\* operations.md:70, warnings "yield WARNING_AVAILABLE and do not replace,
\* repair, or block a complete Tushare batch": with nobody in its way, a
\* complete provider import with warnings is stored.
WarningsDoNotBlock ==
  \A i \in Import :
    LET r == call[i].req IN
    /\ "overlap" \notin env
    /\ call[i].pc = "done" /\ r.kind = "provider" /\ r.verdict = "warning"
    /\ r.rows \subseteq r.master /\ r.extra = {}
    => call[i].answer # NoBatch
============================================================================
