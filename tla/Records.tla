------------------------------ MODULE Records ------------------------------
(***************************************************************************)
(* What one virtual EGM leaves on disk (runtime/logger.go, storage/): the  *)
(* event log events.jsonl, its SQLite index, and one file per captured     *)
(* request or response in payloads/; and how the latest evidence and the   *)
(* index's time windows are read back.  The files outlive the process.     *)
(***************************************************************************)
EXTENDS Naturals, Sequences, SequencesExt

VARIABLES
    events,     \* the lines of events.jsonl
    index,      \* the rows of event_index
    payloads,   \* the payload files, in the order of their modification times
    fileOpen,   \* l.eventFile of the running process is open
    indexOpen,  \* the database handle of the running process is open
    bundle      \* lengths of events and payloads when the last export was made

recordVars == <<events, index, payloads, fileOpen, indexOpen, bundle>>

RecordsInit ==
    /\ events = <<>> /\ index = <<>> /\ payloads = <<>>
    /\ fileOpen = TRUE /\ indexOpen = TRUE
    /\ bundle = <<0, 0>>

-----------------------------------------------------------------------------
(* Log: the line and the row are written in one section of l.mu, each only *)
(* while its handle is open; the errors are dropped.  A write that fails   *)
(* although the file is open (a full disk) is left out.                    *)
Log(e) ==
    /\ events' = IF fileOpen THEN Append(events, e) ELSE events
    /\ index' = IF indexOpen THEN Append(index, e) ELSE index
    /\ UNCHANGED <<payloads, fileOpen, indexOpen, bundle>>

(* The process is killed between the two writes of Log.                    *)
LogTorn(e) ==
    /\ fileOpen
    /\ events' = Append(events, e)
    /\ UNCHANGED <<index, payloads, fileOpen, indexOpen, bundle>>

WritePayload(direction, type, exchange) ==
    /\ payloads' = Append(payloads, [dir |-> direction, type |-> type, exchange |-> exchange])
    /\ UNCHANGED <<events, index, fileOpen, indexOpen, bundle>>

(* ExportBundle holds l.mu while it reads the log and lists payloads/, so  *)
(* no event is written in between.                                         *)
ExportBundle ==
    /\ bundle' = <<Len(events), Len(payloads)>>
    /\ UNCHANGED <<events, index, payloads, fileOpen, indexOpen>>

(* Close: the index first, then the file; it does not take l.mu.           *)
CloseIndex ==
    /\ indexOpen' = FALSE
    /\ UNCHANGED <<events, index, payloads, fileOpen, bundle>>

CloseFile ==
    /\ fileOpen' = FALSE
    /\ UNCHANGED <<events, index, payloads, indexOpen, bundle>>

(* NewLoggerWithIndex appends to what is there.                            *)
OpenRecords ==
    /\ fileOpen' = TRUE /\ indexOpen' = TRUE
    /\ UNCHANGED <<events, index, payloads, bundle>>

-----------------------------------------------------------------------------
(* GET /control/evidence/latest.  A payload is named by its position, 0 is *)
(* the empty payload.                                                      *)
latestPayload(direction) ==
    Max({0} \cup {k \in DOMAIN payloads : payloads[k].dir = direction})

latestPayloadForMessageType(direction, type) ==
    Max({0} \cup {k \in DOMAIN payloads : payloads[k].dir = direction /\ payloads[k].type = type})

FirstOf(k, l) == IF k # 0 THEN k ELSE l

pairedLatestResponse(request) ==
    LET fallback == FirstOf(latestPayload("outbound_response"), latestPayload("inbound_response"))
        matched(direction) == IF request = 0 THEN 0
                              ELSE latestPayloadForMessageType(direction, payloads[request].type)
    IN  FirstOf(matched("outbound_response"), FirstOf(matched("inbound_response"), fallback))

(* Mutant of Warned: the age is not looked at (annotatePairingAge).        *)
WarnedOfType(request, response) == payloads[request].type # payloads[response].type

(* pairing.Warning is not empty: other type, or older than the request.    *)
Warned(request, response) ==
    \/ payloads[request].type # payloads[response].type
    \/ response < request

-----------------------------------------------------------------------------
(* SQLiteIndex keeps and compares times as RFC3339Nano text.  There are    *)
(* four times to the second, so a fraction is two binary digits; the text  *)
(* drops the fraction's trailing zeros and ends in "Z", which sorts after  *)
(* "." and after every digit.  The query is the storage package's own: no  *)
(* handler of the runtime calls it.                                        *)
Zulu == 2

TimeText(t) ==
    <<t \div 4>> \o (IF t % 4 = 0 THEN <<>> ELSE IF t % 4 = 2 THEN <<1>> ELSE <<(t % 4) \div 2, t % 2>>)
                 \o <<Zulu>>

TextLess(a, b) ==
    \E k \in DOMAIN a \cap DOMAIN b : a[k] < b[k] /\ \A j \in 1..(k - 1) : a[j] = b[j]

(* The rows a query of the index selects by Since and Until.               *)
InIndexWindow(t, since, until) ==
    /\ ~TextLess(TimeText(t), TimeText(since))
    /\ ~TextLess(TimeText(until), TimeText(t))

(* matchesEventFilter on the log's own times.                              *)
InLogWindow(t, since, until) == since <= t /\ t <= until

(* One time's fraction is the beginning of the other's.                    *)
Shortened(t, u) ==
    LET a == Front(TimeText(t))
        b == Front(TimeText(u))
    IN  t # u /\ (IsPrefix(a, b) \/ IsPrefix(b, a))
=============================================================================
