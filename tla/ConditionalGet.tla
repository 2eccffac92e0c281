--------------------------- MODULE ConditionalGet ---------------------------
(***************************************************************************)
(* WriteJSON and the clients that revalidate what they have. An answer has *)
(* an ETag, a hash of its body, and a Last-Modified in whole seconds: the  *)
(* current time for most endpoints, the time of the latest probe shown for *)
(* the supernodes. A client keeps its last answer and sends back one or    *)
(* both headers; a 304 tells it to keep the body and gives new headers.    *)
(* Between reading the database and answering, time passes. The time of a  *)
(* probe is taken before the probe is stored, and several probers (a loop, *)
(* a manual run, another replica) store their probes in any order.         *)
(***************************************************************************)
EXTENDS Integers

CONSTANTS
  Rows,       \* supernodes
  Contents,   \* values of the columns that no probe writes
  PerSecond,  \* instants in a second
  MaxNow      \* bound: the last instant

ASSUME ConditionalGetAssumption ==
  /\ Rows \cap {"now", "list"} = {}
  /\ PerSecond \in Nat \ {0} /\ MaxNow \in Nat \ {0}

VARIABLES
  now,      \* the clock, in instants
  content,  \* what is not about probes
  check,    \* lastStatusCheck of each row, 0 if it was never probed
  target,   \* what is requested: "now", "list" or a row
  headers,  \* the headers the client sends back
  handler,  \* the handler: "idle", "reading"
  read,     \* what it read
  copy,     \* what the client has
  answered  \* when it got it

getVars == <<now, content, check, target, headers, handler, read, copy, answered>>

request == <<target, headers>>

NoBody == [content |-> "none"]

NoCopy == [body |-> NoBody, etag |-> NoBody, lm |-> 0]

\* Targets "now": the endpoints that answer with the current time. "list" is
\* GET /v1/supernodes/metrics without a filter, on one page; a row is that of
\* GET /v1/supernodes/{id}/metrics.
Targets == {"now", "list"} \cup Rows

GetInit ==
  /\ now = 1 /\ content \in Contents /\ check = [r \in Rows |-> 0]
  /\ target \in Targets
  /\ headers \in SUBSET {"If-None-Match", "If-Modified-Since"} \ {{}}
  /\ handler = "idle" /\ read = NoBody
  /\ copy = NoCopy /\ answered = 0

-----------------------------------------------------------------------------
(* What happens beside the handler.                                        *)

Tick ==
  /\ now < MaxNow /\ now' = now + 1
  /\ UNCHANGED <<content, check, request, handler, read, copy, answered>>

\* The sync writes.
Sync(c) ==
  /\ c # content /\ content' = c
  /\ UNCHANGED <<now, check, request, handler, read, copy, answered>>

\* A probe of the row is stored, whatever the time of the one it replaces.
Probe(r, t) ==
  /\ t <= now
  /\ check' = [check EXCEPT ![r] = t]
  /\ UNCHANGED <<now, content, request, handler, read, copy, answered>>

-----------------------------------------------------------------------------
(* The handler.                                                            *)

Shown == IF target \in Rows THEN {target} ELSE Rows

\* The body, and with it its ETag.
Body == [content |-> content, check |-> [r \in Shown |-> check[r]]]

\* The client's next request, later than its last answer: the query.
Read ==
  /\ handler = "idle" /\ now > answered
  /\ handler' = "reading" /\ read' = Body
  /\ UNCHANGED <<now, content, check, request, copy, answered>>

\* Mutant: the comparison of the times is the other way round.
Latest_Earliest(c) ==
  CHOOSE t \in {c[r] : r \in DOMAIN c} : \A r \in DOMAIN c : t <= c[r]

\* The latest of the checks, 0 without any.
Latest(c) ==
  CHOOSE t \in {c[r] : r \in DOMAIN c} \cup {0} : \A r \in DOMAIN c : c[r] <= t

\* The latest check shown; without one, and for "now", the current time.
LastModified ==
  IF target = "now" \/ Latest(read.check) = 0 THEN now ELSE Latest(read.check)

\* Mutant: http.TimeFormat rounds up.
Seconds_Up(t) == (t + PerSecond - 1) \div PerSecond

\* http.TimeFormat has no fractions of a second.
Seconds(t) == t \div PerSecond

\* Mutant: both times are compared as they are sent.
NotModified_Seconds ==
  /\ copy # NoCopy
  /\ \/ "If-None-Match" \in headers /\ copy.etag = read
     \/ "If-Modified-Since" \in headers /\ Seconds(LastModified) <= copy.lm

\* Either header may match; lastModified still has its fraction.
NotModified ==
  /\ copy # NoCopy
  /\ \/ "If-None-Match" \in headers /\ copy.etag = read
     \/ "If-Modified-Since" \in headers /\ LastModified <= copy.lm * PerSecond

\* 304 without a body, or the body; the headers are set in both cases.
WriteJSON ==
  /\ handler = "reading" /\ handler' = "idle" /\ answered' = now
  /\ copy' = [body |-> IF NotModified THEN copy.body ELSE read,
              etag |-> read, lm |-> Seconds(LastModified)]
  /\ UNCHANGED <<now, content, check, request, read>>

GetNext ==
  \/ Tick \/ \E c \in Contents : Sync(c)
  \/ \E r \in Rows : \E t \in 1..now : Probe(r, t)
  \/ Read \/ WriteJSON

GetSpec == GetInit /\ [][GetNext]_getVars

-----------------------------------------------------------------------------
(* Properties.                                                             *)

Bodies == [content : Contents, check : [Shown -> 0..now]]

\* Every variable has its type; nothing was checked, answered or modified later
\* than now.
GetTypeOK ==
  /\ now \in 1..MaxNow /\ content \in Contents
  /\ check \in [Rows -> 0..now]
  /\ target \in Targets
  /\ headers \subseteq {"If-None-Match", "If-Modified-Since"}
  /\ handler \in {"idle", "reading"}
  /\ read = NoBody \/ read \in Bodies
  /\ answered \in 0..now
  /\ \/ copy = NoCopy
     \/ /\ copy.body \in Bodies /\ copy.etag \in Bodies
        /\ copy.lm \in Nat /\ copy.lm * PerSecond <= answered

Revalidated == handler = "idle" /\ copy # NoCopy

\* A client that sends If-None-Match alone, or asks an endpoint whose
\* Last-Modified is the current time, has after every answer what the handler
\* read, also when the data changes within a second, or changes back.
Fresh ==
  Revalidated /\ (target = "now" \/ headers = {"If-None-Match"}) =>
    copy.body = read

\* A client that shows a probe never shows one from before the latest that the
\* handler read. (It may show a later one: another prober has put an older probe
\* in its place. One that was shown no probe may miss a first one: next property.)
ProbeNeverOlder ==
  Revalidated /\ target # "now" /\ Latest(copy.body.check) # 0 =>
    Latest(read.check) <= Latest(copy.body.check)

\* No 304 hides a probe later than the client's last answer, also when it shares
\* its second with that answer, and also from a client that was shown no probe yet,
\* whose Last-Modified is the time of its answer. (One from before that answer
\* that is stored after it may be hidden.)
LaterProbeShown ==
  [][answered' # answered /\ copy'.body # read =>
       \A r \in Shown : read.check[r] <= answered]_getVars
=============================================================================
