------------------------ MODULE ConditionalGetProofs ------------------------
(***************************************************************************)
(* What clients that revalidate keep, for any rows, any number of instants *)
(* in a second and any length of the behaviour.                            *)
(***************************************************************************)
EXTENDS ConditionalGet, PagingProofs

\* While a request is served, what it read is a body.
BodyOK == handler = "reading" => read \in Bodies

\* The types, for every variable that is in use.
TypeInv == GetTypeOK /\ BodyOK

-----------------------------------------------------------------------------
(* Times.                                                                  *)

\* A time without its fraction of a second is no later.
LEMMA SecondsBelow ==
  ASSUME NEW t \in Nat
  PROVE  Seconds(t) \in Nat /\ Seconds(t) * PerSecond <= t
  BY ConditionalGetAssumption DEF Seconds

\* No check is later than the latest one, which is 0 only without any.
LEMMA LatestIs ==
  ASSUME NEW n \in Nat, NEW D, NEW c \in [D -> 0..n]
  PROVE  /\ Latest(c) \in 0..n
         /\ \A r \in D : c[r] <= Latest(c)
         /\ Latest(c) # 0 <=> \E r \in D : c[r] # 0
<1> DEFINE S == {c[r] : r \in DOMAIN c} \cup {0}
           T == {n - t : t \in S}
<1>1. S \subseteq 0..n /\ 0 \in S
  OBVIOUS
<1>2. T \in SUBSET Nat /\ T # {}
  BY <1>1
<1>3. PICK a \in T : \A b \in T : a <= b
  <2> HIDE DEF T
  <2> QED  BY <1>2, LeastElement
<1>4. PICK m \in S : a = n - m
  OBVIOUS
<1>5. \A t \in S : t <= m
  <2> SUFFICES ASSUME NEW t \in S  PROVE t <= m
    OBVIOUS
  <2>1. n - m <= n - t
    BY <1>3, <1>4
  <2>2. t \in 0..n /\ m \in 0..n
    BY <1>1
  <2> QED  BY <2>1, <2>2
<1>6. \E t \in S : \A r \in DOMAIN c : c[r] <= t
  BY <1>5
<1>7. Latest(c) \in S /\ \A r \in D : c[r] <= Latest(c)
  BY <1>6 DEF Latest
<1>8. Latest(c) # 0 => \E r \in D : c[r] # 0
  BY <1>7
<1>9. ASSUME NEW r \in D, c[r] # 0  PROVE Latest(c) # 0
  BY <1>7, <1>9
<1> QED  BY <1>1, <1>7, <1>8, <1>9

-----------------------------------------------------------------------------
(* Types.                                                                  *)

\* The clock does not take a value back.
LEMMA BodiesGrow ==
  ASSUME now \in Nat, now' \in Nat, now <= now', UNCHANGED target
  PROVE  Bodies \subseteq Bodies'
<1>1. 0..now \subseteq 0..now' /\ Shown' = Shown
  BY DEF Shown
<1>2. [Shown -> 0..now] \subseteq [Shown -> 0..now']
  BY <1>1
<1> QED  BY <1>1, <1>2 DEF Bodies

\* The answer that is sent has its type.
LEMMA AnswerType ==
  ASSUME TypeInv, WriteJSON
  PROVE  /\ copy'.body \in Bodies /\ copy'.etag \in Bodies
         /\ copy'.lm \in Nat /\ copy'.lm * PerSecond <= now
<1>1. /\ read \in Bodies /\ now \in Nat
      /\ copy' = [body |-> IF NotModified THEN copy.body ELSE read,
                  etag |-> read, lm |-> Seconds(LastModified)]
  BY DEF WriteJSON, TypeInv, BodyOK, GetTypeOK
<1>2. copy'.body \in Bodies
  BY <1>1 DEF NotModified, TypeInv, GetTypeOK
<1>3. Latest(read.check) \in 0..now
  BY <1>1, LatestIs DEF Bodies
<1>4. LastModified \in Nat /\ LastModified <= now
  BY <1>1, <1>3 DEF LastModified
<1>5. Seconds(LastModified) \in Nat /\ Seconds(LastModified) * PerSecond <= LastModified
  BY <1>4, SecondsBelow
<1>6. Seconds(LastModified) * PerSecond \in Int
  BY <1>5, ConditionalGetAssumption
<1> QED  BY <1>1, <1>2, <1>4, <1>5, <1>6

\* Every action keeps the types.
LEMMA TypeStep == TypeInv /\ [GetNext]_getVars => TypeInv'
<1> SUFFICES ASSUME TypeInv, [GetNext]_getVars  PROVE TypeInv'
  OBVIOUS
<1>0. /\ now \in 1..MaxNow /\ now \in Nat /\ answered \in Nat /\ answered <= now
      /\ MaxNow \in Nat /\ check \in [Rows -> 0..now]
  BY ConditionalGetAssumption DEF TypeInv, GetTypeOK
<1>1. CASE Tick
  <2>1. /\ now' \in 1..MaxNow /\ now <= now' /\ now' \in Nat
        /\ UNCHANGED <<content, check, target, headers, handler, read, copy, answered>>
    BY <1>0, <1>1 DEF Tick, request
  <2>2. Bodies \subseteq Bodies' /\ 0..now \subseteq 0..now'
    BY <1>0, <2>1, BodiesGrow
  <2>3. check' \in [Rows -> 0..now'] /\ answered' \in 0..now'
    BY <1>0, <2>1, <2>2
  <2> QED  BY <2>1, <2>2, <2>3 DEF TypeInv, GetTypeOK, BodyOK
<1>2. ASSUME NEW c \in Contents, Sync(c)  PROVE TypeInv'
  <2>1. /\ content' = c
        /\ UNCHANGED <<now, check, target, headers, handler, read, copy, answered>>
    BY <1>2 DEF Sync, request
  <2>2. Bodies' = Bodies
    BY <2>1 DEF Bodies, Shown
  <2> QED  BY <2>1, <2>2 DEF TypeInv, GetTypeOK, BodyOK
<1>3. ASSUME NEW r \in Rows, NEW t \in 1..now, Probe(r, t)  PROVE TypeInv'
  <2>1. /\ check' = [check EXCEPT ![r] = t]
        /\ UNCHANGED <<now, content, target, headers, handler, read, copy, answered>>
    BY <1>3 DEF Probe, request
  <2>2. Bodies' = Bodies
    BY <2>1 DEF Bodies, Shown
  <2>3. check' \in [Rows -> 0..now]
    BY <1>0, <2>1
  <2> QED  BY <2>1, <2>2, <2>3 DEF TypeInv, GetTypeOK, BodyOK
<1>4. CASE Read
  <2>1. /\ handler' = "reading" /\ read' = Body
        /\ UNCHANGED <<now, content, check, target, headers, copy, answered>>
    BY <1>4 DEF Read, request
  <2>2. Bodies' = Bodies
    BY <2>1 DEF Bodies, Shown
  <2>3. Body \in Bodies
    <3>1. Shown \subseteq Rows /\ content \in Contents
      BY DEF Shown, TypeInv, GetTypeOK
    <3>2. [r \in Shown |-> check[r]] \in [Shown -> 0..now]
      BY <1>0, <3>1
    <3> QED  BY <3>1, <3>2 DEF Body, Bodies
  <2> QED  BY <2>1, <2>2, <2>3 DEF TypeInv, GetTypeOK, BodyOK
<1>5. CASE WriteJSON
  <2>1. /\ handler' = "idle" /\ answered' = now
        /\ UNCHANGED <<now, content, check, target, headers, read>>
    BY <1>5 DEF WriteJSON, request
  <2>2. Bodies' = Bodies
    BY <2>1 DEF Bodies, Shown
  <2>3. /\ copy'.body \in Bodies' /\ copy'.etag \in Bodies'
        /\ copy'.lm \in Nat /\ copy'.lm * PerSecond <= answered'
    BY <1>5, <2>1, <2>2, AnswerType
  <2> QED  BY <1>0, <2>1, <2>2, <2>3 DEF TypeInv, GetTypeOK, BodyOK
<1>6. CASE UNCHANGED getVars
  <2>1. UNCHANGED <<now, content, check, target, headers, handler, read, copy, answered>>
    BY <1>6 DEF getVars
  <2>2. Bodies' = Bodies
    BY <2>1 DEF Bodies, Shown
  <2> QED  BY <2>1, <2>2 DEF TypeInv, GetTypeOK, BodyOK
<1> QED  BY <1>1, <1>2, <1>3, <1>4, <1>5, <1>6 DEF GetNext

\* Nobody has asked yet.
LEMMA TypeInit == GetInit => TypeInv
  BY ConditionalGetAssumption DEF GetInit, TypeInv, GetTypeOK, BodyOK

\* Every variable keeps its type; nothing is checked, answered or modified
\* later than now.
THEOREM GetTypeCorrect == GetSpec => []GetTypeOK
<1>1. TypeInv => GetTypeOK
  BY DEF TypeInv
<1> QED  BY <1>1, TypeInit, TypeStep, PTL DEF GetSpec

-----------------------------------------------------------------------------
(* What the client has.                                                    *)

\* A request is later than the client's last answer.
RequestLater == handler = "reading" => answered < now

\* The ETag a client has is of the body read last, while none is being read,
\* and shows no probe later than the answer.
EtagOfRead ==
  copy # NoCopy =>
    /\ handler = "idle" => copy.etag = read
    /\ \A r \in Shown : copy.etag.check[r] <= answered

\* A client of Fresh has the body its ETag is of.
BodyOfEtag == target = "now" \/ headers = {"If-None-Match"} => copy.body = copy.etag

\* The rows a body shows as probed are so in the other one.
StillProbed(a, b) == \A r \in Shown : a.check[r] # 0 => b.check[r] # 0

\* A row once probed stays so: from the client's body to its ETag, to what is
\* being read, to the table. (The times may go back, but never to none.)
ProbedStays ==
  /\ handler = "reading" => StillProbed(read, Body)
  /\ copy # NoCopy =>
       /\ StillProbed(copy.body, copy.etag)
       /\ StillProbed(copy.etag, IF handler = "reading" THEN read ELSE Body)

\* The latest probe of the client's body is no earlier than that of its ETag,
\* and the Last-Modified no later than this one.
BodyNeverOlder ==
  target # "now" /\ copy # NoCopy =>
    /\ Latest(copy.body.check) # 0 =>
         Latest(copy.etag.check) <= Latest(copy.body.check)
    /\ Latest(copy.etag.check) # 0 =>
         copy.lm * PerSecond <= Latest(copy.etag.check)

\* What the theorems rest on.
IndInv ==
  TypeInv /\ RequestLater /\ EtagOfRead /\ BodyOfEtag /\ ProbedStays /\ BodyNeverOlder

-----------------------------------------------------------------------------
\* Nobody has asked yet.
LEMMA IndInvInit == GetInit => IndInv
  BY TypeInit DEF GetInit, IndInv, RequestLater, EtagOfRead, BodyOfEtag, ProbedStays,
                  BodyNeverOlder, NoCopy

\* Time passes, the sync writes, a probe is stored: no row gets back to none.
LEMMA OthersKeepInv ==
  ASSUME IndInv, TypeInv',
         \/ Tick \/ \E c \in Contents : Sync(c)
         \/ \E r \in Rows : \E t \in 1..now : Probe(r, t)
  PROVE  IndInv'
<1>1. /\ UNCHANGED <<target, headers, handler, read, copy, answered>>
      /\ now <= now' /\ \A r \in Rows : check[r] # 0 => check'[r] # 0
  <2>0. now \in Nat /\ check \in [Rows -> 0..now]
    BY DEF IndInv, TypeInv, GetTypeOK
  <2>1. CASE Tick
    BY <2>0, <2>1 DEF Tick, request
  <2>2. CASE \E c \in Contents : Sync(c)
    BY <2>0, <2>2 DEF Sync, request
  <2>3. CASE \E r \in Rows : \E t \in 1..now : Probe(r, t)
    <3>1. PICK r \in Rows, t \in 1..now : Probe(r, t)
      BY <2>3
    <3>2. t # 0
      BY <2>0
    <3> QED  BY <2>0, <3>1, <3>2 DEF Probe, request
  <2> QED  BY <2>1, <2>2, <2>3
<1>2. now \in Nat /\ now' \in Nat /\ answered \in Nat
  BY DEF IndInv, TypeInv, GetTypeOK
<1>3. RequestLater'
  BY <1>1, <1>2 DEF IndInv, RequestLater
<1>4. Shown' = Shown /\ Shown \subseteq Rows
  BY <1>1 DEF Shown
<1>5. EtagOfRead' /\ BodyOfEtag' /\ BodyNeverOlder'
  BY <1>1, <1>4 DEF IndInv, EtagOfRead, BodyOfEtag, BodyNeverOlder
<1>6. \A r \in Shown : Body.check[r] # 0 => Body'.check[r] # 0
  BY <1>1, <1>4 DEF Body
<1>7. ProbedStays'
  BY <1>1, <1>4, <1>6 DEF IndInv, ProbedStays, StillProbed
<1> QED  BY <1>3, <1>5, <1>7 DEF IndInv

\* The query: of what the table is now.
LEMMA ReadKeepsInv == ASSUME IndInv, TypeInv', Read  PROVE IndInv'
<1>0. /\ handler = "idle" /\ now > answered /\ handler' = "reading" /\ read' = Body
      /\ UNCHANGED <<now, content, check, target, headers, copy, answered>>
  BY DEF Read, request
<1>1. RequestLater'
  BY <1>0 DEF RequestLater, IndInv, TypeInv, GetTypeOK
<1>2. Shown' = Shown /\ Body' = Body
  BY <1>0 DEF Shown, Body
<1>3. EtagOfRead' /\ BodyOfEtag' /\ BodyNeverOlder'
  BY <1>0, <1>2 DEF IndInv, EtagOfRead, BodyOfEtag, BodyNeverOlder
<1>4. ProbedStays'
  BY <1>0, <1>2 DEF IndInv, ProbedStays, StillProbed
<1> QED  BY <1>1, <1>3, <1>4 DEF IndInv

\* What an answer may be, with the facts that the cases of a 304 rest on.
LEMMA AnswerIs ==
  ASSUME IndInv, WriteJSON
  PROVE  /\ handler' = "idle" /\ answered' = now
         /\ UNCHANGED <<now, content, check, target, headers, read>>
         /\ copy'.etag = read /\ copy'.lm = Seconds(LastModified)
         /\ copy'.body = IF NotModified THEN copy.body ELSE read
         /\ read \in Bodies /\ now \in Nat /\ answered \in Nat /\ answered < now
         /\ copy # NoCopy =>
              /\ copy.body \in Bodies /\ copy.etag \in Bodies
              /\ copy.lm * PerSecond \in Nat /\ copy.lm * PerSecond <= answered
  BY ConditionalGetAssumption DEF WriteJSON, request, IndInv, TypeInv, BodyOK,
     GetTypeOK, RequestLater

\* Every body has a latest check.
LEMMA LatestOf ==
  ASSUME now \in Nat, NEW b \in Bodies
  PROVE  /\ Latest(b.check) \in 0..now
         /\ \A r \in Shown : b.check[r] \in 0..now /\ b.check[r] <= Latest(b.check)
         /\ Latest(b.check) # 0 <=> \E r \in Shown : b.check[r] # 0
<1>1. b.check \in [Shown -> 0..now]
  BY DEF Bodies
<1> QED  BY <1>1, LatestIs

\* A 304 by the time comes only where no probe that was read is later than the
\* Last-Modified the client has.
LEMMA NotLater ==
  ASSUME IndInv, WriteJSON, copy # NoCopy, LastModified <= copy.lm * PerSecond
  PROVE  target # "now" /\ Latest(read.check) <= copy.lm * PerSecond
<1>1. LastModified # now
  BY AnswerIs
<1>2. target # "now" /\ LastModified = Latest(read.check)
  BY <1>1 DEF LastModified
<1> QED  BY <1>2

\* The answer, a 304 or the body.
LEMMA WriteJSONKeepsInv == ASSUME IndInv, TypeInv', WriteJSON  PROVE IndInv'
<1>1. Shown' = Shown /\ Body' = Body
  BY AnswerIs DEF Shown, Body
<1>2. RequestLater' /\ EtagOfRead'
  <2>1. \A r \in Shown : read.check[r] <= now
    BY AnswerIs, LatestOf
  <2> QED  BY AnswerIs, <1>1, <2>1 DEF RequestLater, EtagOfRead
<1>3. NotModified =>
        /\ copy # NoCopy
        /\ copy.etag = read \/ LastModified <= copy.lm * PerSecond
  BY DEF NotModified
<1>4. BodyOfEtag'
  <2> SUFFICES ASSUME target = "now" \/ headers = {"If-None-Match"}, NotModified
               PROVE  copy.body = read
    BY AnswerIs DEF BodyOfEtag
  <2>1. copy.etag = read
    BY <1>3, NotLater DEF NotModified
  <2> QED  BY <2>1 DEF IndInv, BodyOfEtag
<1>5. ProbedStays'
  <2>1. StillProbed(read, Body)
    BY DEF IndInv, ProbedStays, WriteJSON
  <2>2. NotModified => StillProbed(copy.body, read)
    BY <1>3 DEF IndInv, ProbedStays, StillProbed, WriteJSON
  <2>3. StillProbed(copy'.body, read)
    BY AnswerIs, <2>2 DEF StillProbed
  <2> QED  BY AnswerIs, <1>1, <2>1, <2>3 DEF ProbedStays, StillProbed
<1>6. BodyNeverOlder'
  <2> SUFFICES ASSUME target # "now"
               PROVE  /\ Latest(copy'.body.check) # 0 =>
                           Latest(read.check) <= Latest(copy'.body.check)
                      /\ Latest(read.check) # 0 =>
                           copy'.lm * PerSecond <= Latest(read.check)
    BY AnswerIs DEF BodyNeverOlder
  <2>0. Latest(read.check) \in 0..now
    BY AnswerIs, LatestOf
  <2>1. Latest(read.check) # 0 => copy'.lm * PerSecond <= Latest(read.check)
    BY AnswerIs, SecondsBelow, <2>0 DEF LastModified
  <2>2. ASSUME NotModified, Latest(copy.body.check) # 0
        PROVE  Latest(read.check) <= Latest(copy.body.check)
    <3>1. /\ copy # NoCopy
          /\ Latest(copy.etag.check) <= Latest(copy.body.check)
          /\ Latest(copy.etag.check) # 0 =>
               copy.lm * PerSecond <= Latest(copy.etag.check)
      BY <1>3, <2>2 DEF IndInv, BodyNeverOlder
    <3>2. CASE copy.etag = read
      BY <3>1, <3>2
    <3>3. CASE LastModified <= copy.lm * PerSecond
      <4>1. StillProbed(copy.body, copy.etag)
        BY <3>1 DEF IndInv, ProbedStays
      <4>2. Latest(copy.etag.check) # 0
        BY <2>2, <3>1, <4>1, AnswerIs, LatestOf DEF StillProbed
      <4>3. /\ Latest(copy.etag.check) \in 0..now /\ Latest(copy.body.check) \in 0..now
            /\ copy.lm * PerSecond \in Nat /\ now \in Nat
        BY <3>1, AnswerIs, LatestOf
      <4>4. Latest(read.check) <= copy.lm * PerSecond
        BY <3>1, <3>3, NotLater
      <4> QED  BY <2>0, <3>1, <4>2, <4>3, <4>4
    <3> QED  BY <1>3, <2>2, <3>2, <3>3
  <2> QED  BY AnswerIs, <2>0, <2>1, <2>2
<1> QED  BY <1>2, <1>4, <1>5, <1>6 DEF IndInv

\* One step per action of GetNext.
LEMMA IndInvStep == IndInv /\ [GetNext]_getVars => IndInv'
<1> SUFFICES ASSUME IndInv, [GetNext]_getVars  PROVE IndInv'
  OBVIOUS
<1>0. TypeInv'
  BY TypeStep DEF IndInv
<1>1. CASE UNCHANGED getVars
  <2>1. UNCHANGED <<now, content, check, target, headers, handler, read, copy, answered>>
    BY <1>1 DEF getVars
  <2>2. Shown' = Shown /\ Body' = Body
    BY <2>1 DEF Shown, Body
  <2> QED  BY <1>0, <2>1, <2>2 DEF IndInv, RequestLater, EtagOfRead, BodyOfEtag,
              ProbedStays, StillProbed, BodyNeverOlder
<1> QED
  BY <1>0, <1>1, OthersKeepInv, ReadKeepsInv, WriteJSONKeepsInv DEF GetNext

\* The strengthening holds throughout.
LEMMA Invariant == GetSpec => []IndInv
  BY IndInvInit, IndInvStep, PTL DEF GetSpec

-----------------------------------------------------------------------------
(* Theorems.                                                               *)

\* A client that revalidates by ETag, or where Last-Modified is the current
\* time, has after every answer what the handler read.
THEOREM FreshCorrect == GetSpec => []Fresh
<1>1. IndInv => Fresh
  BY DEF IndInv, EtagOfRead, BodyOfEtag, Fresh, Revalidated
<1> QED  BY <1>1, Invariant, PTL

\* A client that shows a probe shows none from before the latest that the
\* handler read, in whatever order the probes are stored.
THEOREM NeverOlderCorrect == GetSpec => []ProbeNeverOlder
<1>1. IndInv => ProbeNeverOlder
  BY DEF IndInv, EtagOfRead, BodyNeverOlder, ProbeNeverOlder, Revalidated
<1> QED  BY <1>1, Invariant, PTL

\* No 304 hides a probe later than the client's last answer, in whatever order
\* the probes are stored and however many instants share a second.
THEOREM LaterProbeCorrect == GetSpec => LaterProbeShown
<1> DEFINE A == answered' # answered /\ copy'.body # read =>
                  \A r \in Shown : read.check[r] <= answered
<1>1. IndInv /\ [GetNext]_getVars => [A]_getVars
  <2> SUFFICES ASSUME IndInv, GetNext, answered' # answered, copy'.body # read
               PROVE  \A r \in Shown : read.check[r] <= answered
    OBVIOUS
  <2>1. WriteJSON
    BY DEF GetNext, Tick, Sync, Probe, Read
  <2>2. NotModified
    BY <2>1, AnswerIs
  <2>3. copy # NoCopy
    BY <2>2 DEF NotModified
  <2>4. CASE copy.etag = read
    BY <2>3, <2>4 DEF IndInv, EtagOfRead
  <2>5. CASE LastModified <= copy.lm * PerSecond
    <3>1. Latest(read.check) <= copy.lm * PerSecond
      BY <2>1, <2>3, <2>5, NotLater
    <3>2. /\ read \in Bodies /\ now \in Nat /\ answered \in Nat
          /\ copy.lm * PerSecond \in Nat /\ copy.lm * PerSecond <= answered
      BY <2>1, <2>3, AnswerIs
    <3>3. Latest(read.check) <= answered /\ Latest(read.check) \in Nat
      BY <3>1, <3>2, LatestOf
    <3> QED  BY <3>2, <3>3, LatestOf
  <2> QED  BY <2>2, <2>4, <2>5 DEF NotModified
<1> QED  BY <1>1, Invariant, PTL DEF GetSpec, LaterProbeShown
=============================================================================
