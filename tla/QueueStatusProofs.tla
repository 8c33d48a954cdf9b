------------------------- MODULE QueueStatusProofs -------------------------
(* The snapshot follows the queue (StatusFollows). A field that no step has     *)
(* changed in silence is followed: an event that waits or that a script is sure *)
(* to publish, a read that a script is sure to make, or a computation that has  *)
(* read it as it is will set the snapshot right; or the snapshot is right, and  *)
(* no computation will make it wrong without being known as overtaken.         *)
EXTENDS QueueStatus, SequenceTheorems, TLAPS

Labels ==
    Fields \cup {"show", "event", "isOpen", "offer", "isDraining", "noPending", "noInFlight",
                 "off", "take", "latch", "begin", "run", "complete", "end", "close", "open",
                 "pause", "unpause", "drain", "zero", "draining", "shut", "discard", "extract",
                 "restore"}

(* What comes next in every script, for the labels that depend on it.          *)
Later == {"paused", "inFlight", "completed", "phase", "show"}
Closing == {"noPending", "noInFlight", "off"}
Inner == Later \cup Closing
Joined == Fields \cup {"isDraining", "noPending", "noInFlight"}
Succ ==
    [l \in Joined \cup {"complete", "zero", "offer", "drain", "pause", "unpause",
                        "draining", "shut"} |->
        IF l = "pending" THEN "paused" ELSE IF l = "paused" THEN "inFlight"
        ELSE IF l = "inFlight" THEN "completed" ELSE IF l = "completed" THEN "phase"
        ELSE IF l = "phase" THEN "show" ELSE IF l = "drain" THEN "zero"
        ELSE IF l = "draining" THEN "shut" ELSE IF l = "isDraining" THEN "noPending"
        ELSE IF l = "noPending" THEN "noInFlight" ELSE IF l = "noInFlight" THEN "off"
        ELSE IF l \in {"pause", "unpause"} THEN "pending" ELSE "event"]

Chained(s) ==
    \A n \in 1..Len(s) :
        /\ s[n] \in DOMAIN Succ => n < Len(s) /\ s[n + 1] = Succ[s[n]]
        /\ n > 1 /\ s[n] \in Inner => s[n - 1] \in Joined /\ Succ[s[n - 1]] = s[n]
Opens(s) == s = <<>> \/ Head(s) \notin Inner
NotReading(s) == s = <<>> \/ Head(s) \notin Later
Whole(s) == s \in Seq(Labels) /\ Chained(s) /\ Opens(s)

(* A computation has read the fields before its label.                        *)
ReadSoFar(f) ==
    \/ NotReading(script[f]) /\ view[f] = NoView
    \/ At(f, "paused") /\ DOMAIN view[f] = {"pending"}
    \/ At(f, "inFlight") /\ DOMAIN view[f] = {"pending", "paused"}
    \/ At(f, "completed") /\ DOMAIN view[f] = {"pending", "paused", "inFlight"}
    \/ At(f, "phase") /\ DOMAIN view[f] = {"pending", "paused", "inFlight", "completed"}
    \/ At(f, "show") /\ DOMAIN view[f] = Fields

NowTyped ==
    /\ DOMAIN now = Fields /\ now["pending"] \in Nat
    /\ now["phase"] \in {"running", "draining", "off"}
(* Who finalizes a shutdown has seen that there is one.                       *)
InTurn(s) == s = <<>> \/ Head(s) \notin Closing \/ now["phase"] # "running"
Typed ==
    /\ NowTyped /\ hub \in Nat
    /\ DOMAIN script = Fibers /\ DOMAIN view = Fibers
    /\ \A f \in Fibers : script[f] \in Seq(Labels) /\ Chained(script[f]) /\ ReadSoFar(f) /\ InTurn(script[f])

(* Labels at which a script may wait for long or end early.                    *)
Forks ==
    {"take", "latch", "run", "isOpen", "isDraining", "noPending", "noInFlight", "off",
     "draining", "extract"}
(* Labels that set the field right, or put it among the unsaid.                *)
Announces(field) == {"event", field} \cup (IF field = "pending" THEN {"restore"} ELSE {})
Sure(s, field) ==
    \E n \in 1..Len(s) : s[n] \in Announces(field) /\ \A m \in 1..n : s[m] \notin Forks

Right(f, field) == field \in DOMAIN view[f] => view[f][field] = now[field]
Fresh(field) ==
    /\ outdated \/ status[field] = now[field]
    /\ \A f \in Fibers : f \in overtaken \/ Right(f, field)
Followed(field) ==
    \/ hub > 0
    \/ \E f \in Fibers : Sure(script[f], field)
    \/ \E f \in Fibers : field \in DOMAIN view[f] /\ view[f][field] = now[field]
    \/ Fresh(field)

IInv == Typed /\ \A field \in Fields \ unsaid : Followed(field)

----------------------------------------------------------------------------
(* Sequences of labels.                                                      *)

LEMMA TailChained ==
    ASSUME NEW s \in Seq(Labels), s # <<>>, Chained(s)
    PROVE  /\ Tail(s) \in Seq(Labels) /\ Chained(Tail(s))
           /\ Head(s) \notin Joined => Opens(Tail(s))
           /\ Head(s) \in DOMAIN Succ => Tail(s) # <<>> /\ Head(Tail(s)) = Succ[Head(s)]
  <1>1. /\ Len(s) \in Nat \ {0} /\ Len(Tail(s)) = Len(s) - 1 /\ Tail(s) \in Seq(Labels)
        /\ Head(s) = s[1]
        /\ \A n \in 1..Len(Tail(s)) : Tail(s)[n] = s[n + 1]
    OBVIOUS
  <1>2. Chained(Tail(s))
    <2> SUFFICES ASSUME NEW n \in 1..Len(Tail(s))
                 PROVE  /\ Tail(s)[n] \in DOMAIN Succ =>
                             n < Len(Tail(s)) /\ Tail(s)[n + 1] = Succ[Tail(s)[n]]
                        /\ n > 1 /\ Tail(s)[n] \in Inner =>
                             Tail(s)[n - 1] \in Joined /\ Succ[Tail(s)[n - 1]] = Tail(s)[n]
      BY DEF Chained
    <2>1. n + 1 \in 1..Len(s) /\ Tail(s)[n] = s[n + 1]
      BY <1>1
    <2>2. ASSUME Tail(s)[n] \in DOMAIN Succ
          PROVE  n < Len(Tail(s)) /\ Tail(s)[n + 1] = Succ[Tail(s)[n]]
      <3>1. n + 1 < Len(s) /\ s[n + 2] = Succ[s[n + 1]]
        BY <2>1, <2>2 DEF Chained
      <3>2. n + 1 \in 1..Len(Tail(s))
        BY <1>1, <3>1
      <3> QED
        BY <1>1, <2>1, <3>1, <3>2
    <2>3. ASSUME n > 1, Tail(s)[n] \in Inner
          PROVE  Tail(s)[n - 1] \in Joined /\ Succ[Tail(s)[n - 1]] = Tail(s)[n]
      <3>1. s[n] \in Joined /\ Succ[s[n]] = s[n + 1]
        BY <2>1, <2>3 DEF Chained
      <3>2. n - 1 \in 1..Len(Tail(s))
        BY <1>1, <2>3
      <3>3. Tail(s)[n - 1] = s[n]
        BY <1>1, <3>2
      <3> QED
        BY <2>1, <3>1, <3>3
    <2> QED
      BY <2>2, <2>3
  <1>3. ASSUME Head(s) \notin Joined
        PROVE  Opens(Tail(s))
    <2> SUFFICES ASSUME Tail(s) # <<>>, Head(Tail(s)) \in Inner
                 PROVE  FALSE
      BY DEF Opens
    <2>1. 2 \in 1..Len(s) /\ Head(Tail(s)) = s[2]
      BY <1>1
    <2>2. s[1] \in Joined
      BY <2>1 DEF Chained
    <2> QED
      BY <1>1, <1>3, <2>2
  <1>4. ASSUME Head(s) \in DOMAIN Succ
        PROVE  Tail(s) # <<>> /\ Head(Tail(s)) = Succ[Head(s)]
    <2>1. 1 < Len(s) /\ s[1 + 1] = Succ[s[1]]
      BY <1>1, <1>4 DEF Chained
    <2>2. 1 \in 1..Len(Tail(s)) /\ Tail(s)[1] = s[2]
      BY <1>1, <2>1
    <2>3. Len(Tail(s)) # 0
      BY <1>1, <2>1
    <2>4. Tail(s) # <<>> /\ Head(Tail(s)) = Tail(s)[1]
      BY <1>1, <2>3
    <2> QED
      BY <1>1, <2>1, <2>2, <2>4
  <1> QED
    BY <1>1, <1>2, <1>3, <1>4

LEMMA WholeConcat ==
    ASSUME NEW s, NEW t, Whole(s), Whole(t)
    PROVE  Whole(s \o t)
  <1>1. /\ s \in Seq(Labels) /\ t \in Seq(Labels) /\ s \o t \in Seq(Labels)
        /\ Len(s) \in Nat /\ Len(t) \in Nat /\ Len(s \o t) = Len(s) + Len(t)
        /\ \A n \in 1..Len(s) : (s \o t)[n] = s[n]
        /\ \A n \in 1..Len(t) : (s \o t)[Len(s) + n] = t[n]
    BY DEF Whole
  <1>2. Chained(s \o t)
    <2> DEFINE u == s \o t
    <2> SUFFICES ASSUME NEW n \in 1..Len(u)
                 PROVE  /\ u[n] \in DOMAIN Succ => n < Len(u) /\ u[n + 1] = Succ[u[n]]
                        /\ n > 1 /\ u[n] \in Inner => u[n - 1] \in Joined /\ Succ[u[n - 1]] = u[n]
      BY DEF Chained
    <2> HIDE DEF u
    <2>1. CASE n \in 1..Len(s)
      <3>1. u[n] = s[n]
        BY <1>1, <2>1 DEF u
      <3>2. ASSUME u[n] \in DOMAIN Succ
            PROVE  n < Len(u) /\ u[n + 1] = Succ[u[n]]
        <4>1. n < Len(s) /\ s[n + 1] = Succ[s[n]]
          BY <2>1, <3>1, <3>2 DEF Whole, Chained
        <4>2. n + 1 \in 1..Len(s)
          BY <1>1, <4>1
        <4> QED
          BY <1>1, <3>1, <4>1, <4>2 DEF u
      <3>3. ASSUME n > 1, u[n] \in Inner
            PROVE  u[n - 1] \in Joined /\ Succ[u[n - 1]] = u[n]
        <4>1. s[n - 1] \in Joined /\ Succ[s[n - 1]] = s[n]
          BY <2>1, <3>1, <3>3 DEF Whole, Chained
        <4>2. n - 1 \in 1..Len(s)
          BY <1>1, <2>1, <3>3
        <4> QED
          BY <1>1, <3>1, <4>1, <4>2 DEF u
      <3> QED
        BY <3>2, <3>3
    <2>2. CASE n \notin 1..Len(s)
      <3> DEFINE k == n - Len(s)
      <3>1. k \in 1..Len(t) /\ n = Len(s) + k /\ u[n] = t[k]
        BY <1>1, <2>2 DEF u
      <3> HIDE DEF k
      <3>2. ASSUME u[n] \in DOMAIN Succ
            PROVE  n < Len(u) /\ u[n + 1] = Succ[u[n]]
        <4>1. k < Len(t) /\ t[k + 1] = Succ[t[k]]
          BY <3>1, <3>2 DEF Whole, Chained
        <4>2. k + 1 \in 1..Len(t) /\ n + 1 = Len(s) + (k + 1) /\ Len(u) = Len(s) + Len(t)
          BY <1>1, <3>1, <4>1 DEF u
        <4>3. u[n + 1] = t[k + 1]
          BY <1>1, <4>2 DEF u
        <4> QED
          BY <1>1, <3>1, <4>1, <4>2, <4>3
      <3>3. ASSUME n > 1, u[n] \in Inner
            PROVE  u[n - 1] \in Joined /\ Succ[u[n - 1]] = u[n]
        <4>1. k > 1
          BY <1>1, <3>1, <3>3 DEF Whole, Opens
        <4>2. t[k - 1] \in Joined /\ Succ[t[k - 1]] = t[k]
          BY <3>1, <3>3, <4>1 DEF Whole, Chained
        <4>3. k - 1 \in 1..Len(t) /\ n - 1 = Len(s) + (k - 1)
          BY <1>1, <3>1, <4>1
        <4> QED
          BY <1>1, <3>1, <4>2, <4>3 DEF u
      <3> QED
        BY <3>2, <3>3
    <2> QED
      BY <2>1, <2>2
  <1>3. Opens(s \o t)
    BY <1>1 DEF Whole, Opens
  <1> QED
    BY <1>1, <1>2, <1>3 DEF Whole

LEMMA TailSure ==
    ASSUME NEW s \in Seq(Labels), s # <<>>, NEW field, Sure(s, field),
           Head(s) \notin Announces(field)
    PROVE  Sure(Tail(s), field) /\ Head(s) \notin Forks
  <1>1. /\ Len(s) \in Nat \ {0} /\ Len(Tail(s)) = Len(s) - 1 /\ Head(s) = s[1]
        /\ \A n \in 1..Len(Tail(s)) : Tail(s)[n] = s[n + 1]
    OBVIOUS
  <1>2. PICK n \in 1..Len(s) : s[n] \in Announces(field) /\ \A m \in 1..n : s[m] \notin Forks
    BY DEF Sure
  <1>3. n # 1
    BY <1>1, <1>2
  <1>4. n - 1 \in 1..Len(Tail(s)) /\ Tail(s)[n - 1] = s[n]
    BY <1>1, <1>3
  <1>5. ASSUME NEW m \in 1..(n - 1)
        PROVE  Tail(s)[m] \notin Forks
    <2>1. m + 1 \in 1..n /\ m \in 1..Len(Tail(s))
      BY <1>1
    <2> QED
      BY <1>1, <1>2, <2>1
  <1>6. 1 \in 1..n
    OBVIOUS
  <1> QED
    BY <1>1, <1>2, <1>4, <1>5, <1>6 DEF Sure

LEMMA ConcatSure ==
    ASSUME NEW s \in Seq(Labels), NEW t \in Seq(Labels), NEW field, Sure(s, field)
    PROVE  Sure(s \o t, field)
  <1>1. /\ Len(s) \in Nat /\ Len(t) \in Nat /\ Len(s \o t) = Len(s) + Len(t)
        /\ \A n \in 1..Len(s) : (s \o t)[n] = s[n]
    OBVIOUS
  <1>2. PICK n \in 1..Len(s) : s[n] \in Announces(field) /\ \A m \in 1..n : s[m] \notin Forks
    BY DEF Sure
  <1>3. n \in 1..Len(s \o t)
    BY <1>1
  <1>4. \A m \in 1..n : m \in 1..Len(s)
    BY <1>1
  <1> QED
    BY <1>1, <1>2, <1>3, <1>4 DEF Sure

(* What a script begins with.                                                *)
LEMMA SureFirst ==
    ASSUME NEW s \in Seq(Labels), s # <<>>, NEW field \in Fields,
           Head(s) \in Announces(field)
    PROVE  Sure(s, field)
  <1>1. Len(s) \in Nat \ {0} /\ Head(s) = s[1] /\ 1 \in 1..Len(s)
    OBVIOUS
  <1>2. Head(s) \notin Forks
    BY DEF Announces, Forks, Fields
  <1>3. \A m \in 1..1 : m = 1
    OBVIOUS
  <1> QED
    BY <1>1, <1>2, <1>3 DEF Sure

LEMMA SureSecond ==
    ASSUME NEW s \in Seq(Labels), s # <<>>, NEW field \in Fields,
           Head(s) \notin Forks, Sure(Tail(s), field)
    PROVE  Sure(s, field)
  <1>1. /\ Len(s) \in Nat \ {0} /\ Len(Tail(s)) = Len(s) - 1 /\ Head(s) = s[1]
        /\ \A n \in 1..Len(Tail(s)) : Tail(s)[n] = s[n + 1]
    OBVIOUS
  <1>2. PICK n \in 1..Len(Tail(s)) :
          Tail(s)[n] \in Announces(field) /\ \A m \in 1..n : Tail(s)[m] \notin Forks
    BY DEF Sure
  <1>3. n + 1 \in 1..Len(s) /\ s[n + 1] \in Announces(field)
    BY <1>1, <1>2
  <1>4. ASSUME NEW m \in 1..(n + 1)
        PROVE  s[m] \notin Forks
    <2>1. CASE m = 1
      BY <1>1, <2>1
    <2>2. CASE m # 1
      <3>1. m - 1 \in 1..n /\ m - 1 \in 1..Len(Tail(s))
        BY <1>1, <2>2
      <3>2. Tail(s)[m - 1] = s[m]
        BY <1>1, <3>1
      <3> QED
        BY <1>2, <3>1, <3>2
    <2> QED
      BY <2>1, <2>2
  <1> QED
    BY <1>3, <1>4 DEF Sure

----------------------------------------------------------------------------
(* The scripts of the handlers.                                              *)

LEMMA SuccIs ==
    /\ DOMAIN Succ = Joined \cup {"complete", "zero", "offer", "drain", "pause", "unpause",
                                  "draining", "shut"}
    /\ Succ["pending"] = "paused" /\ Succ["paused"] = "inFlight" /\ Succ["inFlight"] = "completed"
    /\ Succ["completed"] = "phase" /\ Succ["phase"] = "show"
    /\ Succ["drain"] = "zero" /\ Succ["zero"] = "event" /\ Succ["complete"] = "event"
    /\ Succ["offer"] = "event" /\ Succ["draining"] = "shut" /\ Succ["shut"] = "event"
    /\ Succ["isDraining"] = "noPending" /\ Succ["noPending"] = "noInFlight"
    /\ Succ["noInFlight"] = "off"
    /\ Succ["pause"] = "pending" /\ Succ["unpause"] = "pending"
BY DEF Succ, Joined, Fields

(* A label in front of a script.                                             *)
LEMMA ConsChained ==
    ASSUME NEW l \in Labels, NEW s \in Seq(Labels), Chained(s),
           l \in DOMAIN Succ => s # <<>> /\ Head(s) = Succ[l],
           ~Opens(s) => l \in Joined /\ Succ[l] = Head(s)
    PROVE  /\ <<l>> \o s \in Seq(Labels) /\ Chained(<<l>> \o s)
           /\ <<l>> \o s # <<>> /\ Head(<<l>> \o s) = l
  <1> DEFINE u == <<l>> \o s
  <1>1. /\ u \in Seq(Labels) /\ Len(u) = Len(s) + 1 /\ Len(s) \in Nat /\ u[1] = l
        /\ \A n \in 1..Len(s) : u[n + 1] = s[n]
        /\ s # <<>> => Len(s) > 0 /\ Head(s) = s[1]
    OBVIOUS
  <1> HIDE DEF u
  <1>2. u # <<>> /\ Head(u) = l
    BY <1>1
  <1>3. Chained(u)
    <2> SUFFICES ASSUME NEW n \in 1..Len(u)
                 PROVE  /\ u[n] \in DOMAIN Succ => n < Len(u) /\ u[n + 1] = Succ[u[n]]
                        /\ n > 1 /\ u[n] \in Inner => u[n - 1] \in Joined /\ Succ[u[n - 1]] = u[n]
      BY DEF Chained
    <2>1. CASE n = 1
      <3>1. ASSUME l \in DOMAIN Succ
            PROVE  1 < Len(u) /\ u[1 + 1] = Succ[l]
        BY <1>1, <3>1
      <3> QED
        BY <1>1, <2>1, <3>1
    <2>2. CASE n # 1
      <3> DEFINE k == n - 1
      <3>1. k \in 1..Len(s) /\ n = k + 1 /\ u[n] = s[k]
        BY <1>1, <2>2
      <3> HIDE DEF k
      <3>2. ASSUME u[n] \in DOMAIN Succ
            PROVE  n < Len(u) /\ u[n + 1] = Succ[u[n]]
        <4>1. k < Len(s) /\ s[k + 1] = Succ[s[k]]
          BY <3>1, <3>2 DEF Chained
        <4>2. k + 1 \in 1..Len(s) /\ n + 1 = (k + 1) + 1
          BY <1>1, <3>1, <4>1
        <4> QED
          BY <1>1, <3>1, <4>1, <4>2
      <3>3. ASSUME u[n] \in Inner
            PROVE  u[n - 1] \in Joined /\ Succ[u[n - 1]] = u[n]
        <4>1. CASE k = 1
          <5>1. s # <<>> /\ Head(s) \in Inner
            BY <1>1, <3>1, <3>3, <4>1
          <5> QED
            BY <1>1, <3>1, <4>1, <5>1 DEF Opens
        <4>2. CASE k # 1
          <5>1. s[k - 1] \in Joined /\ Succ[s[k - 1]] = s[k]
            BY <3>1, <3>3, <4>2 DEF Chained
          <5>2. k - 1 \in 1..Len(s) /\ n - 1 = (k - 1) + 1
            BY <1>1, <3>1, <4>2
          <5> QED
            BY <1>1, <3>1, <5>1, <5>2
        <4> QED
          BY <4>1, <4>2
      <3> QED
        BY <3>2, <3>3
    <2> QED
      BY <2>1, <2>2
  <1> QED
    BY <1>1, <1>2, <1>3 DEF u

LEMMA EmptyWhole == Whole(<<>>)
BY DEF Whole, Chained, Opens

(* One that asks nothing of its neighbours.                                   *)
LEMMA PlainWhole ==
    ASSUME NEW l \in Labels, l \notin DOMAIN Succ, l \notin Inner
    PROVE  Whole(<<l>>)
  <1>1. <<l>> \in Seq(Labels) /\ Len(<<l>>) = 1 /\ <<l>>[1] = l /\ Head(<<l>>) = l
    OBVIOUS
  <1>2. Chained(<<l>>)
    BY <1>1 DEF Chained
  <1> QED
    BY <1>1, <1>2 DEF Whole, Opens

LEMMA PlainBefore ==
    ASSUME NEW l \in Labels, l \notin DOMAIN Succ, l \notin Inner, NEW s, Whole(s)
    PROVE  Whole(<<l>> \o s)
BY PlainWhole, WholeConcat

(* One that asks for the next.                                               *)
LEMMA LinkedBefore ==
    ASSUME NEW l \in DOMAIN Succ \ Inner, l \in Labels, NEW s, Whole(s), s # <<>>, Head(s) = Succ[l]
    PROVE  Whole(<<l>> \o s) /\ <<l>> \o s # <<>> /\ Head(<<l>> \o s) = l
BY ConsChained DEF Whole, Opens

LEMMA WordsKnown ==
    /\ Fields \subseteq Labels /\ DOMAIN Succ \subseteq Labels /\ Inner \subseteq Labels
    /\ {"event", "take", "latch", "begin", "run", "end", "close", "open", "discard", "extract",
        "restore", "isOpen"}
         \subseteq Labels \ (DOMAIN Succ \cup Inner)
    /\ {"pending", "complete", "zero", "offer", "drain", "pause", "unpause", "draining", "shut",
        "isDraining"}
         \subseteq DOMAIN Succ \ Inner
BY SuccIs DEF Labels, Fields, Joined, Inner, Later, Closing

LEMMA EventWhole == Whole(Event) /\ Event # <<>> /\ Head(Event) = "event"
BY WordsKnown, PlainWhole DEF Event

(* Concatenations of one label, as tuples.                                   *)
LEMMA AsTuples ==
    /\ enqueueInternal = <<"isOpen">> \o (<<"offer">> \o Event)
    /\ refreshStatus = <<"pending">> \o (<<"paused">> \o (<<"inFlight">> \o (<<"completed">> \o
                          (<<"phase">> \o (<<"show">> \o <<>>)))))
    /\ finalizeShutdownIfDrained = <<"isDraining">> \o (<<"noPending">> \o (<<"noInFlight">> \o
                          (<<"off">> \o <<>>)))
BY DEF enqueueInternal, refreshStatus, finalizeShutdownIfDrained, Event

LEMMA RefreshWhole ==
    /\ Whole(refreshStatus) /\ refreshStatus # <<>> /\ Head(refreshStatus) = "pending"
  <1> DEFINE s5 == <<"show">> \o <<>>
             s4 == <<"phase">> \o s5
             s3 == <<"completed">> \o s4
             s2 == <<"inFlight">> \o s3
             s1 == <<"paused">> \o s2
             s0 == <<"pending">> \o s1
  <1>0. /\ "show" \in Labels /\ "show" \notin DOMAIN Succ /\ Fields \subseteq Labels
        /\ Fields \subseteq DOMAIN Succ
    BY SuccIs, WordsKnown DEF Fields, Joined, Labels
  <1>1. s5 \in Seq(Labels) /\ Chained(s5) /\ s5 # <<>> /\ Head(s5) = "show"
    BY <1>0, ConsChained, EmptyWhole DEF Whole
  <1> HIDE DEF s5
  <1>2. s4 \in Seq(Labels) /\ Chained(s4) /\ s4 # <<>> /\ Head(s4) = "phase"
    BY <1>0, <1>1, ConsChained, SuccIs DEF Fields, Joined
  <1> HIDE DEF s4
  <1>3. s3 \in Seq(Labels) /\ Chained(s3) /\ s3 # <<>> /\ Head(s3) = "completed"
    BY <1>0, <1>2, ConsChained, SuccIs DEF Fields, Joined
  <1> HIDE DEF s3
  <1>4. s2 \in Seq(Labels) /\ Chained(s2) /\ s2 # <<>> /\ Head(s2) = "inFlight"
    BY <1>0, <1>3, ConsChained, SuccIs DEF Fields, Joined
  <1> HIDE DEF s2
  <1>5. s1 \in Seq(Labels) /\ Chained(s1) /\ s1 # <<>> /\ Head(s1) = "paused"
    BY <1>0, <1>4, ConsChained, SuccIs DEF Fields, Joined
  <1> HIDE DEF s1
  <1>6. s0 \in Seq(Labels) /\ Chained(s0) /\ s0 # <<>> /\ Head(s0) = "pending"
    BY <1>0, <1>5, ConsChained, SuccIs DEF Fields, Joined
  <1>7. refreshStatus = s0
    BY AsTuples DEF s1, s2, s3, s4, s5
  <1> QED
    BY <1>6, <1>7 DEF Whole, Opens, Inner, Later, Closing

LEMMA FinalizeWhole == Whole(finalizeShutdownIfDrained)
  <1> DEFINE s3 == <<"off">> \o <<>>
             s2 == <<"noInFlight">> \o s3
             s1 == <<"noPending">> \o s2
             s0 == <<"isDraining">> \o s1
  <1>0. /\ {"off", "noInFlight", "noPending", "isDraining"} \subseteq Labels
        /\ {"noInFlight", "noPending", "isDraining"} \subseteq Joined
        /\ Joined \subseteq DOMAIN Succ /\ "off" \notin DOMAIN Succ
    BY SuccIs DEF Labels, Joined, Fields
  <1>1. s3 \in Seq(Labels) /\ Chained(s3) /\ s3 # <<>> /\ Head(s3) = "off"
    BY <1>0, ConsChained, EmptyWhole DEF Whole
  <1> HIDE DEF s3
  <1>2. s2 \in Seq(Labels) /\ Chained(s2) /\ s2 # <<>> /\ Head(s2) = "noInFlight"
    BY <1>0, <1>1, ConsChained, SuccIs
  <1> HIDE DEF s2
  <1>3. s1 \in Seq(Labels) /\ Chained(s1) /\ s1 # <<>> /\ Head(s1) = "noPending"
    BY <1>0, <1>2, ConsChained, SuccIs
  <1> HIDE DEF s1
  <1>4. s0 \in Seq(Labels) /\ Chained(s0) /\ s0 # <<>> /\ Head(s0) = "isDraining"
    BY <1>0, <1>3, ConsChained, SuccIs
  <1>5. finalizeShutdownIfDrained = s0
    BY AsTuples DEF s1, s2, s3
  <1> QED
    BY <1>4, <1>5, WordsKnown DEF Whole, Opens

LEMMA EnqueueWhole == Whole(enqueueInternal)
  <1>1. Whole(<<"offer">> \o Event)
    BY EventWhole, WordsKnown, LinkedBefore, SuccIs
  <1> QED
    BY <1>1, AsTuples, WordsKnown, PlainBefore

(* What the script writes is followed by an event or a read of the field.       *)
LEMMA OfPause ==
    /\ Whole(pause) /\ Whole(resume)
    /\ Whole(<<"unpause">> \o refreshStatus)
  <1>1. Whole(<<"pause">> \o refreshStatus) /\ Whole(<<"unpause">> \o refreshStatus)
    BY RefreshWhole, WordsKnown, LinkedBefore, SuccIs
  <1>2. /\ pause = <<"close">> \o (<<"pause">> \o refreshStatus)
        /\ resume = <<"open">> \o (<<"unpause">> \o refreshStatus)
    BY DEF pause, resume, refreshStatus
  <1> QED
    BY <1>1, <1>2, WordsKnown, PlainBefore

LEMMA ClearWhole == Whole(clear)
  <1> DEFINE rest == <<"zero">> \o Event
  <1>1. Whole(rest) /\ rest # <<>> /\ Head(rest) = "zero"
    BY EventWhole, WordsKnown, LinkedBefore, SuccIs
  <1>3. clear = <<"drain">> \o rest
    BY DEF clear, Event
  <1> HIDE DEF rest
  <1>2. Whole(<<"drain">> \o rest)
    BY <1>1, WordsKnown, LinkedBefore, SuccIs
  <1> QED
    BY <1>2, <1>3

LEMMA ShutdownWhole == Whole(shutdown)
  <1> DEFINE tail == refreshStatus \o finalizeShutdownIfDrained
             shut == <<"shut">> \o Event
             begin == <<"draining">> \o shut
  <1>1. Whole(tail)
    BY RefreshWhole, FinalizeWhole, WholeConcat
  <1>2. Whole(shut) /\ shut # <<>> /\ Head(shut) = "shut"
    BY EventWhole, WordsKnown, LinkedBefore, SuccIs
  <1>3. Whole(begin)
    <2> HIDE DEF shut
    <2> QED
      BY <1>2, WordsKnown, LinkedBefore, SuccIs
  <1>4. Whole((<<"unpause">> \o refreshStatus) \o finalizeShutdownIfDrained)
    BY OfPause, FinalizeWhole, WholeConcat
  <1>5. Whole(<<"open">> \o ((<<"unpause">> \o refreshStatus) \o finalizeShutdownIfDrained))
    BY <1>4, WordsKnown, PlainBefore
  <1>6. Whole(<<"discard">> \o tail)
    BY <1>1, WordsKnown, PlainBefore
  <1>7. CASE ShutdownMode = "finishActive"
    <2>1. shutdown = begin \o (<<"discard">> \o tail)
      BY <1>7 DEF shutdown, Event, refreshStatus, finalizeShutdownIfDrained
    <2> QED
      BY <1>3, <1>6, <2>1, WholeConcat
  <1>8. CASE ShutdownMode # "finishActive"
    <2>1. shutdown = begin \o (<<"open">> \o ((<<"unpause">> \o refreshStatus) \o finalizeShutdownIfDrained))
      BY <1>8 DEF shutdown, Event, refreshStatus, finalizeShutdownIfDrained
    <2> QED
      BY <1>3, <1>5, <2>1, WholeConcat
  <1> QED
    BY <1>7, <1>8

LEMMA ProcessWhole == Whole(processItem) /\ Whole(Rejected)
  <1>1. Whole(<<"begin">> \o (<<"run">> \o <<>>))
    BY EmptyWhole, WordsKnown, PlainBefore
  <1>2. Whole(Event \o (<<"begin">> \o (<<"run">> \o <<>>)))
    BY <1>1, EventWhole, WholeConcat
  <1>3. processItem = <<"latch">> \o (Event \o (<<"begin">> \o (<<"run">> \o <<>>)))
    BY DEF processItem, Event
  <1> QED
    BY <1>2, <1>3, WordsKnown, PlainBefore, EventWhole, FinalizeWhole, WholeConcat DEF Rejected

LEMMA EndedWhole ==
    ASSUME NEW outcome
    PROVE  Whole(Ended(outcome))
  <1> DEFINE disposed == CASE outcome = "retry" -> Event \o enqueueInternal
                           [] outcome = "given up" -> Event
                           [] OTHER -> <<>>
             end == Event \o (<<"end">> \o (disposed \o finalizeShutdownIfDrained))
  <1>1. Whole(disposed)
    BY EventWhole, EnqueueWhole, EmptyWhole, WholeConcat
  <1> HIDE DEF disposed
  <1>2. Whole(<<"end">> \o (disposed \o finalizeShutdownIfDrained))
    BY <1>1, FinalizeWhole, WholeConcat, WordsKnown, PlainBefore
  <1>3. Whole(end)
    BY <1>2, EventWhole, WholeConcat
  <1>4. Whole(<<"complete">> \o Event)
    BY EventWhole, WordsKnown, LinkedBefore, SuccIs
  <1>5. Ended(outcome) = (<<"complete">> \o Event) \o end
    <2>1. Ended(outcome) = <<"complete">> \o Event \o Event \o <<"end">> \o disposed
                             \o finalizeShutdownIfDrained
      BY DEF Ended, disposed
    <2> QED
      BY <1>1, <2>1, FinalizeWhole DEF Event, Whole
  <1> QED
    BY <1>3, <1>4, <1>5, WholeConcat

LEMMA HandlersWhole ==
    /\ \A h \in Handlers : Whole(h)
    /\ Whole(<<"take">>) /\ Whole(extract)
BY EnqueueWhole, OfPause, ClearWhole, ShutdownWhole, WordsKnown, PlainWhole DEF Handlers, extract

LEMMA RefreshSure ==
    ASSUME NEW field \in Fields
    PROVE  Sure(refreshStatus, field)
  <1>1. /\ Len(refreshStatus) = 6 /\ refreshStatus[1] = "pending" /\ refreshStatus[2] = "paused"
        /\ refreshStatus[3] = "inFlight" /\ refreshStatus[4] = "completed"
        /\ refreshStatus[5] = "phase"
    BY DEF refreshStatus
  <1>2. \A n \in 1..5 : refreshStatus[n] \in Fields
    BY <1>1 DEF Fields
  <1>3. Fields \cap Forks = {} /\ field \in Announces(field)
    BY DEF Fields, Forks, Announces
  <1>4. PICK n \in 1..5 : refreshStatus[n] = field
    BY <1>1 DEF Fields
  <1>5. \A m \in 1..n : m \in 1..5
    OBVIOUS
  <1> QED
    BY <1>1, <1>2, <1>3, <1>4, <1>5 DEF Sure

LEMMA ForkUnsure ==
    ASSUME NEW s, s = <<>> \/ Head(s) \in Forks, NEW field, Sure(s, field), s \in Seq(Labels)
    PROVE  FALSE
  <1>1. PICK n \in 1..Len(s) : \A m \in 1..n : s[m] \notin Forks
    BY DEF Sure
  <1>2. 1 \in 1..n /\ s # <<>> /\ Head(s) = s[1]
    OBVIOUS
  <1> QED
    BY <1>1, <1>2

----------------------------------------------------------------------------
(* Steps.                                                                    *)

LEMMA NoReadNoView ==
    ASSUME Typed, NEW f \in Fibers, NotReading(script[f])
    PROVE  view[f] = NoView
BY DEF Typed, ReadSoFar, At, NotReading, Later

LEMMA AtHead ==
    ASSUME Typed, NEW f \in Fibers, NEW l, At(f, l)
    PROVE  /\ script[f] \in Seq(Labels) /\ script[f] # <<>> /\ Head(script[f]) = l
           /\ l \notin Later => NotReading(script[f])
           /\ l \notin Joined => Whole(Tail(script[f]))
           /\ Tail(script[f]) \in Seq(Labels) /\ Chained(Tail(script[f]))
           /\ l \in DOMAIN Succ => Tail(script[f]) # <<>> /\ Head(Tail(script[f])) = Succ[l]
  <1>1. script[f] \in Seq(Labels) /\ Chained(script[f]) /\ script[f] # <<>> /\ Head(script[f]) = l
    BY DEF Typed, At
  <1> QED
    BY <1>1, TailChained DEF NotReading, Whole

(* What a step may do to the queue, and what a script may go on with.          *)
Moves == NowTyped' /\ (now'["phase"] = "running" => now["phase"] = "running")
Enters(s) ==
    /\ s \in Seq(Labels) /\ Chained(s) /\ NotReading(s)
    /\ s = <<>> \/ Head(s) \notin Closing \/ now'["phase"] # "running"

LEMMA WholeEnters ==
    ASSUME NEW s, Whole(s)
    PROVE  Enters(s)
BY DEF Whole, Enters, Opens, NotReading, Inner

LEMMA GoesTyped ==
    ASSUME Typed, NEW f \in Fibers, NEW rest, Goes(f, rest), Enters(rest), NotReading(script[f]),
           UNCHANGED view, Moves, hub' \in Nat
    PROVE  Typed'
  <1>1. DOMAIN script' = Fibers /\ script'[f] = rest
        /\ \A g \in Fibers \ {f} : script'[g] = script[g]
    BY DEF Typed, Goes
  <1>2. script'[f] \in Seq(Labels) /\ Chained(script'[f]) /\ ReadSoFar(f)' /\ InTurn(script[f])'
    BY <1>1, NoReadNoView DEF ReadSoFar, InTurn, Enters
  <1>3. ASSUME NEW g \in Fibers \ {f}
        PROVE  /\ script'[g] \in Seq(Labels) /\ Chained(script'[g]) /\ ReadSoFar(g)'
               /\ InTurn(script[g])'
    BY <1>1 DEF Typed, ReadSoFar, At, InTurn, Moves
  <1> QED
    BY <1>1, <1>2, <1>3 DEF Typed, Moves

(* What a step leaves followed.                                              *)
Keeps(f, rest, field) ==
    \/ hub' > 0
    \/ Sure(rest, field)
    \/ /\ field \notin unsaid /\ now'[field] = now[field] /\ hub' >= hub
       /\ Sure(script[f], field) => Sure(rest, field)

LEMMA GoesFollowed ==
    ASSUME IInv, NEW f \in Fibers, NEW rest, Goes(f, rest), UNCHANGED snapshot,
           hub' \in Nat, NEW field \in Fields, Keeps(f, rest, field)
    PROVE  Followed(field)'
  <1>1. DOMAIN script' = Fibers /\ script'[f] = rest
        /\ \A g \in Fibers \ {f} : script'[g] = script[g]
    BY DEF IInv, Typed, Goes
  <1>2. CASE hub' > 0 \/ Sure(rest, field)
    BY <1>1, <1>2 DEF Followed
  <1>3. CASE /\ field \notin unsaid /\ now'[field] = now[field] /\ hub' >= hub
             /\ Sure(script[f], field) => Sure(rest, field)
    <2>1. Followed(field) /\ hub \in Nat
      BY <1>3 DEF IInv, Typed
    <2>2. CASE hub > 0
      BY <1>3, <2>1, <2>2 DEF Followed
    <2>3. CASE \E g \in Fibers : Sure(script[g], field)
      BY <1>1, <1>3, <2>3 DEF Followed
    <2>4. CASE \E g \in Fibers : field \in DOMAIN view[g] /\ view[g][field] = now[field]
      BY <1>3, <2>4 DEF Followed, snapshot
    <2>5. CASE Fresh(field)
      BY <1>3, <2>5 DEF Followed, Fresh, Right, snapshot
    <2> QED
      BY <2>1, <2>2, <2>3, <2>4, <2>5 DEF Followed
  <1> QED
    BY <1>2, <1>3 DEF Keeps

LEMMA StepKeeps ==
    ASSUME IInv, NEW f \in Fibers, NEW rest, Goes(f, rest), Enters(rest),
           NotReading(script[f]), UNCHANGED snapshot, Moves, hub' \in Nat,
           \A field \in Fields \ unsaid' : Keeps(f, rest, field)
    PROVE  IInv'
  <1>1. Typed'
    BY GoesTyped DEF IInv, snapshot
  <1>2. \A field \in Fields \ unsaid' : Followed(field)'
    BY GoesFollowed
  <1> QED
    BY <1>1, <1>2 DEF IInv

(* A step at a fork that changes no field.                                   *)
LEMMA ForkStep ==
    ASSUME IInv, NEW f \in Fibers, NEW rest, Goes(f, rest), Enters(rest),
           script[f] = <<>> \/ Head(script[f]) \in Forks,
           UNCHANGED <<now, hub, snapshot, unsaid>>
    PROVE  IInv'
  <1>1. NotReading(script[f]) /\ Moves
    BY DEF NotReading, Forks, Later, Moves, NowTyped, IInv, Typed
  <1>2. \A field : ~Sure(script[f], field)
    BY ForkUnsure DEF IInv, Typed
  <1>3. \A field \in Fields \ unsaid' : Keeps(f, rest, field)
    BY <1>2 DEF Keeps, IInv, Typed
  <1> QED
    BY <1>1, <1>3, StepKeeps DEF IInv, Typed

(* A step to the next label.                                                 *)
LEMMA NextLabel ==
    ASSUME IInv, NEW f \in Fibers, NEW l \in Labels \ (Joined \cup Later), At(f, l), Advance(f),
           UNCHANGED snapshot, Moves, hub' \in Nat, hub' >= hub, unsaid \subseteq unsaid',
           \A field \in Fields \ unsaid' :
              \/ hub' > 0 \/ Sure(Tail(script[f]), field)
              \/ now'[field] = now[field] /\ l \notin Announces(field)
    PROVE  IInv'
  <1> DEFINE rest == Tail(script[f])
  <1>1. /\ Goes(f, rest) /\ Enters(rest) /\ NotReading(script[f])
        /\ script[f] \in Seq(Labels) /\ script[f] # <<>> /\ Head(script[f]) = l
    BY AtHead, WholeEnters DEF Advance, IInv
  <1>2. ASSUME NEW field \in Fields \ unsaid'
        PROVE  Keeps(f, rest, field)
    BY <1>1, TailSure DEF Keeps
  <1> HIDE DEF rest
  <1> QED
    BY <1>1, <1>2, StepKeeps

LEMMA PutIs ==
    ASSUME Typed, NEW field \in Fields, NEW v, Put(field, v), field = "pending" => v \in Nat,
           field = "phase" => v \in {"draining", "off"}
    PROVE  Moves /\ now'[field] = v /\ \A k \in Fields \ {field} : now'[k] = now[k]
  <1>1. DOMAIN now' = Fields /\ now'[field] = v /\ \A k \in Fields \ {field} : now'[k] = now[k]
    BY DEF Typed, NowTyped, Put
  <1>2. now'["pending"] \in Nat /\ now'["phase"] \in {"running", "draining", "off"}
        /\ (now'["phase"] = "running" => now["phase"] = "running")
    BY <1>1 DEF Typed, NowTyped, Fields
  <1> QED
    BY <1>1, <1>2 DEF Moves, NowTyped

(* Steps that change no field.                                               *)
LEMMA WaitStep ==
    ASSUME IInv, NEW f \in Fibers,
           \/ Call(f) \/ workerLoop(f) \/ AwaitLatch(f) \/ RunEffect(f) \/ IsOpen(f)
    PROVE  IInv'
  <1>1. UNCHANGED <<now, hub, snapshot, unsaid>>
    BY DEF Call, workerLoop, AwaitLatch, RunEffect, IsOpen, queue
  <1>2. Typed /\ script[f] \in Seq(Labels)
    BY DEF IInv, Typed, NowTyped
  <1>3. CASE Call(f)
    <2>1. PICK h \in Handlers : Goes(f, h) /\ script[f] = <<>>
      BY <1>3 DEF Call
    <2> QED
      BY <1>1, <2>1, HandlersWhole, WholeEnters, ForkStep
  <1>4. CASE workerLoop(f)
    <2>1. Goes(f, <<"take">>) /\ script[f] = <<>>
      BY <1>4 DEF workerLoop
    <2> QED
      BY <1>1, <2>1, HandlersWhole, WholeEnters, ForkStep
  <1>5. CASE AwaitLatch(f)
    <2>1. At(f, "latch") /\ (Goes(f, Tail(script[f])) \/ Goes(f, Rejected))
      BY <1>5 DEF AwaitLatch, Advance
    <2>2. Head(script[f]) \in Forks /\ Whole(Tail(script[f]))
      BY <1>2, <2>1, AtHead DEF Forks, Joined, Fields
    <2> QED
      BY <1>1, <2>1, <2>2, ProcessWhole, WholeEnters, ForkStep
  <1>6. CASE RunEffect(f)
    <2>1. PICK outcome \in {"done", "retry", "given up"} : Goes(f, Ended(outcome))
      BY <1>6 DEF RunEffect
    <2>2. Head(script[f]) \in Forks
      BY <1>6 DEF RunEffect, At, Forks
    <2> QED
      BY <1>1, <2>1, <2>2, EndedWhole, WholeEnters, ForkStep
  <1>7. CASE IsOpen(f)
    <2>1. PICK rest \in {finalizeShutdownIfDrained, <<>>, Tail(script[f])} : Goes(f, rest)
      BY <1>7 DEF IsOpen, Advance
    <2>2. Head(script[f]) \in Forks /\ Whole(Tail(script[f]))
      BY <1>2, <1>7, AtHead DEF Forks, Joined, Fields, IsOpen
    <2> QED
      BY <1>1, <2>1, <2>2, FinalizeWhole, EmptyWhole, WholeEnters, ForkStep
  <1> QED
    BY <1>3, <1>4, <1>5, <1>6, <1>7

LEMMA TakeNextStep ==
    ASSUME IInv, NEW f \in Fibers, takeNext(f)
    PROVE  IInv'
  <1>1. At(f, "take") /\ Put("pending", now.pending - 1) /\ now.pending > 0
        /\ unsaid' = unsaid \cup {"pending"} /\ Goes(f, processItem)
        /\ UNCHANGED <<hub, snapshot>>
    BY DEF takeNext
  <1>2. Typed /\ script[f] \in Seq(Labels) /\ now["pending"] \in Nat /\ hub \in Nat
    BY DEF IInv, Typed, NowTyped
  <1>3. Head(script[f]) \in Forks /\ NotReading(script[f])
    BY <1>1, <1>2, AtHead DEF Forks, Later
  <1>4. Moves /\ \A k \in Fields \ {"pending"} : now'[k] = now[k]
    BY <1>1, <1>2, PutIs DEF Fields
  <1>5. \A field \in Fields \ unsaid' : Keeps(f, processItem, field)
    BY <1>1, <1>2, <1>3, <1>4, ForkUnsure DEF Keeps
  <1> QED
    BY <1>1, <1>2, <1>3, <1>4, <1>5, ProcessWhole, WholeEnters, StepKeeps

(* The events of a script, at most two labels ahead.                          *)
LEMMA SureNext ==
    ASSUME Typed, NEW f \in Fibers, NEW l, At(f, l), l \in DOMAIN Succ, NEW field \in Fields,
           \/ Succ[l] \in Announces(field)
           \/ /\ Succ[l] \notin Forks /\ Succ[l] \in DOMAIN Succ
              /\ Succ[Succ[l]] \in Announces(field)
    PROVE  Sure(Tail(script[f]), field)
  <1> DEFINE s == Tail(script[f])
  <1>1. s \in Seq(Labels) /\ Chained(s) /\ s # <<>> /\ Head(s) = Succ[l]
    BY AtHead
  <1> HIDE DEF s
  <1>2. CASE Succ[l] \in Announces(field)
    BY <1>1, <1>2, SureFirst DEF s
  <1>3. CASE /\ Succ[l] \notin Forks /\ Succ[l] \in DOMAIN Succ
             /\ Succ[Succ[l]] \in Announces(field)
    <2>1. Tail(s) \in Seq(Labels) /\ Tail(s) # <<>> /\ Head(Tail(s)) = Succ[Succ[l]]
      BY <1>1, <1>3, TailChained
    <2>2. Sure(Tail(s), field)
      BY <1>3, <2>1, SureFirst
    <2> QED
      BY <1>1, <1>3, <2>2, SureSecond DEF s
  <1> QED
    BY <1>2, <1>3

LEMMA WriteStep ==
    ASSUME IInv, NEW f \in Fibers, Write(f)
    PROVE  IInv'
  <1>1. UNCHANGED <<hub, snapshot, unsaid>>
    BY DEF Write
  <1>2. Typed /\ script[f] \in Seq(Labels) /\ now["pending"] \in Nat /\ hub \in Nat
    BY DEF IInv, Typed, NowTyped
  <1>3. ASSUME NEW l \in Labels \ (Joined \cup Later \cup {"event", "restore"}),
               NEW changed \in Fields, NEW v,
               At(f, l), Put(changed, v), Advance(f), changed = "pending" => v \in Nat,
               changed # "phase", Sure(Tail(script[f]), changed)
        PROVE  IInv'
    <2>1. Moves /\ \A k \in Fields \ {changed} : now'[k] = now[k]
      BY <1>2, <1>3, PutIs
    <2>2. \A field \in Fields \ unsaid' :
            \/ Sure(Tail(script[f]), field)
            \/ now'[field] = now[field] /\ l \notin Announces(field)
      BY <1>3, <2>1 DEF Announces, Joined
    <2> QED
      BY <1>1, <1>2, <1>3, <2>1, <2>2, NextLabel
  <1>4. ASSUME NEW field \in Fields
        PROVE  /\ At(f, "complete") \/ At(f, "zero") \/ At(f, "drain") => Sure(Tail(script[f]), field)
               /\ At(f, "pause") \/ At(f, "unpause") => Sure(Tail(script[f]), "paused")
    <2>1. {"event", "zero", "pending"} \cap Forks = {} /\ "event" \in Announces(field)
          /\ "paused" \in Announces("paused") /\ "paused" \in Fields
      BY DEF Forks, Announces, Fields
    <2> QED
      BY <1>2, <2>1, SureNext, SuccIs DEF Fields, Joined
  <1>5. {"complete", "zero", "drain", "pause", "unpause"}
          \subseteq Labels \ (Joined \cup Later \cup {"event", "restore"})
        /\ {"completed", "pending", "paused"} \subseteq Fields
    BY DEF Labels, Fields, Joined, Later
  <1>6. CASE At(f, "complete") /\ Put("completed", now.completed + 1) /\ Advance(f)
    BY <1>3, <1>4, <1>5, <1>6
  <1>7. CASE At(f, "zero") /\ Put("completed", 0) /\ Advance(f)
    BY <1>3, <1>4, <1>5, <1>7
  <1>8. CASE At(f, "drain") /\ Put("pending", 0) /\ Advance(f)
    BY <1>3, <1>4, <1>5, <1>8
  <1>9. CASE At(f, "pause") /\ Put("paused", TRUE) /\ Advance(f)
    BY <1>3, <1>4, <1>5, <1>9
  <1>10. CASE At(f, "unpause") /\ Put("paused", FALSE) /\ Advance(f)
    BY <1>3, <1>4, <1>5, <1>10
  <1>11. CASE /\ At(f, "discard") /\ Put("pending", 0)
              /\ Goes(f, (IF now.pending > 0 THEN Event ELSE <<>>) \o Tail(script[f]))
    <2> DEFINE said == IF now.pending > 0 THEN Event ELSE <<>>
               rest == said \o Tail(script[f])
    <2>1. Whole(Tail(script[f])) /\ NotReading(script[f]) /\ script[f] # <<>> /\ Head(script[f]) = "discard"
          /\ Tail(script[f]) \in Seq(Labels)
      BY <1>2, <1>11, AtHead DEF Fields, Joined, Later
    <2>2. Whole(rest)
      BY <2>1, EventWhole, EmptyWhole, WholeConcat
    <2>3. Moves /\ now'["pending"] = 0
          /\ \A k \in Fields \ {"pending"} : now'[k] = now[k]
      BY <1>2, <1>11, PutIs DEF Fields
    <2>4. ASSUME NEW field \in Fields \ unsaid'
          PROVE  Keeps(f, rest, field)
      <3>1. CASE now.pending > 0
        <4>1. Event \in Seq(Labels) /\ Sure(Event, field)
          BY EventWhole, SureFirst DEF Whole, Announces
        <4> QED
          BY <2>1, <3>1, <4>1, ConcatSure DEF Keeps
      <3>2. CASE ~(now.pending > 0)
        <4>0. now["pending"] = 0
          BY <1>2, <3>2
        <4>1. rest = Tail(script[f]) /\ now'[field] = now[field]
          <5>1. rest = <<>> \o Tail(script[f])
            BY <3>2
          <5>2. now'[field] = now[field]
            BY <2>3, <4>0
          <5> HIDE DEF rest
          <5> QED
            BY <2>1, <5>1, <5>2
        <4>2. "discard" \notin Announces(field)
          BY DEF Announces, Fields
        <4>3. Sure(script[f], field) => Sure(rest, field)
          BY <1>2, <2>1, <4>1, <4>2, TailSure
        <4> QED
          BY <1>1, <1>2, <4>1, <4>3 DEF Keeps
      <3> QED
        BY <3>1, <3>2
    <2>5. Goes(f, rest)
      BY <1>11
    <2> HIDE DEF rest
    <2> QED
      BY <1>1, <1>2, <2>1, <2>2, <2>3, <2>4, <2>5, WholeEnters, StepKeeps
  <1> QED
    BY <1>6, <1>7, <1>8, <1>9, <1>10, <1>11 DEF Write

LEMMA OfferStep ==
    ASSUME IInv, NEW f \in Fibers, Offer(f)
    PROVE  IInv'
  <1>1. /\ At(f, "offer") /\ Put("pending", now.pending + 1) /\ Advance(f)
        /\ UNCHANGED <<hub, snapshot, unsaid>>
    BY DEF Offer
  <1>2. Typed /\ now["pending"] \in Nat /\ hub \in Nat
    BY DEF IInv, Typed, NowTyped
  <1>3. Moves
    BY <1>1, <1>2, PutIs DEF Fields
  <1>4. "offer" \in Labels \ (Joined \cup Later) /\ Succ["offer"] = "event" /\ "offer" \in DOMAIN Succ
    BY SuccIs DEF Labels, Fields, Joined, Later
  <1>5. \A field \in Fields : Sure(Tail(script[f]), field)
    BY <1>1, <1>2, <1>4, SureNext DEF Announces
  <1> QED
    BY <1>1, <1>2, <1>3, <1>4, <1>5, NextLabel

(* Writes that only the next computation tells of.                            *)
LEMMA WriteInFlightStep ==
    ASSUME IInv, NEW f \in Fibers, WriteInFlight(f)
    PROVE  IInv'
  <1>0. PICK l \in {"begin", "end"} : At(f, l)
    BY DEF WriteInFlight
  <1>1. PICK v : Put("inFlight", v)
    BY DEF WriteInFlight
  <1>2. unsaid' = unsaid \cup {"inFlight"} /\ Advance(f) /\ UNCHANGED <<hub, snapshot>>
    BY DEF WriteInFlight
  <1>3. Typed /\ now["pending"] \in Nat /\ hub \in Nat
    BY DEF IInv, Typed, NowTyped
  <1>4. Moves
        /\ \A k \in Fields \ {"inFlight"} : now'[k] = now[k]
    BY <1>1, <1>3, PutIs DEF Fields
  <1>5. l \in Labels \ (Joined \cup Later) /\ \A field \in Fields : l \notin Announces(field)
    BY DEF Labels, Fields, Joined, Later, Announces
  <1> QED
    BY <1>0, <1>2, <1>3, <1>4, <1>5, NextLabel

LEMMA RestoreStep ==
    ASSUME IInv, NEW f \in Fibers, Restore(f)
    PROVE  IInv'
  <1>1. /\ At(f, "restore") /\ Put("pending", now.pending + 1) /\ Advance(f)
        /\ unsaid' = unsaid \cup {"pending"} /\ UNCHANGED <<hub, snapshot>>
    BY DEF Restore
  <1>2. Typed /\ now["pending"] \in Nat /\ hub \in Nat
    BY DEF IInv, Typed, NowTyped
  <1>3. Moves
        /\ \A k \in Fields \ {"pending"} : now'[k] = now[k]
    BY <1>1, <1>2, PutIs DEF Fields
  <1>4. "restore" \in Labels \ (Joined \cup Later)
        /\ \A field \in Fields \ {"pending"} : "restore" \notin Announces(field)
    BY DEF Labels, Fields, Joined, Later, Announces
  <1> QED
    BY <1>1, <1>2, <1>3, <1>4, NextLabel

LEMMA LatchStep ==
    ASSUME IInv, NEW f \in Fibers, SetLatch(f) \/ SetShutdown(f)
    PROVE  IInv'
  <1>1. PICK l \in {"open", "close", "shut"} : At(f, l)
    BY DEF SetLatch, SetShutdown
  <1>2. Advance(f) /\ UNCHANGED <<now, hub, snapshot, unsaid>>
    BY DEF SetLatch, SetShutdown
  <1>3. Typed /\ NowTyped /\ hub \in Nat
    BY DEF IInv, Typed, NowTyped
  <1>4. l \in Labels \ (Joined \cup Later) /\ \A field \in Fields : l \notin Announces(field)
    BY DEF Labels, Fields, Joined, Later, Announces
  <1> QED
    BY <1>1, <1>2, <1>3, <1>4, NextLabel DEF Moves, NowTyped

LEMMA PublishStep ==
    ASSUME IInv, NEW f \in Fibers, publishEvent(f)
    PROVE  IInv'
  <1>1. /\ At(f, "event") /\ hub' = IF hub < HubSize THEN hub + 1 ELSE hub
        /\ Advance(f) /\ UNCHANGED <<now, snapshot, unsaid>>
    BY DEF publishEvent, queue
  <1>2. NowTyped /\ hub \in Nat
    BY DEF IInv, Typed, NowTyped
  <1>3. hub' \in Nat /\ hub' >= hub /\ hub' > 0
    BY <1>1, <1>2, StatusAssumption
  <1>4. "event" \in Labels \ (Joined \cup Later)
    BY DEF Labels, Fields, Joined, Later
  <1>5. Moves
    BY <1>1, <1>2 DEF Moves, NowTyped
  <1> QED
    BY <1>1, <1>2, <1>3, <1>4, <1>5, NextLabel

(* Every event is a computation.                                             *)
LEMMA TakeEventStep ==
    ASSUME IInv, TakeEvent
    PROVE  IInv'
  <1>1. /\ script[StatusFiber] = <<>> /\ hub > 0 /\ hub' = hub - 1
        /\ Goes(StatusFiber, refreshStatus) /\ UNCHANGED <<now, snapshot, unsaid>>
    BY DEF TakeEvent, queue
  <1>2. NowTyped /\ hub \in Nat /\ StatusFiber \in Fibers
    BY DEF IInv, Typed, NowTyped, Fibers
  <1>3. hub' \in Nat /\ NotReading(script[StatusFiber])
    BY <1>1, <1>2 DEF NotReading
  <1>5. Moves
    BY <1>1, <1>2 DEF Moves, NowTyped
  <1>4. \A field \in Fields \ unsaid' : Keeps(StatusFiber, refreshStatus, field)
    BY RefreshSure DEF Keeps
  <1> QED
    BY <1>1, <1>2, <1>3, <1>4, <1>5, RefreshWhole, WholeEnters, StepKeeps

(* Those that leave it to others to tell.                                    *)
LEMMA PutBackWhole ==
    ASSUME NEW k \in Nat
    PROVE  /\ Whole([i \in 1..k |-> "restore"])
           /\ k > 0 => Sure([i \in 1..k |-> "restore"], "pending")
  <1> DEFINE s == [i \in 1..k |-> "restore"]
  <1>1. s \in Seq(Labels) /\ Len(s) = k /\ \A i \in 1..Len(s) : s[i] = "restore"
    BY DEF Labels
  <1>2. "restore" \notin DOMAIN Succ /\ "restore" \notin Inner
    BY WordsKnown
  <1> HIDE DEF s
  <1>3. Chained(s)
    BY <1>1, <1>2 DEF Chained
  <1>4. s # <<>> => Head(s) = "restore"
    <2> SUFFICES ASSUME s # <<>>
                 PROVE  Head(s) = "restore"
      OBVIOUS
    <2>1. Head(s) = s[1] /\ 1 \in 1..Len(s)
      BY <1>1
    <2> QED
      BY <1>1, <2>1
  <1>5. ASSUME k > 0
        PROVE  Sure(s, "pending")
    <2>1. s # <<>>
      BY <1>1, <1>5
    <2> QED
      BY <1>1, <1>4, <2>1, SureFirst DEF Announces, Fields
  <1> QED
    BY <1>1, <1>2, <1>3, <1>4, <1>5 DEF Whole, Opens, s

LEMMA ExtractStep ==
    ASSUME IInv, NEW f \in Fibers, Extract(f)
    PROVE  IInv'
  <1> DEFINE putBack(n) == [i \in 1..n |-> "restore"]
  <1>1. At(f, "extract") /\ Put("pending", 0) /\ UNCHANGED <<hub, snapshot, unsaid>>
    BY DEF Extract
  <1>2. Typed /\ now["pending"] \in Nat /\ hub \in Nat /\ script[f] \in Seq(Labels)
    BY DEF IInv, Typed, NowTyped
  <1>3. PICK n \in 0..now["pending"] :
          \/ Goes(f, putBack(now["pending"] - n) \o (IF n > 0 THEN Event ELSE <<>>))
          \/ n > 0 /\ Goes(f, putBack(now["pending"]))
    BY DEF Extract
  <1>4. Moves /\ now'["pending"] = 0
        /\ \A k \in Fields \ {"pending"} : now'[k] = now[k]
    BY <1>1, <1>2, PutIs DEF Fields
  <1>5. script[f] # <<>> /\ Head(script[f]) = "extract" /\ NotReading(script[f])
    BY <1>1, <1>2, AtHead DEF Later
  <1> HIDE DEF putBack
  <1>6. ASSUME NEW k \in Nat
        PROVE  Whole(putBack(k)) /\ (k > 0 => Sure(putBack(k), "pending"))
    BY <1>6, PutBackWhole DEF putBack
  <1>7. ASSUME NEW rest, Goes(f, rest), Whole(rest),
               now["pending"] = 0 \/ Sure(rest, "pending")
        PROVE  IInv'
    <2>1. \A field : ~Sure(script[f], field)
      BY <1>2, <1>5, ForkUnsure DEF Forks
    <2>2. \A field \in Fields \ unsaid' : Keeps(f, rest, field)
      BY <1>1, <1>2, <1>4, <1>7, <2>1 DEF Keeps
    <2> QED
      BY <1>1, <1>2, <1>4, <1>5, <1>7, <2>2, WholeEnters, StepKeeps
  <1>8. CASE Goes(f, putBack(now["pending"] - n) \o (IF n > 0 THEN Event ELSE <<>>))
    <2> DEFINE k == now["pending"] - n
               said == IF n > 0 THEN Event ELSE <<>>
    <2>1. k \in Nat
      BY <1>2
    <2>2. Whole(putBack(k)) /\ (k > 0 => Sure(putBack(k), "pending")) /\ Whole(said)
      BY <1>6, <2>1, EventWhole, EmptyWhole
    <2>3. Whole(putBack(k) \o said)
      BY <2>2, WholeConcat
    <2>4. CASE n = now["pending"] /\ n > 0
      <3>1. putBack(0) = <<>>
        BY DEF putBack
      <3>2. k = 0 /\ said = Event
        BY <1>2, <2>4
      <3>3. putBack(k) \o said = Event
        <4>1. putBack(k) \o said = <<>> \o Event
          BY <3>1, <3>2
        <4> QED
          BY <4>1 DEF Event
      <3>4. Sure(Event, "pending")
        BY EventWhole, SureFirst DEF Whole, Announces, Fields
      <3> QED
        BY <1>7, <1>8, <2>3, <3>3, <3>4
    <2>5. CASE k > 0
      <3>1. Sure(putBack(k) \o said, "pending")
        BY <2>2, <2>5, ConcatSure DEF Whole
      <3> QED
        BY <1>7, <1>8, <2>3, <3>1
    <2>6. CASE now["pending"] = 0
      BY <1>7, <1>8, <2>3, <2>6
    <2> QED
      BY <1>2, <2>1, <2>4, <2>5, <2>6
  <1>9. CASE n > 0 /\ Goes(f, putBack(now["pending"]))
    BY <1>2, <1>6, <1>7, <1>9
  <1> QED
    BY <1>3, <1>8, <1>9

LEMMA DrainingStep ==
    ASSUME IInv, NEW f \in Fibers, SetDraining(f)
    PROVE  IInv'
  <1>1. At(f, "draining") /\ Put("phase", "draining") /\ UNCHANGED <<hub, snapshot>>
    BY DEF SetDraining
  <1>2. Typed /\ now["pending"] \in Nat /\ hub \in Nat /\ script[f] \in Seq(Labels)
    BY DEF IInv, Typed, NowTyped
  <1>3. Moves /\ now'["phase"] = "draining"
        /\ \A k \in Fields \ {"phase"} : now'[k] = now[k]
    BY <1>1, <1>2, PutIs DEF Fields
  <1>4. script[f] # <<>> /\ Head(script[f]) = "draining" /\ NotReading(script[f])
        /\ Whole(Tail(script[f]))
    BY <1>1, <1>2, AtHead DEF Later, Joined, Fields
  <1>5. \A field : ~Sure(script[f], field)
    BY <1>2, <1>4, ForkUnsure DEF Forks
  <1>6. CASE now["phase"] = "running"
    <2>1. Goes(f, Tail(script[f])) /\ UNCHANGED unsaid
      BY <1>6 DEF SetDraining, Advance
    <2>2. \A field \in Fields : Sure(Tail(script[f]), field)
      <3>1. "draining" \in DOMAIN Succ /\ Succ["draining"] = "shut" /\ "shut" \in DOMAIN Succ
            /\ Succ["shut"] = "event"
        BY SuccIs
      <3> QED
        BY <1>1, <1>2, <3>1, SureNext DEF Announces, Forks
    <2>3. \A field \in Fields \ unsaid' : Keeps(f, Tail(script[f]), field)
      BY <2>2 DEF Keeps
    <2> QED
      BY <1>1, <1>2, <1>3, <1>4, <2>1, <2>3, WholeEnters, StepKeeps
  <1>7. CASE now["phase"] # "running"
    <2>1. /\ Goes(f, <<>>)
          /\ unsaid' = IF now["phase"] = "off" THEN unsaid \cup {"phase"} ELSE unsaid
      BY <1>7 DEF SetDraining
    <2>2. now["phase"] \in {"draining", "off"}
      BY <1>2, <1>7 DEF Typed, NowTyped
    <2>3. \A field \in Fields \ unsaid' : Keeps(f, <<>>, field)
      BY <1>1, <1>2, <1>3, <1>5, <2>1, <2>2 DEF Keeps
    <2> QED
      BY <1>1, <1>2, <1>3, <1>4, <2>1, <2>3, EmptyWhole, WholeEnters, StepKeeps
  <1> QED
    BY <1>6, <1>7

(* finalizeShutdownIfDrained.                                                *)
LEMMA FinalizeStep ==
    ASSUME IInv, NEW f \in Fibers, Finalize(f)
    PROVE  IInv'
  <1>1. UNCHANGED <<hub, snapshot, unsaid>>
    BY DEF Finalize
  <1>2. Typed /\ now["pending"] \in Nat /\ hub \in Nat /\ script[f] \in Seq(Labels)
    BY DEF IInv, Typed, NowTyped
  <1>3. PICK l \in {"isDraining", "noPending", "noInFlight", "off"} : At(f, l)
    BY DEF Finalize
  <1>4. /\ script[f] # <<>> /\ Head(script[f]) = l /\ l \in Forks /\ NotReading(script[f])
        /\ Tail(script[f]) \in Seq(Labels) /\ Chained(Tail(script[f]))
        /\ l # "off" => Tail(script[f]) # <<>> /\ Head(Tail(script[f])) = Succ[l]
    BY <1>2, <1>3, AtHead, SuccIs DEF Later, Joined, Forks
  <1>5. l \in {"noPending", "noInFlight", "off"} => now["phase"] # "running"
    BY <1>2, <1>4 DEF Typed, InTurn, Closing
  <1>6. CASE l # "off"
    <2>1. UNCHANGED now /\ (Goes(f, <<>>) \/ (Goes(f, Tail(script[f])) /\ now["phase"] # "running"))
      BY <1>3, <1>5, <1>6 DEF Finalize, At
    <2>2. now'["phase"] # "running" => Enters(Tail(script[f]))
      BY <1>3, <1>4, <1>6, SuccIs DEF Enters, NotReading, Later
    <2>3. Enters(<<>>)
      BY EmptyWhole, WholeEnters
    <2> QED
      BY <1>1, <1>4, <2>1, <2>2, <2>3, ForkStep
  <1>7. CASE l = "off"
    <2> DEFINE rest == IF now["phase"] = "draining" THEN Event \o refreshStatus ELSE <<>>
    <2>1. Goes(f, rest) /\ Put("phase", "off")
      BY <1>3, <1>7 DEF Finalize, At
    <2>2. Moves /\ now'["phase"] = "off" /\ \A k \in Fields \ {"phase"} : now'[k] = now[k]
      BY <1>2, <2>1, PutIs DEF Fields
    <2>3. Whole(rest)
      BY EventWhole, RefreshWhole, EmptyWhole, WholeConcat
    <2>4. CASE now["phase"] = "draining"
      <3>1. Event \in Seq(Labels) /\ refreshStatus \in Seq(Labels)
        BY EventWhole, RefreshWhole DEF Whole
      <3>2. \A field \in Fields : Sure(Event, field)
        BY <3>1, EventWhole, SureFirst DEF Announces
      <3>3. \A field \in Fields : Sure(Event \o refreshStatus, field)
        BY <3>1, <3>2, ConcatSure
      <3>4. \A field \in Fields \ unsaid' : Keeps(f, rest, field)
        BY <2>4, <3>3 DEF Keeps
      <3> HIDE DEF rest
      <3> QED
        BY <1>1, <1>2, <1>4, <2>1, <2>2, <2>3, <3>4, WholeEnters, StepKeeps
    <2>5. CASE now["phase"] # "draining"
      <3>1. now["phase"] = "off"
        BY <1>2, <1>5, <1>7, <2>5 DEF Typed, NowTyped
      <3>2. \A field : ~Sure(script[f], field)
        BY <1>2, <1>4, ForkUnsure
      <3>3. \A field \in Fields \ unsaid' : Keeps(f, rest, field)
        BY <1>1, <1>2, <2>2, <3>1, <3>2 DEF Keeps
      <3> HIDE DEF rest
      <3> QED
        BY <1>1, <1>2, <1>4, <2>1, <2>2, <2>3, <3>3, WholeEnters, StepKeeps
    <2> QED
      BY <2>4, <2>5
  <1> QED
    BY <1>6, <1>7

(* A computation reads the next field: the field is known, and as it is.        *)
LEMMA ReadStep ==
    ASSUME IInv, NEW f \in Fibers, NEW field \in Fields, Read(f, field)
    PROVE  IInv'
  <1>1. /\ At(f, field) /\ Goes(f, Tail(script[f])) /\ unsaid' = unsaid \ {field}
        /\ UNCHANGED <<now, hub, status, overtaken, outdated>>
        /\ view' = [view EXCEPT ![f] = [k \in DOMAIN view[f] \cup {field} |->
                                          IF k = field THEN now[k] ELSE view[f][k]]]
    BY DEF Read, Advance, queue
  <1>2. Typed /\ script[f] \in Seq(Labels)
    BY DEF IInv, Typed
  <1>3. /\ Tail(script[f]) \in Seq(Labels) /\ Chained(Tail(script[f]))
        /\ Tail(script[f]) # <<>> /\ Head(Tail(script[f])) = Succ[field]
        /\ script[f] # <<>> /\ Head(script[f]) = field
    BY <1>1, <1>2, AtHead, SuccIs DEF Joined
  <1>4. /\ DOMAIN script' = Fibers /\ script'[f] = Tail(script[f])
        /\ \A g \in Fibers \ {f} : script'[g] = script[g]
    BY <1>1, <1>2 DEF Typed, Goes
  <1>5. /\ DOMAIN view' = Fibers /\ DOMAIN view'[f] = DOMAIN view[f] \cup {field}
        /\ view'[f][field] = now[field]
        /\ \A k \in DOMAIN view[f] \ {field} : view'[f][k] = view[f][k]
        /\ \A g \in Fibers \ {f} : view'[g] = view[g]
    BY <1>1, <1>2 DEF Typed
  <1>6. Typed'
    <2>1. ReadSoFar(f)'
      <3>1. ReadSoFar(f)
        BY <1>2 DEF Typed
      <3>2. DOMAIN NoView = {}
        BY DEF NoView
      <3>3. At(f, Succ[field])'
        BY <1>3, <1>4 DEF At
      <3>4. CASE field = "pending"
        BY <1>3, <1>5, <3>1, <3>2, <3>3, <3>4, SuccIs DEF ReadSoFar, At, NotReading
      <3>5. CASE field = "paused"
        BY <1>3, <1>5, <3>1, <3>2, <3>3, <3>5, SuccIs DEF ReadSoFar, At, NotReading, Later
      <3>6. CASE field = "inFlight"
        BY <1>3, <1>5, <3>1, <3>2, <3>3, <3>6, SuccIs DEF ReadSoFar, At, NotReading, Later
      <3>7. CASE field = "completed"
        BY <1>3, <1>5, <3>1, <3>2, <3>3, <3>7, SuccIs DEF ReadSoFar, At, NotReading, Later
      <3>8. CASE field = "phase"
        <4>1. DOMAIN view'[f] = Fields
          BY <1>3, <1>5, <3>1, <3>8 DEF ReadSoFar, At, NotReading, Later, Fields
        <4> QED
          BY <3>3, <3>8, <4>1, SuccIs DEF ReadSoFar
      <3> QED
        BY <3>4, <3>5, <3>6, <3>7, <3>8 DEF Fields
    <2>2. InTurn(script[f])'
      BY <1>3, <1>4, SuccIs DEF InTurn, Fields, Closing
    <2>3. ASSUME NEW g \in Fibers \ {f}
          PROVE  script'[g] \in Seq(Labels) /\ Chained(script'[g]) /\ ReadSoFar(g)' /\ InTurn(script[g])'
      BY <1>1, <1>2, <1>4, <1>5 DEF Typed, ReadSoFar, At, InTurn
    <2>4. NowTyped' /\ hub' \in Nat
      BY <1>1, <1>2 DEF Typed, NowTyped
    <2>5. script'[f] \in Seq(Labels) /\ Chained(script'[f])
      BY <1>3, <1>4
    <2> QED
      BY <1>4, <1>5, <2>1, <2>2, <2>3, <2>4, <2>5 DEF Typed
  <1>7. ASSUME NEW k \in Fields \ unsaid'
        PROVE  Followed(k)'
    <2>1. CASE k = field
      BY <1>1, <1>5, <2>1 DEF Followed
    <2>2. CASE k # field
      <3>1. Followed(k)
        BY <1>1, <2>2 DEF IInv
      <3>2. CASE hub > 0
        BY <1>1, <3>2 DEF Followed
      <3>3. ASSUME NEW g \in Fibers, Sure(script[g], k)
            PROVE  Followed(k)'
        <4>1. field \notin Announces(k)
          BY <2>2 DEF Announces, Fields
        <4>2. Sure(script'[g], k)
          BY <1>2, <1>3, <1>4, <3>3, <4>1, TailSure
        <4> QED
          BY <4>2 DEF Followed
      <3>4. ASSUME NEW g \in Fibers, k \in DOMAIN view[g], view[g][k] = now[k]
            PROVE  Followed(k)'
        <4>1. k \in DOMAIN view'[g] /\ view'[g][k] = now'[k]
          BY <1>1, <1>5, <2>2, <3>4
        <4> QED
          BY <4>1 DEF Followed
      <3>5. CASE Fresh(k)
        <4>1. \A g \in Fibers : g \in overtaken' \/ Right(g, k)'
          BY <1>1, <1>5, <2>2, <3>5 DEF Fresh, Right
        <4> QED
          BY <1>1, <3>5, <4>1 DEF Followed, Fresh
      <3> QED
        BY <3>1, <3>2, <3>3, <3>4, <3>5 DEF Followed
    <2> QED
      BY <2>1, <2>2
  <1> QED
    BY <1>6, <1>7 DEF IInv

(* The snapshot is replaced.                                                 *)
LEMMA ShowStep ==
    ASSUME IInv, NEW f \in Fibers, Show(f)
    PROVE  IInv'
  <1>1. /\ At(f, "show") /\ Goes(f, Tail(script[f])) /\ status' = view[f]
        /\ view' = [view EXCEPT ![f] = NoView] /\ outdated' = (f \in overtaken)
        /\ overtaken' = {g \in Fibers \ {f} : Computing(g)}
        /\ UNCHANGED <<now, hub, unsaid>>
    BY DEF Show, Advance, queue
  <1>2. Typed /\ script[f] \in Seq(Labels) /\ DOMAIN NoView = {}
    BY DEF IInv, Typed, NoView
  <1>3. /\ Whole(Tail(script[f])) /\ script[f] # <<>> /\ Head(script[f]) = "show"
    BY <1>1, <1>2, AtHead DEF Joined, Fields
  <1>4. /\ DOMAIN script' = Fibers /\ script'[f] = Tail(script[f])
        /\ \A g \in Fibers \ {f} : script'[g] = script[g]
    BY <1>1, <1>2 DEF Typed, Goes
  <1>5. /\ DOMAIN view' = Fibers /\ view'[f] = NoView
        /\ \A g \in Fibers \ {f} : view'[g] = view[g]
    BY <1>1, <1>2 DEF Typed
  <1>6. DOMAIN view[f] = Fields
    <2>1. ReadSoFar(f)
      BY <1>2 DEF Typed
    <2> QED
      BY <1>3, <2>1 DEF ReadSoFar, At, NotReading, Later
  <1>7. Typed'
    <2>1. ReadSoFar(f)' /\ InTurn(script[f])' /\ script'[f] \in Seq(Labels) /\ Chained(script'[f])
      BY <1>3, <1>4, <1>5 DEF ReadSoFar, NotReading, InTurn, Whole, Opens, Inner
    <2>2. ASSUME NEW g \in Fibers \ {f}
          PROVE  script'[g] \in Seq(Labels) /\ Chained(script'[g]) /\ ReadSoFar(g)' /\ InTurn(script[g])'
      BY <1>1, <1>2, <1>4, <1>5 DEF Typed, ReadSoFar, At, InTurn
    <2> QED
      BY <1>1, <1>2, <1>4, <1>5, <2>1, <2>2 DEF Typed, NowTyped
  <1>8. ASSUME NEW k \in Fields \ unsaid'
        PROVE  Followed(k)'
    <2>0. /\ Followed(k)
          /\ \A g \in Fibers : g \in overtaken' \/ Right(g, k)'
      <3>1. \A g \in Fibers \ {f} : g \notin overtaken' => view[g] = NoView
        BY <1>1 DEF Computing
      <3>2. \A g \in Fibers : g \in overtaken' \/ view'[g] = NoView
        BY <1>5, <3>1
      <3> QED
        BY <1>1, <1>2, <3>2 DEF IInv, Right
    <2>1. ASSUME f \in overtaken \/ view[f][k] = now[k]
          PROVE  Followed(k)'
      BY <1>1, <2>0, <2>1 DEF Followed, Fresh
    <2>2. CASE hub > 0
      BY <1>1, <2>2 DEF Followed
    <2>3. ASSUME NEW g \in Fibers, Sure(script[g], k)
          PROVE  Followed(k)'
      <3>1. "show" \notin Announces(k)
        BY DEF Announces, Fields
      <3>2. Sure(script'[g], k)
        BY <1>2, <1>3, <1>4, <2>3, <3>1, TailSure
      <3> QED
        BY <3>2 DEF Followed
    <2>4. ASSUME NEW g \in Fibers, k \in DOMAIN view[g], view[g][k] = now[k]
          PROVE  Followed(k)'
      <3>1. CASE g = f
        BY <2>1, <2>4, <3>1
      <3>2. CASE g # f
        <4>1. view'[g] = view[g] /\ now'[k] = now[k]
          BY <1>1, <1>5, <3>2
        <4> QED
          BY <2>4, <4>1 DEF Followed
      <3> QED
        BY <3>1, <3>2
    <2>5. CASE Fresh(k)
      <3>1. f \in overtaken \/ view[f][k] = now[k]
        BY <1>6, <2>5 DEF Fresh, Right
      <3> QED
        BY <2>1, <3>1
    <2> QED
      BY <2>0, <2>2, <2>3, <2>4, <2>5 DEF Followed
  <1> QED
    BY <1>7, <1>8 DEF IInv

LEMMA NextFollowed ==
    ASSUME IInv, [Next]_vars
    PROVE  IInv'
  <1>1. CASE UNCHANGED vars
    <2>1. Typed'
      <3>1. UNCHANGED <<now, hub, script, view>>
        BY <1>1 DEF vars, queue, snapshot
      <3>2. \A f \in Fibers : ReadSoFar(f)' /\ InTurn(script[f])'
        BY <3>1 DEF IInv, Typed, ReadSoFar, At, InTurn
      <3> QED
        BY <3>1, <3>2 DEF IInv, Typed, NowTyped
    <2>2. \A field \in Fields \ unsaid' : Followed(field)'
      BY <1>1 DEF IInv, vars, queue, snapshot, Followed, Fresh, Right
    <2> QED
      BY <2>1, <2>2 DEF IInv
  <1>2. ASSUME NEW w \in Workers, workerLoop(w) \/ takeNext(w) \/ AwaitLatch(w) \/ RunEffect(w)
                                    \/ WriteInFlight(w)
        PROVE  IInv'
    BY <1>2, WaitStep, TakeNextStep, WriteInFlightStep DEF Fibers
  <1>3. ASSUME NEW c \in Clients, Call(c) \/ Extract(c) \/ Restore(c) \/ SetDraining(c) \/ SetShutdown(c)
        PROVE  IInv'
    BY <1>3, WaitStep, ExtractStep, RestoreStep, DrainingStep, LatchStep DEF Fibers
  <1>4. ASSUME NEW f \in Fibers, Step(f)
        PROVE  IInv'
    BY <1>4, WriteStep, WaitStep, OfferStep, LatchStep, FinalizeStep, PublishStep, ReadStep,
       ShowStep DEF Step
  <1>5. CASE TakeEvent
    BY <1>5, TakeEventStep
  <1> QED
    BY <1>1, <1>2, <1>3, <1>4, <1>5 DEF Next

(* When nothing is under way and no event waits, the snapshot shown is what the  *)
(* queue is, for any number of workers and callers, whatever events were lost   *)
(* (queueResource.ts, refreshStatus, publishEvent and the handlers).            *)
THEOREM SnapshotFollows == Spec => []StatusFollows
  <1>1. Init => IInv
    <2> SUFFICES ASSUME Init
                 PROVE  IInv
      OBVIOUS
    <2>1. Typed
      <3>1. Whole(<<>>)
        BY EmptyWhole
      <3>2. NowTyped /\ hub \in Nat
        BY DEF Init, Start, NowTyped, Fields
      <3> QED
        BY <3>1, <3>2 DEF Init, Typed, Whole, ReadSoFar, NotReading, InTurn
    <2>2. \A field \in Fields : Followed(field)
      BY DEF Init, Followed, Fresh, Right, NoView
    <2> QED
      BY <2>1, <2>2 DEF IInv
  <1>2. IInv /\ [Next]_vars => IInv'
    BY NextFollowed
  <1>3. IInv => StatusFollows
    <2> SUFFICES ASSUME IInv, Settled, NEW field \in Fields \ unsaid
                 PROVE  status[field] = now[field]
      BY DEF StatusFollows
    <2>1. \A f \in Fibers : script[f] \in Seq(Labels) /\ NotReading(script[f])
            /\ (script[f] = <<>> \/ Head(script[f]) \in Forks)
      BY DEF Settled, At, IInv, Typed, NotReading, Forks, Later
    <2>2. \A f \in Fibers : view[f] = NoView /\ ~Sure(script[f], field)
      BY <2>1, NoReadNoView, ForkUnsure DEF IInv
    <2>3. Followed(field) /\ ~(hub > 0) /\ ~outdated
      BY DEF IInv, Settled
    <2> QED
      BY <2>2, <2>3 DEF Followed, Fresh, NoView
  <1> QED
    BY <1>1, <1>2, <1>3, PTL DEF Spec
=============================================================================
