----------------------- MODULE NotifyDriverShm_proofs -----------------------
(***************************************************************************)
(* Proofs about NotifyDriverShm, for any number of events, sending threads *)
(* and tasks.                                                              *)
(*                                                                         *)
(* The tables belong to whoever is in charge of them: an event's entry to  *)
(* the sender that disabled the interrupts, while its flag is DOWN, and to *)
(* the receiver while it is UP; the chart to the ISR, or to the task that  *)
(* switched the line off.  With that, a payload is in one of three places: *)
(* in the entry, in the ISR's hands, or with the callback.                 *)
(***************************************************************************)
EXTENDS NotifyDriverShm, SequenceTheorems, TLAPS

\* disableEvent does not enter the module gate, so its switching the line on at the end
\* would uncover another task's call: events are switched by the only task, or not at all.
OneSwitcher == Switchable = {} \/ \A t, u \in Tasks : t = u

-----------------------------------------------------------------------------
(* The invariant                                                           *)

GateLabels == {"regDisable", "regChart", "regFlag", "regMask", "regEnable", "unregDisable",
               "unregMask", "unregFlag", "unregChart", "unregEnable", "unregCallback"}
SwitchLabels == {"evtDisable", "evtTest", "evtExec", "evtEnable"}
\* Between switching the line off and on.
Inside == {"regChart", "regFlag", "regMask", "regEnable", "unregMask", "unregFlag",
           "unregChart", "unregEnable", "evtTest", "evtExec", "evtEnable"}

\* The calls of the tasks: one at a time is in the gate, and who has switched the line off
\* finds it off.
CallsInv ==
    /\ \A t \in Tasks : tpc[t] \in GateLabels <=> gate = t
    /\ \A t \in Tasks : /\ tpc[t] \in GateLabels => tev[t] \in Registrable
                        /\ tpc[t] \in SwitchLabels => tev[t] \in Switchable
                        /\ tpc[t] \in Inside => ~ lineEnabled /\ ipc = "off"

\* The events that can be registered at all.
Known == ToSet(ChartAtStart) \cup Registrable

\* The chart and the callbacks hold the same events, but for the one that is being changed.
Changing(e) == \E t \in Tasks :
    tev[t] = e /\ tpc[t] \in {"regDisable", "regChart", "unregEnable", "unregCallback"}
ChartInv ==
    /\ InOrder(regChart) /\ eventRegMask \subseteq Known
    /\ \A e \in Events : e \in ToSet(regChart) <=> e \in callbacks /\ ~ Changing(e)
    /\ \A t \in Tasks : tpc[t] \in GateLabels => tev[t] \in callbacks
    /\ ToSet(ChartAtStart) \ Registrable \subseteq callbacks

\* The ISR: the event it has found is registered and enabled, and stays so.
Serving(e) == ipc \in {"payload", "ack", "exec"} /\ regChart[index] = e
IsrInv ==
    /\ ipc = "off" => index = 1
    /\ ipc \in {"payload", "ack", "exec"} =>
          index \in DOMAIN regChart /\ regChart[index] \in eventEnableMask
    /\ ipc \in {"payload", "ack"} => flag[regChart[index]]
    /\ ipc \in {"ack", "exec"} => ipayload \in Payloads

\* The senders: one at a time has disabled the interrupts and writes.
SendInv ==
    /\ \A s \in Senders : spc[s] \in {"payload", "flag", "int"} <=> hwi = s
    /\ \A s \in Senders : spc[s] # "idle" =>
          /\ spayload[s] \in Payloads /\ sev[s] \in Known
          /\ spc[s] = "lock" => sev[s] \in NoWaitClear
          /\ spc[s] = "flag" => payload[sev[s]] = spayload[s]
    /\ \A e \in Events : flag[e] => payload[e] \in Payloads /\ e \in Known
    /\ \A t \in Tasks : tpc[t] = "evtExec" => payload[tev[t]] \in Payloads /\ tev[t] \in Known

DriverInv == TypeOK /\ CallsInv /\ ChartInv /\ IsrInv /\ SendInv

\* The ISR has got the payload of event e, or it still has to call the callback with it.
Holds(label, e) == ipc = label /\ regChart[index] = e
Writing(s, e) == spc[s] \in {"payload", "flag"} /\ sev[s] = e

\* An event sent with waitClear: its entry is written while the flag is DOWN.
EntryInv(e) ==
    /\ \A s \in Senders : Writing(s, e) => ~ flag[e]
    /\ flag[e] => sent[e] # <<>> /\ payload[e] = sent[e][Len(sent[e])]
    /\ Holds("ack", e) => ipayload = payload[e]

\* How many were sent before the one that is UP.
Before(e) == IF flag[e] THEN Len(sent[e]) - 1 ELSE Len(sent[e])

\* The payload in the ISR's hands is behind all that were executed, the one in the entry behind
\* that.
OrderInv(e) ==
    IF Holds("exec", e)
    THEN \E m \in 1 .. Before(e) : sent[e][m] = ipayload /\ Embeds(got[e], sent[e], m - 1)
    ELSE Embeds(got[e], sent[e], Before(e))

\* When nothing is dropped, what was sent is what was executed and those two.
StreamInv(e) ==
    /\ Len(got[e]) = Before(e) - (IF Holds("exec", e) THEN 1 ELSE 0)
    /\ \A i \in 1 .. Len(got[e]) : got[e][i] = sent[e][i]
    /\ Holds("exec", e) => ipayload = sent[e][Len(got[e]) + 1]

HistoryInv ==
    /\ \A e \in Events \ NoWaitClear : EntryInv(e)
    /\ \A e \in Events \ (Switchable \cup NoWaitClear) : OrderInv(e)
    /\ \A e \in Waited : StreamInv(e)
-----------------------------------------------------------------------------
(* Sequences: inserting into one, removing from one, embedding one in another *)

\* The elements of a sequence after an insertion.
LEMMA Inserted ==
    ASSUME NEW S, NEW s \in Seq(S), NEW e \in S, NEW k \in 0 .. Len(s)
    PROVE  /\ InsertAt(s, k + 1, e) \in Seq(S) /\ Len(InsertAt(s, k + 1, e)) = Len(s) + 1
           /\ \A i \in 1 .. Len(s) + 1 : InsertAt(s, k + 1, e)[i] =
                IF i <= k THEN s[i] ELSE IF i = k + 1 THEN e ELSE s[i - 1]
<1>1. k \in Nat /\ Len(s) \in Nat /\ k <= Len(s) /\ (k + 1) - 1 = k
  OBVIOUS
<1>2. PICK a : a = SubSeq(s, 1, k)
  OBVIOUS
<1>3. PICK c : c = SubSeq(s, k + 1, Len(s))
  OBVIOUS
<1>4. PICK b : b = <<e>>
  OBVIOUS
<1>5. a \in Seq(S) /\ Len(a) = k /\ \A i \in 1 .. k : a[i] = s[i]
  BY <1>1, <1>2, SubSeqProperties
<1>6. c \in Seq(S) /\ Len(c) = Len(s) - k /\ \A i \in 1 .. Len(s) - k : c[i] = s[k + i]
  <2>1. k + 1 \in Int /\ \A i \in k + 1 .. Len(s) : s[i] \in S
    BY <1>1
  <2>2. /\ c \in Seq(S) /\ Len(c) = IF k + 1 <= Len(s) THEN Len(s) - (k + 1) + 1 ELSE 0
        /\ \A i \in 1 .. Len(s) - (k + 1) + 1 : c[i] = s[(k + 1) + i - 1]
    BY <1>1, <1>3, <2>1, SubSeqProperties
  <2> QED BY <1>1, <2>2
<1>7. b \in Seq(S) /\ Len(b) = 1 /\ b[1] = e
  BY <1>4
<1>8. PICK ab : ab = a \o b
  OBVIOUS
<1>9. /\ ab \in Seq(S) /\ Len(ab) = k + 1
      /\ \A i \in 1 .. k + 1 : ab[i] = IF i <= k THEN a[i] ELSE b[i - k]
  <2>1. /\ ab \in Seq(S) /\ Len(ab) = Len(a) + Len(b)
        /\ \A i \in 1 .. Len(a) + Len(b) : ab[i] = IF i <= Len(a) THEN a[i] ELSE b[i - Len(a)]
    BY <1>5, <1>7, <1>8, ConcatProperties
  <2> QED BY <1>1, <1>5, <1>7, <2>1
<1>10. PICK r : r = ab \o c
  OBVIOUS
<1>11. /\ r \in Seq(S) /\ Len(r) = Len(s) + 1
       /\ \A i \in 1 .. Len(s) + 1 : r[i] = IF i <= k + 1 THEN ab[i] ELSE c[i - (k + 1)]
  <2>1. /\ r \in Seq(S) /\ Len(r) = Len(ab) + Len(c)
        /\ \A i \in 1 .. Len(ab) + Len(c) : r[i] = IF i <= Len(ab) THEN ab[i] ELSE c[i - Len(ab)]
    BY <1>6, <1>9, <1>10, ConcatProperties
  <2>2. Len(ab) + Len(c) = Len(s) + 1
    BY <1>1, <1>6, <1>9
  <2> QED BY <1>9, <2>1, <2>2
<1>12. ASSUME NEW i \in 1 .. Len(s) + 1
       PROVE  r[i] = IF i <= k THEN s[i] ELSE IF i = k + 1 THEN e ELSE s[i - 1]
  <2>1. i \in Nat /\ 1 <= i /\ i <= Len(s) + 1
    BY <1>1
  <2>2. CASE i <= k
    BY <1>1, <1>5, <1>9, <1>11, <2>1, <2>2
  <2>3. CASE i = k + 1
    BY <1>1, <1>7, <1>9, <1>11, <2>1, <2>3
  <2>4. CASE i > k + 1
    <3>1. i - (k + 1) \in 1 .. Len(s) - k /\ k + (i - (k + 1)) = i - 1
      BY <1>1, <2>1, <2>4
    <3>2. r[i] = c[i - (k + 1)]
      BY <1>1, <1>11, <2>1, <2>4
    <3>3. c[i - (k + 1)] = s[k + (i - (k + 1))]
      BY <1>6, <3>1
    <3> QED BY <1>1, <2>1, <2>4, <3>1, <3>2, <3>3
  <2> QED BY <1>1, <2>1, <2>2, <2>3, <2>4
<1>13. InsertAt(s, k + 1, e) = r
  BY <1>1, <1>2, <1>3, <1>4, <1>8, <1>10 DEF InsertAt
<1> QED BY <1>11, <1>12, <1>13

\* The elements of a sequence after a removal.
LEMMA Removed ==
    ASSUME NEW S, NEW s \in Seq(S), NEW k \in 1 .. Len(s)
    PROVE  /\ RemoveAt(s, k) \in Seq(S) /\ Len(RemoveAt(s, k)) = Len(s) - 1
           /\ \A i \in 1 .. Len(s) - 1 : RemoveAt(s, k)[i] = IF i < k THEN s[i] ELSE s[i + 1]
<1>1. k \in Nat /\ Len(s) \in Nat /\ 1 <= k /\ k <= Len(s) /\ k - 1 \in Nat
  OBVIOUS
<1>2. PICK a : a = SubSeq(s, 1, k - 1)
  OBVIOUS
<1>3. PICK c : c = SubSeq(s, k + 1, Len(s))
  OBVIOUS
<1>4. a \in Seq(S) /\ Len(a) = k - 1 /\ \A i \in 1 .. k - 1 : a[i] = s[i]
  BY <1>1, <1>2, SubSeqProperties
<1>5. c \in Seq(S) /\ Len(c) = Len(s) - k /\ \A i \in 1 .. Len(s) - k : c[i] = s[k + i]
  <2>1. k + 1 \in Int /\ \A i \in k + 1 .. Len(s) : s[i] \in S
    BY <1>1
  <2>2. /\ c \in Seq(S) /\ Len(c) = IF k + 1 <= Len(s) THEN Len(s) - (k + 1) + 1 ELSE 0
        /\ \A i \in 1 .. Len(s) - (k + 1) + 1 : c[i] = s[(k + 1) + i - 1]
    BY <1>1, <1>3, <2>1, SubSeqProperties
  <2> QED BY <1>1, <2>2
<1>6. PICK r : r = a \o c
  OBVIOUS
<1>7. /\ r \in Seq(S) /\ Len(r) = Len(s) - 1
      /\ \A i \in 1 .. Len(s) - 1 : r[i] = IF i <= k - 1 THEN a[i] ELSE c[i - (k - 1)]
  <2>1. /\ r \in Seq(S) /\ Len(r) = Len(a) + Len(c)
        /\ \A i \in 1 .. Len(a) + Len(c) : r[i] = IF i <= Len(a) THEN a[i] ELSE c[i - Len(a)]
    BY <1>4, <1>5, <1>6, ConcatProperties
  <2>2. Len(a) + Len(c) = Len(s) - 1
    BY <1>1, <1>4, <1>5
  <2> QED BY <1>4, <2>1, <2>2
<1>8. ASSUME NEW i \in 1 .. Len(s) - 1
      PROVE  r[i] = IF i < k THEN s[i] ELSE s[i + 1]
  <2>1. i \in Nat /\ 1 <= i /\ i <= Len(s) - 1
    BY <1>1
  <2>2. CASE i < k
    BY <1>1, <1>4, <1>7, <2>1, <2>2
  <2>3. CASE i >= k
    <3>1. i - (k - 1) \in 1 .. Len(s) - k /\ k + (i - (k - 1)) = i + 1
      BY <1>1, <2>1, <2>3
    <3> QED BY <1>1, <1>5, <1>7, <2>1, <2>3, <3>1
  <2> QED BY <1>1, <2>1, <2>2, <2>3
<1>9. RemoveAt(s, k) = r
  BY <1>2, <1>3, <1>6 DEF RemoveAt
<1> QED BY <1>7, <1>8, <1>9

\* Where Insert puts an event, the chart stays in order and gains that event only.
LEMMA InsertKeepsOrder ==
    ASSUME NEW c \in Seq(Events), InOrder(c), NEW e \in Events, e \notin ToSet(c),
           NEW k \in 0 .. Len(c), \A i \in DOMAIN c : i <= k <=> c[i] <= e,
           NEW d, d = InsertAt(c, k + 1, e)
    PROVE  d \in Seq(Events) /\ InOrder(d) /\ ToSet(d) = ToSet(c) \cup {e}
<1>1. /\ d \in Seq(Events) /\ Len(d) = Len(c) + 1
      /\ \A i \in 1 .. Len(c) + 1 : d[i] =
            IF i <= k THEN c[i] ELSE IF i = k + 1 THEN e ELSE c[i - 1]
  <2>1. /\ InsertAt(c, k + 1, e) \in Seq(Events) /\ Len(InsertAt(c, k + 1, e)) = Len(c) + 1
        /\ \A i \in 1 .. Len(c) + 1 : InsertAt(c, k + 1, e)[i] =
              IF i <= k THEN c[i] ELSE IF i = k + 1 THEN e ELSE c[i - 1]
    <3>1. c \in Seq(Events) /\ e \in Events /\ k \in 0 .. Len(c)
      OBVIOUS
    <3> QED BY ONLY <3>1, Inserted
  <2> QED BY <2>1
<1>2. k \in Nat /\ Len(c) \in Nat /\ k <= Len(c) /\ e \in Nat
      /\ DOMAIN c = 1 .. Len(c) /\ DOMAIN d = 1 .. Len(c) + 1
  BY <1>1, EventsAssumption
<1>3. /\ \A i \in 1 .. Len(c) : c[i] \in Nat /\ c[i] \in ToSet(c) /\ c[i] # e
      /\ \A i \in 1 .. Len(c) : i <= k <=> c[i] <= e
  <2>1. Events \subseteq Nat
    BY EventsAssumption
  <2>2. \A i \in 1 .. Len(c) : c[i] \in Events
    OBVIOUS
  <2>3. \A i \in 1 .. Len(c) : c[i] \in ToSet(c)
    BY <1>2 DEF ToSet
  <2> QED BY <1>2, <2>1, <2>2, <2>3
<1>4. InOrder(d)
  <2>1. SUFFICES ASSUME NEW i \in 1 .. Len(c) + 1, NEW j \in 1 .. Len(c) + 1, i < j
                 PROVE  d[i] < d[j]
    BY <1>2 DEF InOrder
  <2>2. i \in Nat /\ j \in Nat
    BY <1>2
  <2>3. \A x, y \in 1 .. Len(c) : x < y => c[x] < c[y]
    BY <1>2 DEF InOrder
  <2>4. CASE j <= k
    BY <1>1, <1>2, <2>1, <2>2, <2>3, <2>4
  <2>5. CASE j = k + 1
    <3>1. i \in 1 .. Len(c) /\ d[i] = c[i] /\ c[i] <= e /\ d[j] = e
      <4>1. i <= k /\ i \in 1 .. Len(c)
        BY <1>2, <2>1, <2>2, <2>5
      <4>2. d[i] = c[i] /\ c[i] <= e
        BY <1>1, <1>3, <4>1
      <4>3. d[j] = e
        BY <1>1, <1>2, <2>5
      <4> QED BY <4>1, <4>2, <4>3
    <3> QED BY <1>2, <1>3, <3>1
  <2>6. CASE j > k + 1
    <3>1. j - 1 \in 1 .. Len(c) /\ d[j] = c[j - 1] /\ ~ (j - 1 <= k)
      BY <1>1, <1>2, <2>2, <2>6
    <3>2. c[j - 1] > e
      BY <1>2, <1>3, <3>1
    <3>3. CASE i <= k
      <4>1. i \in 1 .. Len(c) /\ d[i] = c[i] /\ c[i] <= e
        BY <1>1, <1>2, <2>2, <3>3
      <4>2. c[i] \in Nat /\ c[j - 1] \in Nat
        BY <1>3, <3>1, <4>1
      <4> QED BY <1>2, <3>1, <3>2, <4>1, <4>2
    <3>4. CASE i = k + 1
      BY <1>1, <1>2, <3>1, <3>2, <3>4
    <3>5. CASE i > k + 1
      <4>1. i - 1 \in 1 .. Len(c) /\ d[i] = c[i - 1] /\ i - 1 < j - 1
        BY <1>1, <1>2, <2>1, <2>2, <3>5
      <4> QED BY <2>3, <3>1, <4>1
    <3> QED BY <1>2, <2>2, <3>3, <3>4, <3>5
  <2> QED BY <1>2, <2>2, <2>4, <2>5, <2>6
<1>5. ToSet(d) \subseteq ToSet(c) \cup {e}
  <2>1. SUFFICES ASSUME NEW i \in 1 .. Len(c) + 1 PROVE d[i] \in ToSet(c) \cup {e}
    BY <1>2 DEF ToSet
  <2>2. CASE i <= k
    BY <1>1, <1>2, <1>3, <2>2
  <2>3. CASE i = k + 1
    BY <1>1, <1>2, <2>3
  <2>4. CASE i > k + 1
    <3>1. i - 1 \in 1 .. Len(c) /\ d[i] = c[i - 1]
      BY <1>1, <1>2, <2>4
    <3> QED BY <1>3, <3>1
  <2> QED BY <1>2, <2>2, <2>3, <2>4
<1>6. ToSet(c) \cup {e} \subseteq ToSet(d)
  <2>1. \A i \in 1 .. Len(c) + 1 : d[i] \in ToSet(d)
    BY <1>2 DEF ToSet
  <2>2. k + 1 \in 1 .. Len(c) + 1 /\ d[k + 1] = e
    BY <1>1, <1>2
  <2>3. ASSUME NEW i \in 1 .. Len(c) PROVE c[i] \in ToSet(d)
    <3>1. CASE i <= k
      <4>1. i \in 1 .. Len(c) + 1 /\ d[i] = c[i]
        BY <1>1, <1>2, <3>1
      <4> QED BY <2>1, <4>1
    <3>2. CASE i > k
      <4>1. i + 1 \in 1 .. Len(c) + 1 /\ d[i + 1] = c[(i + 1) - 1] /\ (i + 1) - 1 = i
        BY <1>1, <1>2, <3>2
      <4> QED BY <2>1, <4>1
    <3> QED BY <1>2, <3>1, <3>2
  <2>4. ToSet(c) \subseteq ToSet(d)
    BY <1>2, <2>3 DEF ToSet
  <2> QED BY <2>1, <2>2, <2>4
<1> QED BY <1>1, <1>4, <1>5, <1>6

\* Where Delete closes the place of an event, the chart stays in order and loses that event
\* only.
LEMMA DeleteKeepsOrder ==
    ASSUME NEW c \in Seq(Events), InOrder(c), NEW k \in DOMAIN c, NEW d, d = RemoveAt(c, k)
    PROVE  d \in Seq(Events) /\ InOrder(d) /\ ToSet(d) = ToSet(c) \ {c[k]}
<1>1. DOMAIN c = 1 .. Len(c) /\ Len(c) \in Nat
  OBVIOUS
<1>2. /\ d \in Seq(Events) /\ Len(d) = Len(c) - 1
      /\ \A i \in 1 .. Len(c) - 1 : d[i] = IF i < k THEN c[i] ELSE c[i + 1]
  BY <1>1, Removed
<1>3. k \in Nat /\ 1 <= k /\ k <= Len(c) /\ DOMAIN d = 1 .. Len(c) - 1
  BY <1>1, <1>2
<1>4. \A i, j \in 1 .. Len(c) : i < j => c[i] < c[j]
  BY <1>1 DEF InOrder
<1>5. \A i \in 1 .. Len(c) : c[i] \in Nat
  <2>1. Events \subseteq Nat
    BY EventsAssumption
  <2>2. \A i \in 1 .. Len(c) : c[i] \in Events
    OBVIOUS
  <2> QED BY <2>1, <2>2
<1>6. ASSUME NEW i \in 1 .. Len(c) - 1
      PROVE  \E x \in 1 .. Len(c) : x # k /\ d[i] = c[x] /\ x = IF i < k THEN i ELSE i + 1
  <2>1. CASE i < k
    BY <1>1, <1>2, <1>3, <2>1
  <2>2. CASE i >= k
    <3>1. i + 1 \in 1 .. Len(c) /\ i + 1 # k
      BY <1>1, <1>3, <2>2
    <3> QED BY <1>1, <1>2, <1>3, <2>2, <3>1
  <2> QED BY <1>1, <1>3, <2>1, <2>2
<1>7. InOrder(d)
  <2>1. SUFFICES ASSUME NEW i \in 1 .. Len(c) - 1, NEW j \in 1 .. Len(c) - 1, i < j
                 PROVE  d[i] < d[j]
    BY <1>3 DEF InOrder
  <2>2. PICK x \in 1 .. Len(c) : d[i] = c[x] /\ x = IF i < k THEN i ELSE i + 1
    BY <1>6
  <2>3. PICK y \in 1 .. Len(c) : d[j] = c[y] /\ y = IF j < k THEN j ELSE j + 1
    BY <1>6
  <2>4. x < y
    BY <1>1, <1>3, <2>1, <2>2, <2>3
  <2> QED BY <1>4, <2>2, <2>3, <2>4
<1>8. \A x \in 1 .. Len(c) : x # k => c[x] # c[k]
  <2>1. ASSUME NEW x \in 1 .. Len(c), x # k PROVE c[x] # c[k]
    <3>1. x < k \/ k < x
      BY <1>1, <1>3, <2>1
    <3> QED BY <1>1, <1>4, <1>5, <3>1
  <2> QED BY <2>1
<1>9. ToSet(d) \subseteq ToSet(c) \ {c[k]}
  <2>1. SUFFICES ASSUME NEW i \in 1 .. Len(c) - 1 PROVE d[i] \in ToSet(c) \ {c[k]}
    BY <1>3 DEF ToSet
  <2>2. PICK x \in 1 .. Len(c) : x # k /\ d[i] = c[x]
    BY <1>6
  <2> QED BY <1>1, <1>8, <2>2 DEF ToSet
<1>10. ToSet(c) \ {c[k]} \subseteq ToSet(d)
  <2>1. SUFFICES ASSUME NEW x \in 1 .. Len(c), x # k PROVE c[x] \in ToSet(d)
    BY <1>1 DEF ToSet
  <2>2. \A i \in 1 .. Len(c) - 1 : d[i] \in ToSet(d)
    BY <1>3 DEF ToSet
  <2>3. CASE x < k
    <3>1. x \in 1 .. Len(c) - 1 /\ d[x] = c[x]
      BY <1>1, <1>2, <1>3, <2>3
    <3> QED BY <2>2, <3>1
  <2>4. CASE x > k
    <3>1. x - 1 \in 1 .. Len(c) - 1 /\ d[x - 1] = c[(x - 1) + 1] /\ (x - 1) + 1 = x
      BY <1>1, <1>2, <1>3, <2>4
    <3> QED BY <2>2, <3>1
  <2> QED BY <1>1, <1>3, <2>1, <2>3, <2>4
<1> QED BY <1>2, <1>7, <1>9, <1>10

LEMMA EmbedsEmpty == \A b : Embeds(<<>>, b, 0)
<1> SUFFICES ASSUME NEW b PROVE Embeds(<<>>, b, 0)
  OBVIOUS
<1>1. PICK place : place = [i \in 1 .. 0 |-> i]
  OBVIOUS
<1>2. PICK a : a = <<>>
  OBVIOUS
<1>3. Len(a) = 0 /\ place \in [1 .. 0 -> 1 .. 0] /\ \A i \in 1 .. 0 : FALSE
  BY <1>1, <1>2
<1>4. Embeds(a, b, 0)
  BY <1>3 DEF Embeds
<1> QED BY <1>2, <1>4

\* What is embedded stays so when the other sequence grows.
LEMMA EmbedsGrows ==
    ASSUME NEW S, NEW a \in Seq(S), NEW b, NEW c, NEW n \in Nat, NEW m \in Nat, n <= m,
           \A i \in 1 .. n : c[i] = b[i], Embeds(a, b, n)
    PROVE  Embeds(a, c, m)
<1>1. PICK place \in [1 .. Len(a) -> 1 .. n] :
        /\ \A i \in 1 .. Len(a) : a[i] = b[place[i]]
        /\ \A i, j \in 1 .. Len(a) : i < j => place[i] < place[j]
  BY DEF Embeds
<1>2. place \in [1 .. Len(a) -> 1 .. m]
  <2>1. \A i \in 1 .. n : i \in 1 .. m
    OBVIOUS
  <2> QED BY <1>1, <2>1
<1>3. \A i \in 1 .. Len(a) : a[i] = c[place[i]]
  BY <1>1
<1> QED BY <1>1, <1>2, <1>3 DEF Embeds

\* One more element is embedded when it is found behind the others.
LEMMA EmbedsAppend ==
    ASSUME NEW S, NEW a \in Seq(S), NEW x \in S, NEW b, NEW n \in Nat, NEW m \in 1 .. n,
           b[m] = x, Embeds(a, b, m - 1)
    PROVE  Embeds(Append(a, x), b, n)
<1>1. PICK place \in [1 .. Len(a) -> 1 .. m - 1] :
        /\ \A i \in 1 .. Len(a) : a[i] = b[place[i]]
        /\ \A i, j \in 1 .. Len(a) : i < j => place[i] < place[j]
  BY DEF Embeds
<1>2. PICK len : len = Len(a) /\ len \in Nat
  OBVIOUS
<1>3. PICK c : c = Append(a, x)
  OBVIOUS
<1>4. Len(c) = len + 1 /\ c[len + 1] = x /\ \A i \in 1 .. len : c[i] = a[i]
  BY <1>2, <1>3, AppendProperties
<1>5. m \in Nat /\ m <= n /\ \A i \in 1 .. len : place[i] \in 1 .. n /\ place[i] < m
  BY <1>1, <1>2
<1>6. PICK f : f = [i \in 1 .. len + 1 |-> IF i = len + 1 THEN m ELSE place[i]]
  OBVIOUS
<1>7. \A i \in 1 .. len + 1 : (i \in 1 .. len /\ f[i] = place[i] /\ i # len + 1)
                              \/ (i = len + 1 /\ f[i] = m)
  BY <1>2, <1>6
<1>8. f \in [1 .. Len(c) -> 1 .. n]
  <2>1. \A i \in 1 .. len + 1 : f[i] \in 1 .. n
    BY <1>5, <1>7
  <2> QED BY <1>4, <1>6, <2>1
<1>9. \A i \in 1 .. len + 1 : c[i] = b[f[i]]
  BY <1>1, <1>2, <1>4, <1>7
<1>10. \A i, j \in 1 .. len + 1 : i < j => f[i] < f[j]
  <2>1. SUFFICES ASSUME NEW i \in 1 .. len + 1, NEW j \in 1 .. len + 1, i < j
                 PROVE  f[i] < f[j]
    OBVIOUS
  <2>2. i \in 1 .. len /\ f[i] = place[i]
    BY <1>2, <1>7, <2>1
  <2>3. CASE j = len + 1
    BY <1>5, <1>7, <2>2, <2>3
  <2>4. CASE j # len + 1
    BY <1>1, <1>2, <1>7, <2>1, <2>2, <2>4
  <2> QED BY <2>3, <2>4
<1> QED BY <1>3, <1>4, <1>8, <1>9, <1>10 DEF Embeds

-----------------------------------------------------------------------------
(* The steps that change the chart                                         *)

\* What EditChart does to the chart, told by the set of its events.
LEMMA EditChartStep ==
    ASSUME DriverInv, NEW t \in Tasks, EditChart(t)
    PROVE  /\ regChart' \in Seq(Events) /\ InOrder(regChart') /\ Len(regChart') \in Nat
           /\ \/ /\ tpc[t] = "regChart" /\ tpc' = [tpc EXCEPT ![t] = "regFlag"]
                 /\ ToSet(regChart') = ToSet(regChart) \cup {tev[t]}
              \/ /\ tpc[t] = "unregChart" /\ tpc' = [tpc EXCEPT ![t] = "unregEnable"]
                 /\ ToSet(regChart') = ToSet(regChart) \ {tev[t]}
<1>1. TypeOK /\ InOrder(regChart) /\ regChart \in Seq(Events) /\ tev[t] \in Events
  BY DEF DriverInv, ChartInv, TypeOK
<1>2. CASE At(t, "regChart") /\ Goto(t, "regFlag") /\ Insert(tev[t])
  <2>1. PICK k \in 0 .. Len(regChart) :
          /\ \A i \in DOMAIN regChart : i <= k <=> regChart[i] <= tev[t]
          /\ regChart' = InsertAt(regChart, k + 1, tev[t])
    BY <1>2 DEF Insert
  <2>2. tev[t] \notin ToSet(regChart)
    BY <1>1, <1>2 DEF DriverInv, ChartInv, Changing, At
  <2>3. PICK c : c = regChart
    OBVIOUS
  <2>4. PICK d : d = regChart'
    OBVIOUS
  <2>5. PICK e : e = tev[t]
    OBVIOUS
  <2>6. d \in Seq(Events) /\ InOrder(d) /\ ToSet(d) = ToSet(c) \cup {e}
    BY <1>1, <2>1, <2>2, <2>3, <2>4, <2>5, InsertKeepsOrder
  <2> QED BY <1>2, <2>3, <2>4, <2>5, <2>6 DEF At, Goto
<1>3. CASE At(t, "unregChart") /\ Goto(t, "unregEnable") /\ Delete(tev[t])
  <2>1. PICK k \in DOMAIN regChart : regChart[k] = tev[t] /\ regChart' = RemoveAt(regChart, k)
    BY <1>3 DEF Delete
  <2>2. PICK c : c = regChart
    OBVIOUS
  <2>3. PICK d : d = regChart'
    OBVIOUS
  <2>4. d \in Seq(Events) /\ InOrder(d) /\ ToSet(d) = ToSet(c) \ {c[k]}
    BY <1>1, <2>1, <2>2, <2>3, DeleteKeepsOrder
  <2> QED BY <1>3, <2>1, <2>2, <2>3, <2>4 DEF At, Goto
<1> QED BY <1>2, <1>3 DEF EditChart

-----------------------------------------------------------------------------
(* The driver's tables                                                     *)

LEMMA InitDriver == Init => DriverInv
<1> SUFFICES ASSUME Init PROVE DriverInv
  OBVIOUS
<1>1. (CHOOSE e \in Events : TRUE) \in Events
  BY EventsAssumption
<1>2. ToSet(ChartAtStart) \subseteq Events /\ regChart \in Seq(Events) /\ InOrder(regChart)
  BY EventsAssumption DEF Init, ToSet
<1>3. TypeOK
  <2>1. recvInitStatus \in BOOLEAN /\ eventEnableMask \subseteq Events
        /\ eventRegMask \subseteq Events /\ intPending \in BOOLEAN /\ lineEnabled \in BOOLEAN
        /\ regChart \in Seq(Events) /\ callbacks \subseteq Events
    BY <1>2 DEF Init
  <2>2. flag \in [Events -> BOOLEAN] /\ payload \in [Events -> {0} \cup Payloads]
        /\ nesting \in 0 .. MaxNesting /\ calls \in 0 .. MaxSends
        /\ noticed \in [Events -> Nat]
    BY BoundsAssumption DEF Init
  <2>3. gate \in Tasks \cup {None} /\ tpc \in [Tasks -> TaskLabels]
        /\ tev \in [Tasks -> Events] /\ keys \in [Tasks -> SUBSET (1 .. MaxNesting)]
    BY <1>1 DEF Init, TaskLabels
  <2>4. ipc \in IsrLabels /\ index \in 1 .. Len(regChart) + 1 /\ ipayload \in {0} \cup Payloads
    BY <1>2 DEF Init, IsrLabels
  <2>5. hwi \in Senders \cup {None} /\ spc \in [Senders -> SendLabels]
        /\ sev \in [Senders -> Events] /\ spayload \in [Senders -> {0} \cup Payloads]
    BY <1>1 DEF Init, SendLabels
  <2>6. sent \in [Events -> Seq(Payloads)] /\ got \in [Events -> Seq(Payloads)]
    BY DEF Init
  <2> QED BY <2>1, <2>2, <2>3, <2>4, <2>5, <2>6 DEF TypeOK
<1>4. CallsInv
  BY ThreadsAssumption DEF Init, CallsInv, GateLabels, SwitchLabels, Inside
<1>5. ChartInv
  <2>1. \A e : ~ Changing(e)
    BY DEF Init, Changing
  <2> QED BY <1>2, <2>1 DEF Init, ChartInv, Known, GateLabels
<1>6. IsrInv
  BY DEF Init, IsrInv
<1>7. SendInv
  BY ThreadsAssumption DEF Init, SendInv
<1> QED BY <1>3, <1>4, <1>5, <1>6, <1>7 DEF DriverInv

LEMMA TypeStep == DriverInv /\ [Next]_vars => TypeOK'
<1> SUFFICES ASSUME DriverInv, [Next]_vars PROVE TypeOK'
  OBVIOUS
<1> USE DEF procCtrl, chart, line, regs, tasks, isr, sender, history
<1>1. TypeOK
  BY DEF DriverInv
<1>2. CASE UNCHANGED vars
  BY <1>1, <1>2 DEF TypeOK, vars
<1>3. CASE SetNotifyHandle
  BY <1>1, <1>3 DEF TypeOK, SetNotifyHandle
<1>4. ASSUME NEW s \in Senders, NEW e \in Events, SendEvent(s, e) PROVE TypeOK'
  <2>1. calls + 1 \in 0 .. MaxSends /\ calls + 1 \in Payloads
    BY <1>1, <1>4, BoundsAssumption DEF TypeOK, SendEvent, Payloads
  <2> QED BY <1>1, <1>4, <2>1 DEF TypeOK, SendEvent, sendFrame, SendLabels
<1>5. ASSUME NEW s \in Senders, Send(s) PROVE TypeOK'
  <2>1. CASE Poll(s) \/ PollTimeout(s) \/ Lock(s) \/ IntSend(s)
    BY <1>1, <2>1 DEF TypeOK, Poll, PollTimeout, Lock, IntSend, sendFrame, SendLabels
  <2>2. CASE WritePayload(s)
    BY <1>1, <2>2 DEF TypeOK, WritePayload, sendFrame, SendLabels
  <2>3. CASE WriteFlag(s)
    <3>1. spayload[s] \in Payloads
      BY <2>3 DEF DriverInv, SendInv, WriteFlag
    <3>2. sent' \in [Events -> Seq(Payloads)]
      BY <1>1, <2>3, <3>1 DEF TypeOK, WriteFlag
    <3> QED BY <1>1, <2>3, <3>2 DEF TypeOK, WriteFlag, sendFrame, SendLabels
  <2> QED BY <1>5, <2>1, <2>2, <2>3 DEF Send
<1>6. CASE Isr
  <2>1. CASE IsrEnter \/ IsrSkip \/ IsrFound \/ IsrReturn \/ IsrPayload \/ IsrAck
    <3> USE <1>1
    <3>5. Len(regChart) \in Nat /\ index \in 1 .. Len(regChart) + 1 /\ 1 \in 1 .. Len(regChart) + 1
      BY DEF TypeOK
    <3>6. ASSUME isrFrame' = isrFrame, index' \in 1 .. Len(regChart) + 1, ipc' \in IsrLabels,
                 flag' \in [Events -> BOOLEAN], payload' = payload, intPending' \in BOOLEAN,
                 ipayload' \in {0} \cup Payloads, got' = got, noticed' = noticed
          PROVE  TypeOK'
      BY <3>6 DEF TypeOK, isrFrame
    <3>1. CASE IsrEnter \/ IsrReturn
      BY <3>1, <3>5, <3>6 DEF TypeOK, IsrEnter, IsrReturn, IsrLabels
    <3>2. CASE IsrSkip
      <4>1. index' \in 1 .. Len(regChart) + 1
        BY <3>2, <3>5 DEF IsrSkip
      <4> QED BY <3>2, <3>6, <4>1 DEF TypeOK, IsrSkip
    <3>3. CASE IsrFound
      BY <1>1, <3>3 DEF TypeOK, IsrFound, isrFrame, IsrLabels
    <3>4. CASE IsrPayload \/ IsrAck
      <4>1. regChart[index] \in Events
        BY <1>1, <3>4 DEF DriverInv, IsrInv, TypeOK, IsrPayload, IsrAck
      <4>2. CASE IsrPayload
        <5>1. ipayload' \in {0} \cup Payloads
          BY <4>1, <4>2 DEF TypeOK, IsrPayload
        <5> QED BY <3>5, <3>6, <4>2, <5>1 DEF TypeOK, IsrPayload, IsrLabels
      <4>3. CASE IsrAck
        <5>1. flag' \in [Events -> BOOLEAN]
          BY <4>1, <4>3 DEF TypeOK, IsrAck
        <5> QED BY <3>5, <3>6, <4>3, <5>1 DEF TypeOK, IsrAck, IsrLabels
      <4> QED BY <3>4, <4>2, <4>3
    <3> QED BY <2>1, <3>1, <3>2, <3>3, <3>4
  <2>2. CASE IsrExec
    <3>1. regChart[index] \in Events /\ ipayload \in Payloads
      BY <1>1, <2>2 DEF DriverInv, IsrInv, TypeOK, IsrExec
    <3>2. got' \in [Events -> Seq(Payloads)] /\ noticed' \in [Events -> Nat]
      BY <1>1, <2>2, <3>1 DEF TypeOK, IsrExec, Callback
    <3>3. ipc' \in IsrLabels /\ index' \in 1 .. Len(regChart') + 1
      BY <1>1, <2>2 DEF TypeOK, IsrExec, IsrLabels, isrFrame
    <3> QED BY <1>1, <2>2, <3>2, <3>3 DEF TypeOK, IsrExec, isrFrame
  <2> QED BY <1>6, <2>1, <2>2 DEF Isr
<1>7. ASSUME NEW t \in Tasks, Task(t) PROVE TypeOK'
  <2>1. CASE LineOff(t) \/ LineOn(t)
    BY <1>1, <2>1 DEF TypeOK, LineOff, LineOn, taskFrame, At, Goto, TaskLabels
  <2>2. CASE EditChart(t)
    <3>1. tev[t] \in Events /\ ipc = "off" /\ regChart \in Seq(Events)
      BY <1>1, <2>2 DEF TypeOK, EditChart, At
    <3>2. regChart' \in Seq(Events) /\ index = 1 /\ Len(regChart') \in Nat
      BY <2>2, <3>1, EditChartStep DEF DriverInv, IsrInv
    <3>3. index' \in 1 .. Len(regChart') + 1
      BY <2>2, <3>2 DEF EditChart, taskFrame
    <3>4. tpc' \in [Tasks -> TaskLabels]
      BY <1>1, <2>2 DEF TypeOK, EditChart, At, Goto, TaskLabels
    <3> QED BY <1>1, <2>2, <3>2, <3>3, <3>4 DEF TypeOK, EditChart, taskFrame
  <2>3. CASE ClearFlag(t) \/ WriteRegMask(t) \/ ClearCallback(t)
    BY <1>1, <2>3 DEF TypeOK, ClearFlag, WriteRegMask, ClearCallback, taskFrame, At, Goto,
                      TaskLabels
  <2>4. CASE DisableEventAck(t)
    BY <1>1, <2>4 DEF TypeOK, DisableEventAck, taskFrame, At, Goto, TaskLabels
  <2>5. CASE DisableEventExec(t)
    <3>1. tev[t] \in Events /\ payload[tev[t]] \in Payloads
      BY <1>1, <2>5 DEF DriverInv, SendInv, TypeOK, DisableEventExec, At
    <3>2. got' \in [Events -> Seq(Payloads)] /\ noticed' \in [Events -> Nat]
      BY <1>1, <2>5, <3>1 DEF TypeOK, DisableEventExec, Callback
    <3> QED BY <1>1, <2>5, <3>2 DEF TypeOK, DisableEventExec, taskFrame, At, Goto, TaskLabels
  <2> QED BY <1>7, <2>1, <2>2, <2>3, <2>4, <2>5 DEF Task
<1>8. ASSUME NEW t \in Tasks, NEW e \in Events,
             RegisterEvent(t, e) \/ UnregisterEvent(t, e)
      PROVE  TypeOK'
  BY <1>1, <1>8 DEF TypeOK, RegisterEvent, UnregisterEvent, taskFrame, At, Begin, TaskLabels
<1>9. ASSUME NEW t \in Tasks, NEW e \in Events, DisableEvent(t, e) \/ EnableEvent(t, e)
      PROVE  TypeOK'
  BY <1>1, <1>9 DEF TypeOK, DisableEvent, EnableEvent, taskFrame, At, Begin, TaskLabels
<1>10. ASSUME NEW t \in Tasks, Disable(t) \/ Restore(t) PROVE TypeOK'
  <2>1. nesting' \in 0 .. MaxNesting /\ keys' \in [Tasks -> SUBSET (1 .. MaxNesting)]
    <3>1. nesting \in 0 .. MaxNesting /\ keys[t] \subseteq 1 .. MaxNesting
      BY <1>1 DEF TypeOK
    <3>2. CASE Disable(t)
      <4>1. nesting + 1 \in 1 .. MaxNesting
        BY <3>1, <3>2, BoundsAssumption DEF Disable
      <4> QED BY <1>1, <3>2, <4>1 DEF TypeOK, Disable
    <3>3. CASE Restore(t)
      <4>1. nesting - 1 \in 0 .. MaxNesting
        BY <3>1, <3>3, BoundsAssumption DEF Restore
      <4> QED BY <1>1, <3>1, <3>3, <4>1 DEF TypeOK, Restore
    <3> QED BY <1>10, <3>2, <3>3
  <2> QED BY <1>1, <1>10, <2>1 DEF TypeOK, Disable, Restore, lineFrame
<1> QED BY <1>2, <1>3, <1>4, <1>5, <1>6, <1>7, <1>8, <1>9, <1>10 DEF Next, Call

\* Only one task has switched the line off.
LEMMA InsideAlone ==
    ASSUME OneSwitcher, DriverInv, NEW t \in Tasks, NEW u \in Tasks,
           tpc[t] \in Inside, tpc[u] \in Inside
    PROVE  t = u
<1>1. \A l \in Inside : l \in GateLabels \/ l \in SwitchLabels
  BY DEF Inside, GateLabels, SwitchLabels
<1>2. CASE Switchable = {}
  <2>1. tpc[t] \in GateLabels /\ tpc[u] \in GateLabels
    BY <1>1, <1>2 DEF DriverInv, CallsInv
  <2> QED BY <2>1 DEF DriverInv, CallsInv
<1>3. CASE \A v, w \in Tasks : v = w
  BY <1>3
<1> QED BY <1>2, <1>3 DEF OneSwitcher

LEMMA CallsStep == OneSwitcher /\ DriverInv /\ [Next]_vars => CallsInv'
<1> SUFFICES ASSUME OneSwitcher, DriverInv, [Next]_vars PROVE CallsInv'
  OBVIOUS
<1> USE DEF procCtrl, chart, line, regs, tasks, isr, sender, history
<1>1. /\ TypeOK
      /\ \A t \in Tasks : tpc[t] \in GateLabels <=> gate = t
      /\ \A t \in Tasks : /\ tpc[t] \in GateLabels => tev[t] \in Registrable
                          /\ tpc[t] \in SwitchLabels => tev[t] \in Switchable
                          /\ tpc[t] \in Inside => ~ lineEnabled /\ ipc = "off"
      /\ None \notin Tasks
  BY ThreadsAssumption DEF DriverInv, CallsInv
<1>2. tpc \in [Tasks -> TaskLabels] /\ tev \in [Tasks -> Events]
  BY <1>1 DEF TypeOK
\* Steps that leave the calls alone, and the ISR off while a task is inside.
<1>3. ASSUME tpc' = tpc, tev' = tev, gate' = gate, lineEnabled' = lineEnabled,
             ipc = "off" => ipc' = "off" \/ lineEnabled
      PROVE  CallsInv'
  BY <1>1, <1>3 DEF CallsInv
<1>4. CASE UNCHANGED vars
  BY <1>3, <1>4 DEF vars
<1>5. CASE SetNotifyHandle
  BY <1>3, <1>5 DEF SetNotifyHandle
<1>6. ASSUME NEW s \in Senders, NEW e \in Events, SendEvent(s, e) PROVE CallsInv'
  BY <1>3, <1>6 DEF SendEvent, sendFrame
<1>7. ASSUME NEW s \in Senders, Send(s) PROVE CallsInv'
  BY <1>3, <1>7 DEF Send, Poll, PollTimeout, Lock, WritePayload, WriteFlag, IntSend, sendFrame
<1>8. CASE Isr
  BY <1>3, <1>8 DEF Isr, IsrEnter, IsrSkip, IsrFound, IsrReturn, IsrPayload, IsrAck, IsrExec,
                    isrFrame
<1>9. ASSUME NEW t \in Tasks, Task(t) PROVE CallsInv'
  <2> USE DEF At, Goto, taskFrame
  <2>1. ipc = "off" /\ ipc' = "off" /\ tev' = tev
    BY <1>9 DEF Task, LineOff, LineOn, EditChart, ClearFlag, WriteRegMask, ClearCallback,
                DisableEventAck, DisableEventExec
  \* The label of t moves on inside its call.
  <2>2. ASSUME NEW l \in TaskLabels, tpc' = [tpc EXCEPT ![t] = l], gate' = gate,
               l \in GateLabels <=> tpc[t] \in GateLabels,
               l \in SwitchLabels => tpc[t] \in SwitchLabels,
               l \in Inside => ~ lineEnabled',
               \A u \in Tasks : u # t /\ tpc[u] \in Inside => ~ lineEnabled'
        PROVE  CallsInv'
    BY <1>1, <1>2, <2>1, <2>2 DEF CallsInv
  \* The line stays as it is, so the other tasks find it so.
  <2>3. \A u \in Tasks : tpc[u] \in Inside => ~ lineEnabled
    BY <1>1
  <2>4. CASE LineOff(t)
    <3>1. PICK l \in {"regChart", "unregMask", "evtTest"} :
            /\ tpc' = [tpc EXCEPT ![t] = l] /\ ~ lineEnabled' /\ gate' = gate
            /\ l \in GateLabels <=> tpc[t] \in GateLabels
            /\ l \in SwitchLabels => tpc[t] \in SwitchLabels
      BY <2>4 DEF LineOff, GateLabels, SwitchLabels
    <3> QED BY <2>2, <3>1 DEF TaskLabels
  <2>5. CASE LineOn(t)
    <3>1. tpc[t] \in Inside
      BY <2>5 DEF LineOn, Inside
    <3>2. \A u \in Tasks : u # t => tpc[u] \notin Inside
      BY <3>1, InsideAlone
    <3>3. CASE tpc[t] = "regEnable"
      <4>1. tpc' = [tpc EXCEPT ![t] = "idle"] /\ gate' = None
        BY <2>5, <3>3 DEF LineOn
      <4>2. gate = t
        BY <1>1, <3>3 DEF GateLabels
      <4> QED BY <1>1, <1>2, <2>1, <3>2, <4>1, <4>2 DEF CallsInv, GateLabels, SwitchLabels, Inside
    <3>4. CASE tpc[t] = "unregEnable"
      <4>1. tpc' = [tpc EXCEPT ![t] = "unregCallback"] /\ gate' = gate
        BY <2>5, <3>4 DEF LineOn
      <4> QED BY <2>2, <3>2, <3>4, <4>1 DEF TaskLabels, GateLabels, SwitchLabels, Inside
    <3>5. CASE tpc[t] = "evtEnable"
      <4>1. tpc' = [tpc EXCEPT ![t] = "idle"] /\ gate' = gate
        BY <2>5, <3>5 DEF LineOn
      <4> QED BY <2>2, <3>2, <3>5, <4>1 DEF TaskLabels, GateLabels, SwitchLabels, Inside
    <3> QED BY <2>5, <3>3, <3>4, <3>5 DEF LineOn
  <2>6. CASE EditChart(t)
    <3>1. PICK l \in {"regFlag", "unregEnable"} :
            /\ tpc' = [tpc EXCEPT ![t] = l] /\ tpc[t] \in {"regChart", "unregChart"}
      BY <2>6 DEF EditChart
    <3>2. lineEnabled' = lineEnabled /\ gate' = gate
      BY <2>6 DEF EditChart
    <3> QED BY <2>2, <2>3, <3>1, <3>2 DEF TaskLabels, GateLabels, SwitchLabels, Inside
  <2>7. CASE ClearFlag(t)
    <3>1. PICK l \in {"regMask", "unregChart"} :
            /\ tpc' = [tpc EXCEPT ![t] = l] /\ tpc[t] \in {"regFlag", "unregFlag"}
            /\ lineEnabled' = lineEnabled /\ gate' = gate
      BY <2>7 DEF ClearFlag
    <3> QED BY <2>2, <2>3, <3>1 DEF TaskLabels, GateLabels, SwitchLabels, Inside
  <2>8. CASE WriteRegMask(t)
    <3>1. PICK l \in {"regEnable", "unregFlag"} :
            /\ tpc' = [tpc EXCEPT ![t] = l] /\ tpc[t] \in {"regMask", "unregMask"}
            /\ lineEnabled' = lineEnabled /\ gate' = gate
      BY <2>8 DEF WriteRegMask
    <3> QED BY <2>2, <2>3, <3>1 DEF TaskLabels, GateLabels, SwitchLabels, Inside
  <2>9. CASE ClearCallback(t)
    <3>1. gate = t /\ gate' = None /\ tpc' = [tpc EXCEPT ![t] = "idle"]
          /\ lineEnabled' = lineEnabled
      BY <1>1, <2>9 DEF ClearCallback, GateLabels
    <3> QED BY <1>1, <1>2, <2>1, <2>3, <3>1 DEF CallsInv, GateLabels, SwitchLabels, Inside
  <2>10. CASE DisableEventAck(t)
    <3>1. PICK l \in {"evtExec", "evtEnable"} :
            /\ tpc' = [tpc EXCEPT ![t] = l] /\ tpc[t] = "evtTest"
            /\ lineEnabled' = lineEnabled /\ gate' = gate
      BY <2>10 DEF DisableEventAck
    <3> QED BY <2>2, <2>3, <3>1 DEF TaskLabels, GateLabels, SwitchLabels, Inside
  <2>11. CASE DisableEventExec(t)
    <3>1. /\ tpc' = [tpc EXCEPT ![t] = "evtEnable"] /\ tpc[t] = "evtExec"
          /\ lineEnabled' = lineEnabled /\ gate' = gate
      BY <2>11 DEF DisableEventExec
    <3> QED BY <2>2, <2>3, <3>1 DEF TaskLabels, GateLabels, SwitchLabels, Inside
  <2> QED BY <1>9, <2>4, <2>5, <2>6, <2>7, <2>8, <2>9, <2>10, <2>11 DEF Task
<1>10. ASSUME NEW t \in Tasks, NEW e \in Events,
              RegisterEvent(t, e) \/ UnregisterEvent(t, e) \/ DisableEvent(t, e)
       PROVE  CallsInv'
  <2>1. PICK l \in {"regDisable", "unregDisable", "evtDisable"} :
          /\ tpc' = [tpc EXCEPT ![t] = l] /\ tev' = [tev EXCEPT ![t] = e] /\ tpc[t] = "idle"
          /\ lineEnabled' = lineEnabled /\ ipc' = ipc
          /\ \/ l = "evtDisable" /\ gate' = gate /\ e \in Switchable
             \/ l # "evtDisable" /\ gate = None /\ gate' = t /\ e \in Registrable
    BY <1>10 DEF RegisterEvent, UnregisterEvent, DisableEvent, taskFrame, At, Begin
  <2> QED BY <1>1, <1>2, <2>1 DEF CallsInv, GateLabels, SwitchLabels, Inside
<1>11. ASSUME NEW t \in Tasks, NEW e \in Events, EnableEvent(t, e) PROVE CallsInv'
  BY <1>3, <1>11 DEF EnableEvent, taskFrame
<1>12. ASSUME NEW t \in Tasks, Disable(t) \/ Restore(t) PROVE CallsInv'
  <2>1. /\ tpc' = tpc /\ tev' = tev /\ gate' = gate /\ ipc' = ipc
        /\ gate = None /\ tpc[t] = "idle"
    BY <1>12 DEF Disable, Restore, lineFrame, At
  <2>2. \A u \in Tasks : tpc[u] \in Inside => ~ lineEnabled'
    <3>1. CASE Disable(t)
      BY <1>1, <3>1 DEF Disable
    <3>2. CASE Restore(t)
      <4>1. SUFFICES ASSUME NEW u \in Tasks, tpc[u] \in Inside PROVE FALSE
        OBVIOUS
      <4>2. tpc[u] \in SwitchLabels
        BY <1>1, <2>1, <4>1 DEF Inside, GateLabels, SwitchLabels
      <4>3. u = t
        BY <1>1, <4>2 DEF OneSwitcher
      <4> QED BY <2>1, <4>2, <4>3 DEF SwitchLabels
    <3> QED BY <1>12, <3>1, <3>2
  <2> QED BY <1>1, <2>1, <2>2 DEF CallsInv
<1> QED BY <1>4, <1>5, <1>6, <1>7, <1>8, <1>9, <1>10, <1>11, <1>12 DEF Next, Call

LEMMA ChartStep == DriverInv /\ [Next]_vars => ChartInv'
<1> SUFFICES ASSUME DriverInv, [Next]_vars PROVE ChartInv'
  OBVIOUS
<1> USE DEF procCtrl, chart, line, regs, tasks, isr, sender, history
<1> DEFINE Labels == {"regDisable", "regChart", "unregEnable", "unregCallback"}
<1>1. /\ TypeOK /\ InOrder(regChart) /\ eventRegMask \subseteq Known
      /\ \A e \in Events : e \in ToSet(regChart) <=> e \in callbacks /\ ~ Changing(e)
      /\ \A t \in Tasks : tpc[t] \in GateLabels => tev[t] \in callbacks
      /\ ToSet(ChartAtStart) \ Registrable \subseteq callbacks
  BY DEF DriverInv, ChartInv
<1>2. /\ tpc \in [Tasks -> TaskLabels] /\ tev \in [Tasks -> Events] /\ None \notin Tasks
      /\ \A t \in Tasks : tpc[t] \in GateLabels <=> gate = t
      /\ \A t \in Tasks : tpc[t] \in GateLabels => tev[t] \in Registrable
      /\ Labels \subseteq GateLabels
  BY <1>1, ThreadsAssumption DEF TypeOK, DriverInv, CallsInv, GateLabels
<1>3. \A e : Changing(e) <=> \E t \in Tasks : tev[t] = e /\ tpc[t] \in Labels
  BY DEF Changing
<1>4. \A e : Changing(e)' <=> \E t \in Tasks : tev'[t] = e /\ tpc'[t] \in Labels
  BY DEF Changing
<1> HIDE DEF Labels
\* Steps that leave the calls or the table alone.
<1>5. ASSUME tpc' = tpc, tev' = tev, regChart' = regChart, callbacks' = callbacks,
             eventRegMask' = eventRegMask
      PROVE  ChartInv'
  <2>1. \A e : Changing(e)' <=> Changing(e)
    BY <1>3, <1>4, <1>5
  <2> QED BY <1>1, <1>5, <2>1 DEF ChartInv
<1>6. ASSUME NEW t \in Tasks, NEW l, tpc' = [tpc EXCEPT ![t] = l], tev' = tev,
             l \in Labels <=> tpc[t] \in Labels, l \in GateLabels => tpc[t] \in GateLabels,
             regChart' = regChart, callbacks' = callbacks, eventRegMask' \subseteq Known
      PROVE  ChartInv'
  <2>1. \A u \in Tasks : tpc'[u] \in Labels <=> tpc[u] \in Labels
    BY <1>2, <1>6
  <2>2. \A e : Changing(e)' <=> Changing(e)
    BY <1>3, <1>4, <1>6, <2>1
  <2>3. \A u \in Tasks : tpc'[u] \in GateLabels => tpc[u] \in GateLabels
    BY <1>2, <1>6
  <2> QED BY <1>1, <1>6, <2>2, <2>3 DEF ChartInv
<1>7. CASE UNCHANGED vars
  BY <1>5, <1>7 DEF vars
<1>8. CASE SetNotifyHandle
  BY <1>5, <1>8 DEF SetNotifyHandle
<1>9. ASSUME NEW s \in Senders, NEW e \in Events, SendEvent(s, e) PROVE ChartInv'
  BY <1>5, <1>9 DEF SendEvent, sendFrame
<1>10. ASSUME NEW s \in Senders, Send(s) PROVE ChartInv'
  BY <1>5, <1>10 DEF Send, Poll, PollTimeout, Lock, WritePayload, WriteFlag, IntSend, sendFrame
<1>11. CASE Isr
  BY <1>5, <1>11 DEF Isr, IsrEnter, IsrSkip, IsrFound, IsrReturn, IsrPayload, IsrAck, IsrExec,
                     isrFrame
<1>12. ASSUME NEW t \in Tasks, Task(t) PROVE ChartInv'
  <2> USE DEF At, Goto, taskFrame
  <2>1. CASE LineOff(t)
    <3>1. /\ tev' = tev /\ regChart' = regChart /\ callbacks' = callbacks
          /\ eventRegMask' = eventRegMask
      BY <2>1 DEF LineOff
    <3>2. \E l : /\ tpc' = [tpc EXCEPT ![t] = l]
                 /\ l \in Labels <=> tpc[t] \in Labels
                 /\ l \in GateLabels => tpc[t] \in GateLabels
      BY <2>1 DEF LineOff, Labels, GateLabels
    <3> QED BY <1>1, <1>6, <3>1, <3>2
  <2>2. CASE LineOn(t)
    <3>1. /\ tev' = tev /\ regChart' = regChart /\ callbacks' = callbacks
          /\ eventRegMask' = eventRegMask
      BY <2>2 DEF LineOn
    <3>2. \E l : /\ tpc' = [tpc EXCEPT ![t] = l]
                 /\ l \in Labels <=> tpc[t] \in Labels
                 /\ l \in GateLabels => tpc[t] \in GateLabels
      BY <2>2 DEF LineOn, Labels, GateLabels
    <3> QED BY <1>1, <1>6, <3>1, <3>2
  <2>3. CASE EditChart(t)
    <3>1. /\ regChart' \in Seq(Events) /\ InOrder(regChart')
          /\ \/ /\ tpc[t] = "regChart" /\ tpc' = [tpc EXCEPT ![t] = "regFlag"]
                /\ ToSet(regChart') = ToSet(regChart) \cup {tev[t]}
             \/ /\ tpc[t] = "unregChart" /\ tpc' = [tpc EXCEPT ![t] = "unregEnable"]
                /\ ToSet(regChart') = ToSet(regChart) \ {tev[t]}
      BY <2>3, EditChartStep
    <3>2. tev' = tev /\ callbacks' = callbacks /\ eventRegMask' = eventRegMask
      BY <2>3 DEF EditChart
    <3>3. tpc[t] \in GateLabels /\ tev[t] \in callbacks
      BY <1>1, <3>1 DEF GateLabels
    <3>4. \A u \in Tasks : u # t => tpc[u] \notin Labels /\ tpc'[u] \notin Labels
      BY <1>2, <3>1, <3>3
    <3>5. \A e : Changing(e) <=> tev[t] = e /\ tpc[t] \in Labels
      BY <1>3, <3>4
    <3>6. \A e : Changing(e)' <=> tev[t] = e /\ tpc'[t] \in Labels
      BY <1>4, <3>2, <3>4
    <3>7. \A e \in Events : e \in ToSet(regChart') <=> e \in callbacks' /\ ~ Changing(e)'
      <4>1. CASE tpc[t] = "regChart"
        <5>1. tpc'[t] = "regFlag" /\ ToSet(regChart') = ToSet(regChart) \cup {tev[t]}
          BY <1>2, <3>1, <4>1
        <5>2. tpc'[t] \notin Labels /\ tpc[t] \in Labels
          BY <4>1, <5>1 DEF Labels
        <5> QED BY <1>1, <3>2, <3>3, <3>5, <3>6, <5>1, <5>2
      <4>2. CASE tpc[t] = "unregChart"
        <5>1. tpc'[t] = "unregEnable" /\ ToSet(regChart') = ToSet(regChart) \ {tev[t]}
          BY <1>2, <3>1, <4>2
        <5>2. tpc[t] \notin Labels /\ tpc'[t] \in Labels
          BY <4>2, <5>1 DEF Labels
        <5> QED BY <1>1, <3>2, <3>3, <3>5, <3>6, <5>1, <5>2
      <4> QED BY <3>1, <4>1, <4>2
    <3>8. \A u \in Tasks : tpc'[u] \in GateLabels => tpc[u] \in GateLabels
      BY <1>2, <3>1, <3>3
    <3> QED BY <1>1, <3>1, <3>2, <3>7, <3>8 DEF ChartInv
  <2>4. CASE ClearFlag(t)
    <3>1. /\ tev' = tev /\ regChart' = regChart /\ callbacks' = callbacks
          /\ eventRegMask' = eventRegMask
      BY <2>4 DEF ClearFlag
    <3>2. \E l : /\ tpc' = [tpc EXCEPT ![t] = l]
                 /\ l \in Labels <=> tpc[t] \in Labels
                 /\ l \in GateLabels => tpc[t] \in GateLabels
      BY <2>4 DEF ClearFlag, Labels, GateLabels
    <3> QED BY <1>1, <1>6, <3>1, <3>2
  <2>5. CASE WriteRegMask(t)
    <3>1. tev' = tev /\ regChart' = regChart /\ callbacks' = callbacks
      BY <2>5 DEF WriteRegMask
    <3>2. \E l : /\ tpc' = [tpc EXCEPT ![t] = l]
                 /\ l \in Labels <=> tpc[t] \in Labels
                 /\ l \in GateLabels => tpc[t] \in GateLabels
      BY <2>5 DEF WriteRegMask, Labels, GateLabels
    <3>3. tev[t] \in Known
      BY <1>2, <2>5 DEF WriteRegMask, GateLabels, Known
    <3>4. eventRegMask' \subseteq Known
      BY <1>1, <2>5, <3>3 DEF WriteRegMask
    <3> QED BY <1>6, <3>1, <3>2, <3>4
  <2>6. CASE ClearCallback(t)
    <3>1. /\ tpc[t] = "unregCallback" /\ tpc' = [tpc EXCEPT ![t] = "idle"] /\ tev' = tev
          /\ regChart' = regChart /\ callbacks' = callbacks \ {tev[t]}
          /\ eventRegMask' = eventRegMask
      BY <2>6 DEF ClearCallback
    <3>2. tpc[t] \in GateLabels /\ tpc[t] \in Labels /\ "idle" \notin Labels
          /\ "idle" \notin GateLabels
      BY <3>1 DEF GateLabels, Labels
    <3>3. \A u \in Tasks : tpc'[u] \notin GateLabels
      BY <1>2, <3>1, <3>2
    <3>4. \A u \in Tasks : u # t => tpc[u] \notin Labels
      BY <1>2, <3>2
    <3>5. \A e : Changing(e) <=> tev[t] = e
      BY <1>3, <3>2, <3>4
    <3>6. \A e : ~ Changing(e)'
      BY <1>2, <1>4, <3>3
    <3>7. tev[t] \in Registrable
      BY <1>2, <3>2
    <3> QED BY <1>1, <3>1, <3>3, <3>5, <3>6, <3>7 DEF ChartInv
  <2>7. CASE DisableEventAck(t) \/ DisableEventExec(t)
    <3>1. /\ tev' = tev /\ regChart' = regChart /\ callbacks' = callbacks
          /\ eventRegMask' = eventRegMask
      BY <2>7 DEF DisableEventAck, DisableEventExec
    <3>2. \E l : /\ tpc' = [tpc EXCEPT ![t] = l]
                 /\ l \in Labels <=> tpc[t] \in Labels
                 /\ l \in GateLabels => tpc[t] \in GateLabels
      BY <2>7 DEF DisableEventAck, DisableEventExec, Labels, GateLabels
    <3> QED BY <1>1, <1>6, <3>1, <3>2
  <2> QED BY <1>12, <2>1, <2>2, <2>3, <2>4, <2>5, <2>6, <2>7 DEF Task
<1>13. ASSUME NEW t \in Tasks, NEW e \in Events, RegisterEvent(t, e) PROVE ChartInv'
  <2>1. /\ tpc' = [tpc EXCEPT ![t] = "regDisable"] /\ tev' = [tev EXCEPT ![t] = e]
        /\ gate = None /\ e \notin callbacks /\ callbacks' = callbacks \cup {e}
        /\ regChart' = regChart /\ eventRegMask' = eventRegMask
    BY <1>13 DEF RegisterEvent, taskFrame, At, Begin
  <2>2. \A u \in Tasks : tpc[u] \notin GateLabels /\ tpc[u] \notin Labels
    BY <1>2, <2>1
  <2>3. "regDisable" \in Labels
    BY DEF Labels
  <2>4. \A f : ~ Changing(f)
    BY <1>3, <2>2
  <2>5. \A f : Changing(f)' <=> f = e
    BY <1>2, <1>4, <2>1, <2>2, <2>3
  <2>6. \A u \in Tasks : tpc'[u] \in GateLabels => tev'[u] \in callbacks'
    BY <1>2, <2>1, <2>2
  <2> QED BY <1>1, <2>1, <2>4, <2>5, <2>6 DEF ChartInv
<1>14. ASSUME NEW t \in Tasks, NEW e \in Events, UnregisterEvent(t, e) \/ DisableEvent(t, e)
       PROVE  ChartInv'
  <2>1. PICK l \in {"unregDisable", "evtDisable"} :
          /\ tpc' = [tpc EXCEPT ![t] = l] /\ tev' = [tev EXCEPT ![t] = e] /\ tpc[t] = "idle"
          /\ l = "unregDisable" => e \in callbacks
          /\ regChart' = regChart /\ callbacks' = callbacks /\ eventRegMask' = eventRegMask
    BY <1>14 DEF UnregisterEvent, DisableEvent, taskFrame, At, Begin
  <2>2. tpc[t] \notin Labels /\ l \notin Labels /\ (l \in GateLabels => l = "unregDisable")
    BY <2>1 DEF Labels, GateLabels
  <2>3. \A f : Changing(f)' <=> Changing(f)
    BY <1>2, <1>3, <1>4, <2>1, <2>2
  <2>4. \A u \in Tasks : tpc'[u] \in GateLabels => tev'[u] \in callbacks'
    BY <1>1, <1>2, <2>1, <2>2
  <2> QED BY <1>1, <2>1, <2>3, <2>4 DEF ChartInv
<1>15. ASSUME NEW t \in Tasks, NEW e \in Events, EnableEvent(t, e) PROVE ChartInv'
  BY <1>5, <1>15 DEF EnableEvent, taskFrame
<1>16. ASSUME NEW t \in Tasks, Disable(t) \/ Restore(t) PROVE ChartInv'
  BY <1>5, <1>16 DEF Disable, Restore, lineFrame
<1> QED BY <1>7, <1>8, <1>9, <1>10, <1>11, <1>12, <1>13, <1>14, <1>15, <1>16 DEF Next, Call

LEMMA IsrStep == DriverInv /\ [Next]_vars => IsrInv'
<1> SUFFICES ASSUME DriverInv, [Next]_vars PROVE IsrInv'
  OBVIOUS
<1> USE DEF procCtrl, chart, line, regs, tasks, isr, sender, history
<1>1. /\ TypeOK /\ (ipc = "off" => index = 1)
      /\ ipc \in {"payload", "ack", "exec"} =>
            index \in DOMAIN regChart /\ regChart[index] \in eventEnableMask
      /\ ipc \in {"payload", "ack"} => flag[regChart[index]]
      /\ ipc \in {"ack", "exec"} => ipayload \in Payloads
  BY DEF DriverInv, IsrInv
<1>2. /\ regChart \in Seq(Events) /\ flag \in [Events -> BOOLEAN] /\ sev \in [Senders -> Events]
      /\ DOMAIN regChart = 1 .. Len(regChart) /\ Len(regChart) \in Nat
      /\ index \in 1 .. Len(regChart) + 1 /\ ipc \in IsrLabels
  BY <1>1 DEF TypeOK
\* A task runs only while the ISR does not.
<1>3. ASSUME ipc = "off", ipc' = "off", index' = index PROVE IsrInv'
  BY <1>1, <1>3 DEF IsrInv
\* The sender does not clear a flag.
<1>4. ASSUME ipc' = ipc, index' = index, ipayload' = ipayload, regChart' = regChart,
             eventEnableMask' = eventEnableMask, \A e \in Events : flag[e] => flag'[e]
      PROVE  IsrInv'
  BY <1>1, <1>2, <1>4 DEF IsrInv
<1>5. CASE UNCHANGED vars
  BY <1>4, <1>5 DEF vars
<1>6. CASE SetNotifyHandle
  BY <1>4, <1>6 DEF SetNotifyHandle
<1>7. ASSUME NEW s \in Senders, NEW e \in Events, SendEvent(s, e) PROVE IsrInv'
  BY <1>4, <1>7 DEF SendEvent, sendFrame
<1>8. ASSUME NEW s \in Senders, Send(s) PROVE IsrInv'
  <2>1. CASE ~ WriteFlag(s)
    BY <1>4, <1>8, <2>1 DEF Send, Poll, PollTimeout, Lock, WritePayload, IntSend, sendFrame
  <2>2. CASE WriteFlag(s)
    <3>1. \A e \in Events : flag[e] => flag'[e]
      BY <1>2, <2>2 DEF WriteFlag
    <3> QED BY <1>4, <2>2, <3>1 DEF WriteFlag, sendFrame
  <2> QED BY <2>1, <2>2
<1>9. CASE Isr
  <2> USE DEF isrFrame
  <2>1. CASE IsrEnter
    BY <2>1 DEF IsrEnter, IsrInv
  <2>2. CASE IsrSkip
    BY <2>2 DEF IsrSkip, IsrInv
  <2>3. CASE IsrFound
    <3>1. index \in DOMAIN regChart
      BY <1>2, <2>3 DEF IsrFound
    <3> QED BY <2>3, <3>1 DEF IsrFound, IsrInv
  <2>4. CASE IsrReturn
    BY <2>4 DEF IsrReturn, IsrInv
  <2>5. CASE IsrPayload
    <3>1. regChart[index] \in Events /\ flag[regChart[index]]
      BY <1>1, <1>2, <2>5 DEF IsrPayload
    <3>2. payload[regChart[index]] \in Payloads
      BY <3>1 DEF DriverInv, SendInv
    <3> QED BY <1>1, <2>5, <3>2 DEF IsrPayload, IsrInv
  <2>6. CASE IsrAck
    BY <1>1, <2>6 DEF IsrAck, IsrInv
  <2>7. CASE IsrExec
    BY <2>7 DEF IsrExec, IsrInv
  <2> QED BY <1>9, <2>1, <2>2, <2>3, <2>4, <2>5, <2>6, <2>7 DEF Isr
<1>10. ASSUME NEW t \in Tasks, Task(t) PROVE IsrInv'
  BY <1>3, <1>10 DEF Task, LineOff, LineOn, EditChart, ClearFlag, WriteRegMask, ClearCallback,
                     DisableEventAck, DisableEventExec, At, taskFrame
<1>11. ASSUME NEW t \in Tasks, NEW e \in Events,
              \/ RegisterEvent(t, e) \/ UnregisterEvent(t, e)
              \/ DisableEvent(t, e) \/ EnableEvent(t, e)
       PROVE  IsrInv'
  BY <1>3, <1>11 DEF RegisterEvent, UnregisterEvent, DisableEvent, EnableEvent, At, taskFrame
<1>12. ASSUME NEW t \in Tasks, Disable(t) \/ Restore(t) PROVE IsrInv'
  BY <1>3, <1>12 DEF Disable, Restore, At, lineFrame
<1> QED BY <1>5, <1>6, <1>7, <1>8, <1>9, <1>10, <1>11, <1>12 DEF Next, Call

LEMMA SendStep == DriverInv /\ [Next]_vars => SendInv'
<1> SUFFICES ASSUME DriverInv, [Next]_vars PROVE SendInv'
  OBVIOUS
<1> USE DEF procCtrl, chart, line, regs, tasks, isr, sender, history
<1>1. /\ TypeOK
      /\ \A s \in Senders : spc[s] \in {"payload", "flag", "int"} <=> hwi = s
      /\ \A s \in Senders : spc[s] # "idle" =>
            /\ spayload[s] \in Payloads /\ sev[s] \in Known
            /\ spc[s] = "lock" => sev[s] \in NoWaitClear
            /\ spc[s] = "flag" => payload[sev[s]] = spayload[s]
      /\ \A e \in Events : flag[e] => payload[e] \in Payloads /\ e \in Known
      /\ \A t \in Tasks : tpc[t] = "evtExec" => payload[tev[t]] \in Payloads /\ tev[t] \in Known
      /\ None \notin Senders
  BY ThreadsAssumption DEF DriverInv, SendInv
<1>2. /\ flag \in [Events -> BOOLEAN] /\ payload \in [Events -> {0} \cup Payloads]
      /\ spc \in [Senders -> SendLabels] /\ sev \in [Senders -> Events]
      /\ tpc \in [Tasks -> TaskLabels] /\ tev \in [Tasks -> Events]
      /\ hwi \in Senders \cup {None} /\ spayload \in [Senders -> {0} \cup Payloads]
      /\ calls \in 0 .. MaxSends /\ eventRegMask \subseteq Known
  BY <1>1 DEF TypeOK, DriverInv, ChartInv
\* Steps of the receiving processor: a flag may be cleared, and a task may take the payload
\* of a flag that was UP.
<1>3. ASSUME spc' = spc, sev' = sev, spayload' = spayload, hwi' = hwi, payload' = payload,
             \A e \in Events : flag'[e] => flag[e],
             \A t \in Tasks : tpc'[t] = "evtExec" =>
                tev'[t] = tev[t] /\ (tpc[t] = "evtExec" \/ flag[tev[t]])
      PROVE  SendInv'
  BY <1>1, <1>2, <1>3 DEF SendInv
\* Steps of a sender.
<1>4. ASSUME tpc' = tpc, tev' = tev, payload' = payload, flag' = flag,
             \A s \in Senders : spc'[s] \in {"payload", "flag", "int"} <=> hwi' = s,
             \A s \in Senders : spc'[s] # "idle" =>
                /\ spayload'[s] \in Payloads /\ sev'[s] \in Known
                /\ spc'[s] = "lock" => sev'[s] \in NoWaitClear
                /\ spc'[s] = "flag" => payload[sev'[s]] = spayload'[s]
      PROVE  SendInv'
  BY <1>1, <1>2, <1>4 DEF SendInv
<1>5. CASE UNCHANGED vars
  BY <1>3, <1>5 DEF vars
<1>6. CASE SetNotifyHandle
  BY <1>3, <1>6 DEF SetNotifyHandle
<1>7. ASSUME NEW s \in Senders, NEW e \in Events, SendEvent(s, e) PROVE SendInv'
  <2>1. calls + 1 \in Payloads
    BY <1>2, <1>7, BoundsAssumption DEF SendEvent, Payloads
  <2>2. /\ spc[s] = "idle" /\ sev' = [sev EXCEPT ![s] = e] /\ e \in Known
        /\ spayload' = [spayload EXCEPT ![s] = calls + 1]
        /\ tpc' = tpc /\ tev' = tev /\ payload' = payload /\ flag' = flag /\ hwi' = hwi
    BY <1>2, <1>7 DEF SendEvent, sendFrame
  <2>3. PICK l : l = IF e \in NoWaitClear THEN "lock" ELSE "poll"
    OBVIOUS
  <2>4. /\ spc' = [spc EXCEPT ![s] = l] /\ l \in {"lock", "poll"}
        /\ l = "lock" => e \in NoWaitClear
    BY <1>7, <2>3 DEF SendEvent
  <2>5. \A r \in Senders : r # s => /\ spc'[r] = spc[r] /\ sev'[r] = sev[r]
                                    /\ spayload'[r] = spayload[r]
    BY <1>2, <2>2, <2>4
  <2>6. spc'[s] = l /\ sev'[s] = e /\ spayload'[s] = calls + 1 /\ hwi # s
    BY <1>1, <1>2, <2>2, <2>4
  <2>7. \A r \in Senders : spc'[r] \in {"payload", "flag", "int"} <=> hwi' = r
    BY <1>1, <2>2, <2>4, <2>5, <2>6
  <2>8. \A r \in Senders : spc'[r] # "idle" =>
                /\ spayload'[r] \in Payloads /\ sev'[r] \in Known
                /\ spc'[r] = "lock" => sev'[r] \in NoWaitClear
                /\ spc'[r] = "flag" => payload[sev'[r]] = spayload'[r]
    BY <1>1, <2>1, <2>2, <2>4, <2>5, <2>6
  <2> QED BY <1>4, <2>2, <2>7, <2>8
<1>8. ASSUME NEW s \in Senders, Send(s) PROVE SendInv'
  <2> USE DEF sendFrame
  <2>1. CASE Poll(s) \/ Lock(s)
    <3>1. /\ spc' = [spc EXCEPT ![s] = "payload"] /\ hwi = None /\ hwi' = s /\ spc[s] # "idle"
          /\ sev' = sev /\ spayload' = spayload
          /\ tpc' = tpc /\ tev' = tev /\ payload' = payload /\ flag' = flag
      BY <2>1 DEF Poll, Lock
    <3>2. \A r \in Senders : spc[r] \notin {"payload", "flag", "int"}
      BY <1>1, <3>1
    <3> QED BY <1>1, <1>2, <1>4, <3>1, <3>2
  <2>2. CASE PollTimeout(s)
    <3>1. /\ spc' = [spc EXCEPT ![s] = "idle"] /\ spc[s] = "poll"
          /\ sev' = sev /\ spayload' = spayload /\ hwi' = hwi
          /\ tpc' = tpc /\ tev' = tev /\ payload' = payload /\ flag' = flag
      BY <2>2 DEF PollTimeout
    <3> QED BY <1>1, <1>2, <1>4, <3>1
  <2>3. CASE WritePayload(s)
    <3>1. /\ spc' = [spc EXCEPT ![s] = "flag"] /\ spc[s] = "payload"
          /\ sev' = sev /\ spayload' = spayload /\ hwi' = hwi
          /\ tpc' = tpc /\ tev' = tev /\ flag' = flag
          /\ payload' = [payload EXCEPT ![sev[s]] = spayload[s]]
      BY <2>3 DEF WritePayload
    <3>2. hwi = s /\ spayload[s] \in Payloads
      BY <1>1, <3>1
    <3>3. \A e \in Events : payload'[e] = payload[e] \/ payload'[e] \in Payloads
      BY <1>2, <3>1, <3>2
    <3>4. payload'[sev[s]] = spayload[s]
      BY <1>2, <3>1
    <3>5. \A r \in Senders : spc'[r] \in {"payload", "flag", "int"} <=> hwi' = r
      BY <1>1, <1>2, <3>1, <3>2
    <3>6. \A r \in Senders : spc'[r] # "idle" =>
            /\ spayload'[r] \in Payloads /\ sev'[r] \in Known
            /\ spc'[r] = "lock" => sev'[r] \in NoWaitClear
            /\ spc'[r] = "flag" => payload'[sev'[r]] = spayload'[r]
      <4>1. SUFFICES ASSUME NEW r \in Senders, spc'[r] # "idle"
                     PROVE  /\ spayload'[r] \in Payloads /\ sev'[r] \in Known
                            /\ spc'[r] = "lock" => sev'[r] \in NoWaitClear
                            /\ spc'[r] = "flag" => payload'[sev'[r]] = spayload'[r]
        OBVIOUS
      <4>2. CASE r = s
        BY <1>1, <1>2, <3>1, <3>4, <4>2
      <4>3. CASE r # s
        <5>1. spc'[r] = spc[r] /\ spc[r] # "flag"
          BY <1>1, <1>2, <3>1, <3>2, <4>3
        <5> QED BY <1>1, <3>1, <4>1, <5>1
      <4> QED BY <4>2, <4>3
    <3> QED BY <1>1, <1>2, <3>1, <3>3, <3>5, <3>6 DEF SendInv
  <2>4. CASE WriteFlag(s)
    <3>1. /\ spc' = [spc EXCEPT ![s] = "int"] /\ spc[s] = "flag"
          /\ sev' = sev /\ spayload' = spayload /\ hwi' = hwi
          /\ tpc' = tpc /\ tev' = tev /\ payload' = payload
          /\ flag' = [flag EXCEPT ![sev[s]] = TRUE]
      BY <2>4 DEF WriteFlag
    <3>2. payload[sev[s]] \in Payloads /\ sev[s] \in Known /\ hwi = s
      BY <1>1, <3>1
    <3>3. \A e \in Events : flag'[e] => flag[e] \/ e = sev[s]
      BY <1>2, <3>1
    <3> QED BY <1>1, <1>2, <3>1, <3>2, <3>3 DEF SendInv
  <2>5. CASE IntSend(s)
    <3>1. /\ spc' = [spc EXCEPT ![s] = "idle"] /\ spc[s] = "int" /\ hwi' = None
          /\ sev' = sev /\ spayload' = spayload
          /\ tpc' = tpc /\ tev' = tev /\ payload' = payload /\ flag' = flag
      BY <2>5 DEF IntSend
    <3>2. hwi = s
      BY <1>1, <3>1
    <3> QED BY <1>1, <1>2, <1>4, <3>1, <3>2
  <2> QED BY <1>8, <2>1, <2>2, <2>3, <2>4, <2>5 DEF Send
<1>9. CASE Isr
  <2>1. CASE ~ IsrAck
    BY <1>3, <1>9, <2>1 DEF Isr, IsrEnter, IsrSkip, IsrFound, IsrReturn, IsrPayload, IsrExec,
                            isrFrame
  <2>2. CASE IsrAck
    <3>1. \A e \in Events : flag'[e] => flag[e]
      BY <1>2, <2>2 DEF IsrAck
    <3> QED BY <1>3, <2>2, <3>1 DEF IsrAck, isrFrame
  <2> QED BY <2>1, <2>2
<1>10. ASSUME NEW t \in Tasks, Task(t) PROVE SendInv'
  <2> USE DEF At, Goto, taskFrame
  <2>1. CASE LineOff(t) \/ LineOn(t) \/ EditChart(t) \/ WriteRegMask(t) \/ ClearCallback(t)
             \/ DisableEventExec(t)
    <3>1. /\ spc' = spc /\ sev' = sev /\ spayload' = spayload /\ hwi' = hwi
          /\ payload' = payload /\ flag' = flag /\ tev' = tev
      BY <2>1 DEF LineOff, LineOn, EditChart, WriteRegMask, ClearCallback, DisableEventExec
    <3>2. \A u \in Tasks : tpc'[u] = "evtExec" => tpc[u] = "evtExec"
      BY <1>2, <2>1 DEF LineOff, LineOn, EditChart, WriteRegMask, ClearCallback,
                        DisableEventExec
    <3> QED BY <1>3, <3>1, <3>2
  <2>2. CASE ClearFlag(t) \/ DisableEventAck(t)
    <3>1. /\ spc' = spc /\ sev' = sev /\ spayload' = spayload /\ hwi' = hwi
          /\ payload' = payload /\ flag' = [flag EXCEPT ![tev[t]] = FALSE] /\ tev' = tev
      BY <2>2 DEF ClearFlag, DisableEventAck
    <3>2. \A e \in Events : flag'[e] => flag[e]
      BY <1>2, <3>1
    <3>3. \A u \in Tasks : tpc'[u] = "evtExec" => tpc[u] = "evtExec" \/ flag[tev[u]]
      BY <1>2, <2>2 DEF ClearFlag, DisableEventAck
    <3> QED BY <1>3, <3>1, <3>2, <3>3
  <2> QED BY <1>10, <2>1, <2>2 DEF Task
<1>11. ASSUME NEW t \in Tasks, NEW e \in Events,
              \/ RegisterEvent(t, e) \/ UnregisterEvent(t, e)
              \/ DisableEvent(t, e) \/ EnableEvent(t, e)
       PROVE  SendInv'
  <2>1. /\ spc' = spc /\ sev' = sev /\ spayload' = spayload /\ hwi' = hwi
        /\ payload' = payload /\ flag' = flag
    BY <1>11 DEF RegisterEvent, UnregisterEvent, DisableEvent, EnableEvent, taskFrame
  <2>2. \A u \in Tasks : tpc'[u] = "evtExec" => tev'[u] = tev[u] /\ tpc[u] = "evtExec"
    BY <1>2, <1>11 DEF RegisterEvent, UnregisterEvent, DisableEvent, EnableEvent, Begin
  <2> QED BY <1>3, <2>1, <2>2
<1>12. ASSUME NEW t \in Tasks, Disable(t) \/ Restore(t) PROVE SendInv'
  BY <1>3, <1>12 DEF Disable, Restore, lineFrame
<1> QED BY <1>5, <1>6, <1>7, <1>8, <1>9, <1>10, <1>11, <1>12 DEF Next, Call

\* The tables of the driver are sound.
THEOREM DriverInvariant == OneSwitcher /\ Spec => []DriverInv
<1>1. CASE OneSwitcher
  <2>1. DriverInv /\ [Next]_vars => DriverInv'
    BY <1>1, TypeStep, CallsStep, ChartStep, IsrStep, SendStep DEF DriverInv
  <2> QED BY <2>1, InitDriver, PTL DEF Spec
<1>2. CASE ~ OneSwitcher
  BY <1>2
<1> QED BY <1>1, <1>2

\* The ISR finds neither the chart nor an event's entry half changed: the tables are well
\* formed, the chart in the order of the priorities, and no call works on them while the ISR
\* does (NotifyDriverShm.c:232, 303, 502).
THEOREM TablesAreConsistent == OneSwitcher /\ Spec => []DriverConsistent
<1>1. DriverInv => DriverConsistent
  BY DEF DriverInv, DriverConsistent, IsrExcludesDriver, ChartInv, CallsInv, Inside
<1> QED BY <1>1, DriverInvariant, PTL

\* Notify_exec always finds a callback (the assertion of Notify.c:874), as long as no event is
\* both registered late and switched.
THEOREM CallbacksAreFound ==
    OneSwitcher /\ Registrable \cap Switchable = {} /\ Spec => []ExecHasCallback
<1>1. CASE Registrable \cap Switchable = {}
  <2>1. ASSUME DriverInv PROVE ExecHasCallback
    <3>1. ASSUME ipc = "exec" PROVE regChart[index] \in callbacks
      <4>1. index \in DOMAIN regChart /\ regChart \in Seq(Events)
        BY <2>1, <3>1 DEF DriverInv, IsrInv, TypeOK
      <4>2. regChart[index] \in ToSet(regChart) /\ regChart[index] \in Events
        BY <4>1 DEF ToSet
      <4> QED BY <2>1, <4>2 DEF DriverInv, ChartInv
    <3>2. ASSUME NEW t \in Tasks, tpc[t] = "evtExec" PROVE tev[t] \in callbacks
      <4>1. tev[t] \in Known /\ tev[t] \in Switchable
        BY <2>1, <3>2 DEF DriverInv, SendInv, CallsInv, SwitchLabels
      <4> QED BY <1>1, <2>1, <4>1 DEF DriverInv, ChartInv, Known
    <3> QED BY <3>1, <3>2 DEF ExecHasCallback
  <2> QED BY <2>1, DriverInvariant, PTL
<1>2. CASE Registrable \cap Switchable # {}
  BY <1>2
<1> QED BY <1>1, <1>2

\* Once Notify_disableEvent has returned, the event's callback does not run until it is enabled
\* again: the ISR that has found the event finishes with it before a task can run.
THEOREM DisabledEventsStaySilent == OneSwitcher /\ Spec => []DisabledStaysSilent
<1>1. DriverInv => DisabledStaysSilent
  BY DEF DriverInv, IsrInv, DisabledStaysSilent
<1> QED BY <1>1, DriverInvariant, PTL

-----------------------------------------------------------------------------
(* What a step means for one event                                         *)

SentKept(e) == /\ sent'[e] = sent[e] /\ payload'[e] = payload[e]
               /\ \A s \in Senders : Writing(s, e)' <=> Writing(s, e)
HandsKept(e) == /\ \A l \in {"ack", "exec"} : Holds(l, e)' <=> Holds(l, e)
                /\ Holds("ack", e) \/ Holds("exec", e) => ipayload' = ipayload

Quiet(e) == flag'[e] = flag[e] /\ got'[e] = got[e] /\ SentKept(e) /\ HandsKept(e)
\* A sender disables the interrupts, or writes the payload, while the flag is DOWN.
Prepares(e) == ~ flag[e] /\ ~ flag'[e] /\ sent'[e] = sent[e] /\ got'[e] = got[e] /\ HandsKept(e)
\* It sets the flag UP.
Raises(e) == /\ ~ flag[e] /\ flag'[e] /\ payload[e] \in Payloads /\ payload'[e] = payload[e]
             /\ sent'[e] = Append(sent[e], payload[e]) /\ got'[e] = got[e]
             /\ \A s \in Senders : ~ Writing(s, e)'
             /\ HandsKept(e)
\* The ISR reads the payload, acknowledges the event and calls the callback.
Takes(e) == /\ flag[e] /\ flag'[e] /\ got'[e] = got[e] /\ SentKept(e)
            /\ Holds("payload", e) /\ Holds("ack", e)' /\ ipayload' = payload[e]
Acks(e) == /\ flag[e] /\ ~ flag'[e] /\ got'[e] = got[e] /\ SentKept(e)
           /\ Holds("ack", e) /\ Holds("exec", e)' /\ ipayload' = ipayload
Executes(e) == /\ flag'[e] = flag[e] /\ got'[e] = Append(got[e], ipayload) /\ SentKept(e)
               /\ Holds("exec", e) /\ ipayload \in Payloads /\ ipc' = "scan"
\* A task drops a pending event, or disableEvent executes one.
Drops(e) == /\ ~ flag'[e] /\ got'[e] = got[e] /\ SentKept(e)
            /\ ipc = "off" /\ ipc' = "off" /\ e \in Registrable \cup Switchable
Switches(e) == flag'[e] = flag[e] /\ SentKept(e) /\ ipc = "off" /\ ipc' = "off" /\ e \in Switchable

Moves(e) == \/ Quiet(e) \/ Prepares(e) \/ Raises(e) \/ Takes(e) \/ Acks(e) \/ Executes(e)
            \/ Drops(e) \/ Switches(e)

\* Every step is one of these for every event that is sent with waitClear.
LEMMA EveryStepMoves ==
    ASSUME DriverInv, NEW e \in Events \ NoWaitClear, EntryInv(e), [Next]_vars
    PROVE  Moves(e)
<1> USE DEF procCtrl, chart, line, regs, tasks, isr, sender, history
<1>1. /\ e \in Events /\ TypeOK
      /\ flag \in [Events -> BOOLEAN] /\ payload \in [Events -> {0} \cup Payloads]
      /\ sent \in [Events -> Seq(Payloads)] /\ got \in [Events -> Seq(Payloads)]
      /\ spc \in [Senders -> SendLabels] /\ sev \in [Senders -> Events]
      /\ tev \in [Tasks -> Events]
  BY DEF DriverInv, TypeOK
<1>2. ASSUME ipc' = ipc, index' = index, regChart' = regChart, ipayload' = ipayload
      PROVE  HandsKept(e)
  BY <1>2 DEF HandsKept, Holds
<1>3. ASSUME ipc \notin {"ack", "exec"}, ipc' \notin {"ack", "exec"}
      PROVE  HandsKept(e)
  BY <1>3 DEF HandsKept, Holds
<1>4. ASSUME sent' = sent, payload' = payload, spc' = spc, sev' = sev
      PROVE  SentKept(e)
  BY <1>4 DEF SentKept, Writing
<1>5. CASE UNCHANGED vars \/ SetNotifyHandle
  BY <1>2, <1>4, <1>5 DEF vars, SetNotifyHandle, Moves, Quiet
<1>6. ASSUME NEW s \in Senders, NEW d \in Events, SendEvent(s, d) PROVE Moves(e)
  <2>1. /\ spc[s] = "idle" /\ \E l \in {"lock", "poll"} : spc' = [spc EXCEPT ![s] = l]
        /\ sev' = [sev EXCEPT ![s] = d]
    BY <1>6 DEF SendEvent
  <2>2. sent' = sent /\ payload' = payload /\ flag' = flag /\ got' = got
    BY <1>6 DEF SendEvent, sendFrame
  <2>3. \A r \in Senders : Writing(r, e)' <=> Writing(r, e)
    BY <1>1, <2>1 DEF Writing
  <2>4. HandsKept(e)
    BY <1>2, <1>6 DEF SendEvent, sendFrame
  <2> QED BY <2>2, <2>3, <2>4 DEF SentKept, Moves, Quiet
<1>7. ASSUME NEW s \in Senders, Send(s) PROVE Moves(e)
  <2> USE DEF sendFrame
  <2>1. HandsKept(e)
    BY <1>2, <1>7 DEF Send, Poll, PollTimeout, Lock, WritePayload, WriteFlag, IntSend
  <2>2. CASE PollTimeout(s) \/ IntSend(s)
    <3>1. /\ spc[s] \in {"poll", "int"} /\ spc' = [spc EXCEPT ![s] = "idle"] /\ sev' = sev
          /\ sent' = sent /\ payload' = payload /\ flag' = flag /\ got' = got
      BY <2>2 DEF PollTimeout, IntSend
    <3>2. \A r \in Senders : Writing(r, e)' <=> Writing(r, e)
      BY <1>1, <3>1 DEF Writing
    <3> QED BY <2>1, <3>1, <3>2 DEF SentKept, Moves, Quiet
  <2>3. CASE Lock(s) \/ (Poll(s) /\ sev[s] # e)
    <3>1. /\ spc[s] \in {"poll", "lock"} /\ spc' = [spc EXCEPT ![s] = "payload"] /\ sev' = sev
          /\ sent' = sent /\ payload' = payload /\ flag' = flag /\ got' = got
      BY <2>3 DEF Poll, Lock
    <3>2. sev[s] # e
      BY <2>3 DEF Lock, DriverInv, SendInv
    <3>3. \A r \in Senders : Writing(r, e)' <=> Writing(r, e)
      BY <1>1, <3>1, <3>2 DEF Writing
    <3> QED BY <2>1, <3>1, <3>3 DEF SentKept, Moves, Quiet
  <2>4. CASE Poll(s) /\ sev[s] = e
    BY <2>1, <2>4 DEF Poll, Moves, Prepares
  <2>5. CASE WritePayload(s)
    <3>1. /\ spc[s] = "payload" /\ spc' = [spc EXCEPT ![s] = "flag"] /\ sev' = sev
          /\ payload' = [payload EXCEPT ![sev[s]] = spayload[s]]
          /\ sent' = sent /\ flag' = flag /\ got' = got
      BY <2>5 DEF WritePayload
    <3>2. CASE sev[s] = e
      <4>1. ~ flag[e]
        BY <3>1, <3>2 DEF EntryInv, Writing
      <4> QED BY <2>1, <3>1, <4>1 DEF Moves, Prepares
    <3>3. CASE sev[s] # e
      <4>1. \A r \in Senders : Writing(r, e)' <=> Writing(r, e)
        BY <1>1, <3>1, <3>3 DEF Writing
      <4>2. payload'[e] = payload[e]
        BY <1>1, <3>1, <3>3
      <4> QED BY <2>1, <3>1, <4>1, <4>2 DEF SentKept, Moves, Quiet
    <3> QED BY <3>2, <3>3
  <2>6. CASE WriteFlag(s)
    <3>1. /\ spc[s] = "flag" /\ spc' = [spc EXCEPT ![s] = "int"] /\ sev' = sev
          /\ flag' = [flag EXCEPT ![sev[s]] = TRUE]
          /\ sent' = [sent EXCEPT ![sev[s]] = Append(sent[sev[s]], spayload[s])]
          /\ payload' = payload /\ got' = got
      BY <2>6 DEF WriteFlag
    <3>2. CASE sev[s] = e
      <4>1. ~ flag[e]
        BY <3>1, <3>2 DEF EntryInv, Writing
      <4>2. payload[e] = spayload[s] /\ spayload[s] \in Payloads
        BY <3>1, <3>2 DEF DriverInv, SendInv
      <4>3. \A r \in Senders : ~ Writing(r, e)'
        <5>1. \A r \in Senders : r # s => spc[r] \notin {"payload", "flag"}
          BY <3>1 DEF DriverInv, SendInv
        <5> QED BY <1>1, <3>1, <5>1 DEF Writing
      <4>4. flag'[e] /\ sent'[e] = Append(sent[e], payload[e])
        BY <1>1, <3>1, <3>2, <4>2
      <4> QED BY <2>1, <3>1, <4>1, <4>2, <4>3, <4>4 DEF Moves, Raises
    <3>3. CASE sev[s] # e
      <4>1. \A r \in Senders : Writing(r, e)' <=> Writing(r, e)
        BY <1>1, <3>1, <3>3 DEF Writing
      <4>2. sent'[e] = sent[e] /\ flag'[e] = flag[e]
        BY <1>1, <3>1, <3>3
      <4> QED BY <2>1, <3>1, <4>1, <4>2 DEF SentKept, Moves, Quiet
    <3> QED BY <3>2, <3>3
  <2> QED BY <1>7, <2>2, <2>3, <2>4, <2>5, <2>6 DEF Send
<1>8. CASE Isr
  <2> USE DEF isrFrame
  <2>1. SentKept(e)
    BY <1>4, <1>8 DEF Isr, IsrEnter, IsrSkip, IsrFound, IsrReturn, IsrPayload, IsrAck, IsrExec
  <2>2. CASE IsrEnter \/ IsrSkip \/ IsrFound \/ IsrReturn
    <3>1. ipc \notin {"ack", "exec"} /\ ipc' \notin {"ack", "exec"} /\ flag' = flag /\ got' = got
      BY <2>2 DEF IsrEnter, IsrSkip, IsrFound, IsrReturn
    <3> QED BY <1>3, <2>1, <3>1 DEF Moves, Quiet
  <2>3. CASE IsrPayload
    <3>1. /\ ipc = "payload" /\ ipc' = "ack" /\ ipayload' = payload[regChart[index]]
          /\ regChart' = regChart /\ index' = index /\ flag' = flag /\ got' = got
      BY <2>3 DEF IsrPayload
    <3>2. CASE regChart[index] = e
      <4>1. flag[e]
        BY <3>1, <3>2 DEF DriverInv, IsrInv
      <4> QED BY <2>1, <3>1, <3>2, <4>1 DEF Moves, Takes, Holds
    <3>3. CASE regChart[index] # e
      <4>1. HandsKept(e)
        BY <3>1, <3>3 DEF HandsKept, Holds
      <4> QED BY <2>1, <3>1, <4>1 DEF Moves, Quiet
    <3> QED BY <3>2, <3>3
  <2>4. CASE IsrAck
    <3>1. /\ ipc = "ack" /\ ipc' = "exec" /\ ipayload' = ipayload
          /\ flag' = [flag EXCEPT ![regChart[index]] = FALSE]
          /\ regChart' = regChart /\ index' = index /\ got' = got
      BY <2>4 DEF IsrAck
    <3>2. CASE regChart[index] = e
      <4>1. flag[e] /\ ~ flag'[e]
        BY <1>1, <3>1, <3>2 DEF DriverInv, IsrInv
      <4> QED BY <2>1, <3>1, <3>2, <4>1 DEF Moves, Acks, Holds
    <3>3. CASE regChart[index] # e
      <4>1. HandsKept(e)
        BY <3>1, <3>3 DEF HandsKept, Holds
      <4>2. flag'[e] = flag[e]
        BY <1>1, <3>1, <3>3
      <4> QED BY <2>1, <3>1, <4>1, <4>2 DEF Moves, Quiet
    <3> QED BY <3>2, <3>3
  <2>5. CASE IsrExec
    <3>1. /\ ipc = "exec" /\ ipc' = "scan" /\ flag' = flag
          /\ got' = [got EXCEPT ![regChart[index]] = Append(got[regChart[index]], ipayload)]
      BY <2>5 DEF IsrExec, Callback
    <3>2. CASE regChart[index] = e
      <4>1. ipayload \in Payloads
        BY <3>1 DEF DriverInv, IsrInv
      <4>2. got'[e] = Append(got[e], ipayload)
        BY <1>1, <3>1, <3>2
      <4> QED BY <2>1, <3>1, <3>2, <4>1, <4>2 DEF Moves, Executes, Holds
    <3>3. CASE regChart[index] # e
      <4>1. HandsKept(e)
        BY <3>1, <3>3 DEF HandsKept, Holds
      <4>2. got'[e] = got[e]
        BY <1>1, <3>1, <3>3
      <4> QED BY <2>1, <3>1, <4>1, <4>2 DEF Moves, Quiet
    <3> QED BY <3>2, <3>3
  <2> QED BY <1>8, <2>2, <2>3, <2>4, <2>5 DEF Isr
<1>9. ASSUME NEW t \in Tasks, Task(t) PROVE Moves(e)
  <2> USE DEF At, Goto, taskFrame
  <2>1. ipc = "off" /\ ipc' = "off" /\ HandsKept(e) /\ SentKept(e)
    BY <1>3, <1>4, <1>9 DEF Task, LineOff, LineOn, EditChart, ClearFlag, WriteRegMask,
                            ClearCallback, DisableEventAck, DisableEventExec
  <2>2. CASE LineOff(t) \/ LineOn(t) \/ EditChart(t) \/ WriteRegMask(t) \/ ClearCallback(t)
    <3>1. flag' = flag /\ got' = got
      BY <2>2 DEF LineOff, LineOn, EditChart, WriteRegMask, ClearCallback
    <3> QED BY <2>1, <3>1 DEF Moves, Quiet
  <2>3. CASE ClearFlag(t) \/ DisableEventAck(t)
    <3>1. /\ flag' = [flag EXCEPT ![tev[t]] = FALSE] /\ got' = got
          /\ tpc[t] \in GateLabels \cup SwitchLabels
      BY <2>3 DEF ClearFlag, DisableEventAck, GateLabels, SwitchLabels
    <3>2. tev[t] \in Registrable \cup Switchable
      BY <3>1 DEF DriverInv, CallsInv
    <3>3. CASE tev[t] = e
      BY <1>1, <2>1, <3>1, <3>2, <3>3 DEF Moves, Drops
    <3>4. CASE tev[t] # e
      <4>1. flag'[e] = flag[e]
        BY <1>1, <3>1, <3>4
      <4> QED BY <2>1, <3>1, <4>1 DEF Moves, Quiet
    <3> QED BY <3>3, <3>4
  <2>4. CASE DisableEventExec(t)
    <3>1. /\ got' = [got EXCEPT ![tev[t]] = Append(got[tev[t]], payload[tev[t]])] /\ flag' = flag
          /\ tpc[t] \in SwitchLabels
      BY <2>4 DEF DisableEventExec, Callback, SwitchLabels
    <3>2. tev[t] \in Switchable
      BY <3>1 DEF DriverInv, CallsInv
    <3>3. CASE tev[t] = e
      BY <2>1, <3>1, <3>2, <3>3 DEF Moves, Switches
    <3>4. CASE tev[t] # e
      <4>1. got'[e] = got[e]
        BY <1>1, <3>1, <3>4
      <4> QED BY <2>1, <3>1, <4>1 DEF Moves, Quiet
    <3> QED BY <3>3, <3>4
  <2> QED BY <1>9, <2>2, <2>3, <2>4 DEF Task
<1>10. ASSUME NEW t \in Tasks, NEW d \in Events,
              \/ RegisterEvent(t, d) \/ UnregisterEvent(t, d)
              \/ DisableEvent(t, d) \/ EnableEvent(t, d)
       PROVE  Moves(e)
  <2>1. ipc = "off" /\ ipc' = "off" /\ flag' = flag /\ got' = got
    BY <1>10 DEF RegisterEvent, UnregisterEvent, DisableEvent, EnableEvent, At, taskFrame
  <2>2. SentKept(e)
    BY <1>4, <1>10 DEF RegisterEvent, UnregisterEvent, DisableEvent, EnableEvent, taskFrame
  <2> QED BY <1>3, <2>1, <2>2 DEF Moves, Quiet
<1>11. ASSUME NEW t \in Tasks, Disable(t) \/ Restore(t) PROVE Moves(e)
  BY <1>2, <1>4, <1>11 DEF Disable, Restore, lineFrame, Moves, Quiet
<1> QED BY <1>5, <1>6, <1>7, <1>8, <1>9, <1>10, <1>11 DEF Next, Call

-----------------------------------------------------------------------------
(* The history of an event that is sent with waitClear                     *)

LEMMA EntryStep ==
    ASSUME DriverInv, NEW e \in Events \ NoWaitClear, EntryInv(e), [Next]_vars
    PROVE  EntryInv(e)'
<1>1. /\ flag \in [Events -> BOOLEAN] /\ sent[e] \in Seq(Payloads) /\ flag[e] \in BOOLEAN
      /\ Holds("ack", e) => flag[e]
  BY DEF DriverInv, TypeOK, IsrInv, Holds
<1>2. CASE Quiet(e)
  BY <1>1, <1>2 DEF EntryInv, Quiet, SentKept, HandsKept
<1>3. CASE Prepares(e)
  BY <1>1, <1>3 DEF EntryInv, Prepares, HandsKept
<1>4. CASE Raises(e)
  <2>1. ~ Holds("ack", e)' /\ payload'[e] = payload[e] /\ sent'[e] = Append(sent[e], payload[e])
    BY <1>1, <1>4 DEF Raises, HandsKept
  <2>2. payload[e] \in Payloads
    BY <1>4 DEF Raises
  <2>3. PICK q : q = sent[e]
    OBVIOUS
  <2>4. Append(q, payload[e]) # <<>>
        /\ payload[e] = Append(q, payload[e])[Len(Append(q, payload[e]))]
    BY <1>1, <2>2, <2>3, AppendProperties
  <2> QED BY <1>4, <2>1, <2>3, <2>4 DEF EntryInv, Raises
<1>5. CASE Takes(e)
  BY <1>5 DEF EntryInv, Takes, SentKept
<1>6. CASE Acks(e)
  BY <1>6 DEF EntryInv, Acks, Holds, SentKept
<1>7. CASE Executes(e)
  BY <1>7 DEF EntryInv, Executes, Holds, SentKept
<1>8. CASE Drops(e)
  BY <1>8 DEF EntryInv, Drops, Holds, SentKept
<1>9. CASE Switches(e)
  BY <1>9 DEF EntryInv, Switches, Holds, SentKept
<1> QED BY <1>2, <1>3, <1>4, <1>5, <1>6, <1>7, <1>8, <1>9, EveryStepMoves DEF Moves

\* Nothing was executed, and nothing was sent before the event that is UP.
LEMMA OrderStep ==
    ASSUME DriverInv, NEW e \in Events \ (Switchable \cup NoWaitClear), EntryInv(e),
           OrderInv(e), [Next]_vars
    PROVE  OrderInv(e)'
<1>1. PICK p, q, n : p = sent[e] /\ q = got[e] /\ n = Before(e)
  OBVIOUS
<1>2. /\ p \in Seq(Payloads) /\ q \in Seq(Payloads) /\ Len(p) \in Nat
      /\ flag[e] \in BOOLEAN /\ (flag[e] => p # <<>>)
  BY <1>1 DEF DriverInv, TypeOK, EntryInv
<1>3. n \in Nat /\ n = IF flag[e] THEN Len(p) - 1 ELSE Len(p)
  BY <1>1, <1>2 DEF Before
<1>4. Holds("ack", e) => ~ Holds("exec", e)
  BY DEF Holds
\* More was sent before the event that is UP, and nothing executed.
<1>5. ASSUME got'[e] = q, Holds("exec", e)' <=> Holds("exec", e),
             Holds("exec", e) => ipayload' = ipayload,
             n <= Before(e)', Before(e)' \in Nat, \A i \in 1 .. n : sent'[e][i] = p[i]
      PROVE  OrderInv(e)'
  <2>1. PICK r, m : r = sent'[e] /\ m = Before(e)'
    OBVIOUS
  <2>2. CASE Holds("exec", e)
    <3>1. PICK k \in 1 .. n : p[k] = ipayload /\ Embeds(q, p, k - 1)
      BY <1>1, <2>2 DEF OrderInv
    <3>2. k - 1 \in Nat /\ k \in 1 .. m /\ r[k] = ipayload /\ \A i \in 1 .. k - 1 : r[i] = p[i]
      BY <1>3, <1>5, <2>1, <3>1
    <3>3. Embeds(q, r, k - 1)
      BY <1>2, <3>1, <3>2, EmbedsGrows
    <3> QED BY <1>5, <2>1, <2>2, <3>2, <3>3 DEF OrderInv
  <2>3. CASE ~ Holds("exec", e)
    <3>1. Embeds(q, p, n)
      BY <1>1, <2>3 DEF OrderInv
    <3>2. m \in Nat /\ n <= m /\ \A i \in 1 .. n : r[i] = p[i]
      BY <1>5, <2>1
    <3>3. Embeds(q, r, m)
      BY <1>2, <1>3, <3>1, <3>2, EmbedsGrows
    <3> QED BY <1>5, <2>1, <2>3, <3>3 DEF OrderInv
  <2> QED BY <2>2, <2>3
<1>6. CASE Quiet(e) \/ Prepares(e)
  <2>1. (flag'[e] <=> flag[e]) /\ sent'[e] = p
    BY <1>1, <1>2, <1>6 DEF Quiet, Prepares, SentKept
  <2>2. Before(e)' = n
    BY <1>3, <2>1 DEF Before
  <2> QED BY <1>1, <1>3, <1>5, <1>6, <2>1, <2>2 DEF Quiet, Prepares, HandsKept
<1>7. CASE Raises(e)
  <2>1. sent'[e] = Append(p, payload[e]) /\ payload[e] \in Payloads /\ flag'[e] /\ n = Len(p)
    BY <1>1, <1>3, <1>7 DEF Raises
  <2>2. Len(sent'[e]) = Len(p) + 1 /\ \A i \in 1 .. Len(p) : sent'[e][i] = p[i]
    BY <1>2, <2>1, AppendProperties
  <2>3. Before(e)' = n
    BY <1>2, <2>1, <2>2 DEF Before
  <2> QED BY <1>1, <1>3, <1>5, <1>7, <2>1, <2>2, <2>3 DEF Raises, HandsKept
<1>8. CASE Takes(e)
  <2>1. ~ Holds("exec", e) /\ ~ Holds("exec", e)' /\ sent'[e] = p /\ flag'[e] /\ flag[e]
    BY <1>1, <1>8 DEF Takes, Holds, SentKept
  <2>2. Before(e)' = n
    BY <1>3, <2>1 DEF Before
  <2> QED BY <1>1, <1>3, <1>5, <1>8, <2>1, <2>2 DEF Takes
<1>9. CASE Acks(e)
  <2>1. /\ ~ Holds("exec", e) /\ Holds("exec", e)' /\ sent'[e] = p /\ got'[e] = q
        /\ ~ flag'[e] /\ flag[e] /\ ipayload' = p[Len(p)]
    BY <1>1, <1>4, <1>9 DEF Acks, SentKept, EntryInv
  <2>2. Embeds(q, p, Len(p) - 1) /\ Before(e)' = Len(p) /\ Len(p) \in 1 .. Len(p)
    BY <1>1, <1>2, <1>3, <2>1 DEF OrderInv, Before
  <2> QED BY <2>1, <2>2 DEF OrderInv
<1>10. CASE Executes(e)
  <2>1. /\ Holds("exec", e) /\ ~ Holds("exec", e)' /\ sent'[e] = p /\ flag'[e] = flag[e]
        /\ got'[e] = Append(q, ipayload) /\ ipayload \in Payloads
    BY <1>1, <1>10 DEF Executes, SentKept, Holds
  <2>2. PICK k \in 1 .. n : p[k] = ipayload /\ Embeds(q, p, k - 1)
    BY <1>1, <2>1 DEF OrderInv
  <2>3. PICK x : x = ipayload
    OBVIOUS
  <2>4. Embeds(Append(q, x), p, n)
    BY <1>2, <1>3, <2>1, <2>2, <2>3, EmbedsAppend
  <2>5. Before(e)' = n
    BY <1>3, <2>1 DEF Before
  <2> QED BY <2>1, <2>3, <2>4, <2>5 DEF OrderInv
<1>11. CASE Drops(e)
  <2>1. ~ Holds("exec", e) /\ ~ Holds("exec", e)' /\ sent'[e] = p /\ ~ flag'[e]
    BY <1>1, <1>11 DEF Drops, Holds, SentKept
  <2>2. Before(e)' = Len(p)
    BY <2>1 DEF Before
  <2> QED BY <1>1, <1>2, <1>3, <1>5, <1>11, <2>1, <2>2 DEF Drops
<1>12. ~ Switches(e)
  BY DEF Switches
<1> QED BY <1>6, <1>7, <1>8, <1>9, <1>10, <1>11, <1>12, EveryStepMoves DEF Moves

LEMMA StreamStep ==
    ASSUME DriverInv, NEW e \in Waited, EntryInv(e), StreamInv(e), [Next]_vars
    PROVE  StreamInv(e)'
<1>1. PICK p, q, n : p = sent[e] /\ q = got[e] /\ n = Before(e)
  OBVIOUS
<1>2. /\ p \in Seq(Payloads) /\ q \in Seq(Payloads) /\ Len(p) \in Nat /\ Len(q) \in Nat
      /\ flag[e] \in BOOLEAN /\ (flag[e] => p # <<>>)
  BY <1>1 DEF DriverInv, TypeOK, EntryInv, Waited
<1>3. n \in Nat /\ n = IF flag[e] THEN Len(p) - 1 ELSE Len(p)
  BY <1>1, <1>2 DEF Before
<1>4. Holds("ack", e) => ~ Holds("exec", e)
  BY DEF Holds
<1>5. /\ Len(q) = n - (IF Holds("exec", e) THEN 1 ELSE 0)
      /\ \A i \in 1 .. Len(q) : q[i] = p[i]
      /\ Holds("exec", e) => ipayload = p[Len(q) + 1]
  BY <1>1 DEF StreamInv
\* The ISR goes on with the next event.
<1>6. ASSUME got'[e] = q, Holds("exec", e)' <=> Holds("exec", e),
             Holds("exec", e) => ipayload' = ipayload,
             Before(e)' = n, \A i \in 1 .. n : sent'[e][i] = p[i]
      PROVE  StreamInv(e)'
  <2>1. \A i \in 1 .. Len(q) : i \in 1 .. n
    BY <1>2, <1>3, <1>5
  <2>2. Holds("exec", e) => Len(q) + 1 \in 1 .. n
    BY <1>2, <1>3, <1>5
  <2> QED BY <1>5, <1>6, <2>1, <2>2 DEF StreamInv
<1>7. CASE Quiet(e) \/ Prepares(e)
  <2>1. (flag'[e] <=> flag[e]) /\ sent'[e] = p
    BY <1>1, <1>2, <1>7 DEF Quiet, Prepares, SentKept
  <2>2. Before(e)' = n
    BY <1>3, <2>1 DEF Before
  <2> QED BY <1>1, <1>6, <1>7, <2>1, <2>2 DEF Quiet, Prepares, HandsKept
<1>8. CASE Raises(e)
  <2>1. sent'[e] = Append(p, payload[e]) /\ payload[e] \in Payloads /\ flag'[e] /\ n = Len(p)
    BY <1>1, <1>3, <1>8 DEF Raises
  <2>2. Len(sent'[e]) = Len(p) + 1 /\ \A i \in 1 .. Len(p) : sent'[e][i] = p[i]
    BY <1>2, <2>1, AppendProperties
  <2>3. Before(e)' = n
    BY <1>2, <2>1, <2>2 DEF Before
  <2> QED BY <1>1, <1>6, <1>8, <2>1, <2>2, <2>3 DEF Raises, HandsKept
<1>9. CASE Takes(e)
  <2>1. ~ Holds("exec", e) /\ ~ Holds("exec", e)' /\ sent'[e] = p /\ flag'[e] /\ flag[e]
    BY <1>1, <1>9 DEF Takes, Holds, SentKept
  <2>2. Before(e)' = n
    BY <1>3, <2>1 DEF Before
  <2> QED BY <1>1, <1>6, <1>9, <2>1, <2>2 DEF Takes
<1>10. CASE Acks(e)
  <2>1. /\ ~ Holds("exec", e) /\ Holds("exec", e)' /\ sent'[e] = p /\ got'[e] = q
        /\ ~ flag'[e] /\ flag[e] /\ ipayload' = p[Len(p)]
    BY <1>1, <1>4, <1>10 DEF Acks, SentKept, EntryInv
  <2>2. Before(e)' = Len(p) /\ Len(q) = Len(p) - 1 /\ Len(q) + 1 = Len(p)
    BY <1>2, <1>3, <1>5, <2>1 DEF Before
  <2> QED BY <1>5, <2>1, <2>2 DEF StreamInv
<1>11. CASE Executes(e)
  <2>1. /\ Holds("exec", e) /\ ~ Holds("exec", e)' /\ sent'[e] = p /\ flag'[e] = flag[e]
        /\ got'[e] = Append(q, ipayload) /\ ipayload \in Payloads
    BY <1>1, <1>11 DEF Executes, SentKept, Holds
  <2>2. PICK r : r = got'[e]
    OBVIOUS
  <2>3. /\ Len(r) = Len(q) + 1 /\ r[Len(q) + 1] = ipayload
        /\ \A i \in 1 .. Len(q) : r[i] = q[i]
    BY <1>2, <2>1, <2>2, AppendProperties
  <2>4. Before(e)' = n /\ Len(r) = n
    BY <1>2, <1>3, <1>5, <2>1, <2>3 DEF Before
  <2>5. \A i \in 1 .. Len(r) : r[i] = p[i]
    BY <1>2, <1>5, <2>1, <2>3
  <2> QED BY <1>3, <2>1, <2>2, <2>4, <2>5 DEF StreamInv
<1>12. ~ Drops(e) /\ ~ Switches(e)
  BY DEF Drops, Switches, Waited
<1>13. e \in Events \ NoWaitClear
  BY DEF Waited
<1> QED BY <1>7, <1>8, <1>9, <1>10, <1>11, <1>12, <1>13, EveryStepMoves DEF Moves

LEMMA InitHistory == Init => HistoryInv
<1> SUFFICES ASSUME Init PROVE HistoryInv
  OBVIOUS
<1>1. ASSUME NEW e \in Events PROVE EntryInv(e) /\ OrderInv(e) /\ StreamInv(e)
  <2>1. flag[e] = FALSE /\ sent[e] = <<>> /\ got[e] = <<>> /\ ipc = "off"
        /\ \A s \in Senders : spc[s] = "idle"
    BY DEF Init
  <2>2. Before(e) = 0
    BY <2>1 DEF Before
  <2>3. EntryInv(e)
    BY <2>1 DEF EntryInv, Holds, Writing
  <2>4. OrderInv(e)
    BY <2>1, <2>2, EmbedsEmpty DEF OrderInv, Holds
  <2>5. StreamInv(e)
    BY <2>1, <2>2 DEF StreamInv, Holds
  <2> QED BY <2>3, <2>4, <2>5
<1> QED BY <1>1 DEF HistoryInv, Waited

LEMMA HistoryInvariant == OneSwitcher /\ Spec => []HistoryInv
<1>1. DriverInv /\ HistoryInv /\ [Next]_vars => HistoryInv'
  <2>1. SUFFICES ASSUME DriverInv, HistoryInv, [Next]_vars PROVE HistoryInv'
    OBVIOUS
  <2>2. ASSUME NEW e \in Events \ NoWaitClear PROVE EntryInv(e)'
    BY <2>1, <2>2, EntryStep DEF HistoryInv
  <2>3. ASSUME NEW e \in Events \ (Switchable \cup NoWaitClear) PROVE OrderInv(e)'
    <3>1. EntryInv(e) /\ OrderInv(e)
      BY <2>1 DEF HistoryInv
    <3> QED BY <2>1, <3>1, OrderStep
  <2>4. ASSUME NEW e \in Waited PROVE StreamInv(e)'
    <3>1. EntryInv(e) /\ StreamInv(e)
      BY <2>1 DEF HistoryInv, Waited
    <3> QED BY <2>1, <3>1, StreamStep
  <2> QED BY <2>2, <2>3, <2>4 DEF HistoryInv, Waited
<1> QED BY <1>1, InitHistory, DriverInvariant, PTL DEF Spec

\* What a callback receives was sent for its event with waitClear, in order and at most once,
\* whatever registrations drop in between (NotifyDriverShm.c:232, 303, 502).
THEOREM PayloadsInOrder == OneSwitcher /\ Spec => []ExecutedOnceInOrder
<1>1. ASSUME DriverInv, HistoryInv PROVE ExecutedOnceInOrder
  <2>1. SUFFICES ASSUME NEW e \in Events \ (Switchable \cup NoWaitClear)
                 PROVE  Embeds(got[e], sent[e], Len(sent[e]))
    BY DEF ExecutedOnceInOrder
  <2>2. PICK p, q, n : p = sent[e] /\ q = got[e] /\ n = Before(e)
    OBVIOUS
  <2>3. EntryInv(e) /\ OrderInv(e)
    BY <1>1 DEF HistoryInv
  <2>4. p \in Seq(Payloads) /\ q \in Seq(Payloads) /\ Len(p) \in Nat /\ (flag[e] => p # <<>>)
    BY <1>1, <2>2, <2>3 DEF DriverInv, TypeOK, EntryInv
  <2>5. n \in Nat /\ n <= Len(p)
    BY <2>2, <2>4 DEF Before
  <2>6. PICK m \in Nat : m <= n /\ Embeds(q, p, m)
    <3>1. CASE Holds("exec", e)
      <4>1. PICK k \in 1 .. n : Embeds(q, p, k - 1)
        BY <2>2, <2>3, <3>1 DEF OrderInv
      <4>2. k - 1 \in Nat /\ k - 1 <= n
        BY <2>5
      <4> QED BY <4>1, <4>2
    <3>2. CASE ~ Holds("exec", e)
      BY <2>2, <2>3, <2>5, <3>2 DEF OrderInv
    <3> QED BY <3>1, <3>2
  <2>7. Embeds(q, p, Len(p))
    BY <2>4, <2>5, <2>6, EmbedsGrows
  <2> QED BY <2>2, <2>7
<1> QED BY <1>1, DriverInvariant, HistoryInvariant, PTL

-----------------------------------------------------------------------------
(* The driver as a channel                                                 *)

\* A step is a send or a receive of the channel of its event, or nothing to any channel.
LEMMA StepRefines ==
    ASSUME DriverInv, HistoryInv, [Next]_vars
    PROVE  [C!ChannelNext]_(C!channelVars)
<1> USE DEF procCtrl, chart, line, regs, tasks, isr, sender, history
<1>1. /\ sent \in [Events -> Seq(Payloads)] /\ got \in [Events -> Seq(Payloads)]
      /\ flag \in [Events -> BOOLEAN] /\ \A e \in Waited : e \in Events
      /\ sev \in [Senders -> Events] /\ tev \in [Tasks -> Events]
  BY DEF DriverInv, TypeOK, Waited
<1>2. ASSUME NEW e \in Waited
      PROVE  EntryInv(e) /\ StreamInv(e)
  BY DEF HistoryInv, Waited
\* Nothing is sent and nothing is executed but for the events that are no channels.
<1>3. ASSUME \A e \in Waited : sent'[e] = sent[e] /\ got'[e] = got[e]
      PROVE  [C!ChannelNext]_(C!channelVars)
  BY <1>3 DEF C!channelVars
<1>4. CASE UNCHANGED vars \/ SetNotifyHandle
  BY <1>3, <1>4 DEF vars, SetNotifyHandle
<1>5. ASSUME NEW s \in Senders, NEW d \in Events, SendEvent(s, d)
      PROVE  [C!ChannelNext]_(C!channelVars)
  BY <1>3, <1>5 DEF SendEvent, sendFrame
<1>6. ASSUME NEW s \in Senders, Send(s) PROVE [C!ChannelNext]_(C!channelVars)
  <2> USE DEF sendFrame
  <2>1. CASE Poll(s) \/ PollTimeout(s) \/ Lock(s) \/ WritePayload(s) \/ IntSend(s)
    BY <1>3, <2>1 DEF Poll, PollTimeout, Lock, WritePayload, IntSend
  <2>2. CASE WriteFlag(s)
    <3>1. PICK d, x : d = sev[s] /\ x = spayload[s]
      OBVIOUS
    <3>2. /\ spc[s] = "flag" /\ sent' = [sent EXCEPT ![d] = Append(sent[d], x)] /\ got' = got
      BY <2>2, <3>1 DEF WriteFlag
    <3>3. CASE d \notin Waited
      <4>1. \A e \in Waited : sent'[e] = sent[e]
        BY <1>1, <3>2, <3>3
      <4> QED BY <1>3, <3>2, <4>1
    <3>4. CASE d \in Waited
      <4>1. x \in Payloads /\ ~ flag[d] /\ StreamInv(d)
        BY <1>2, <3>1, <3>2, <3>4 DEF EntryInv, Writing, DriverInv, SendInv
      <4>2. Len(sent[d]) - Len(got[d]) < 2
        <5>1. Len(got[d]) = Len(sent[d]) - (IF Holds("exec", d) THEN 1 ELSE 0)
          BY <4>1 DEF StreamInv, Before
        <5>2. Len(sent[d]) \in Nat /\ Len(got[d]) \in Nat
          BY <1>1, <3>4
        <5> QED BY <5>1, <5>2
      <4>3. [e \in Waited |-> sent'[e]]
              = [[e \in Waited |-> sent[e]] EXCEPT ![d] = Append([e \in Waited |-> sent[e]][d], x)]
        BY <1>1, <3>2, <3>4
      <4>4. C!Send(d, x)
        BY <3>2, <3>4, <4>2, <4>3 DEF C!Send, C!UnderWay
      <4> QED BY <3>4, <4>1, <4>4 DEF C!ChannelNext
    <3> QED BY <3>3, <3>4
  <2> QED BY <1>6, <2>1, <2>2 DEF Send
<1>7. CASE Isr
  <2> USE DEF isrFrame
  <2>1. CASE ~ IsrExec
    BY <1>3, <1>7, <2>1 DEF Isr, IsrEnter, IsrSkip, IsrFound, IsrReturn, IsrPayload, IsrAck
  <2>2. CASE IsrExec
    <3>1. PICK d, x : d = regChart[index] /\ x = ipayload
      OBVIOUS
    <3>2. /\ ipc = "exec" /\ got' = [got EXCEPT ![d] = Append(got[d], x)] /\ sent' = sent
      BY <2>2, <3>1 DEF IsrExec, Callback
    <3>3. CASE d \notin Waited
      <4>1. \A e \in Waited : got'[e] = got[e]
        BY <1>1, <3>2, <3>3
      <4> QED BY <1>3, <3>2, <4>1
    <3>4. CASE d \in Waited
      <4>1. /\ Len(got[d]) = Before(d) - 1 /\ x = sent[d][Len(got[d]) + 1]
            /\ flag[d] => sent[d] # <<>>
        BY <1>2, <3>1, <3>2, <3>4 DEF EntryInv, StreamInv, Holds
      <4>2. Len(sent[d]) - Len(got[d]) > 0
        <5>1. Len(sent[d]) \in Nat /\ Len(got[d]) \in Nat /\ flag[d] \in BOOLEAN
          BY <1>1, <3>4
        <5>2. Before(d) = Len(sent[d]) - 1 \/ Before(d) = Len(sent[d])
          BY <5>1 DEF Before
        <5> QED BY <4>1, <5>1, <5>2
      <4>3. [e \in Waited |-> got'[e]]
              = [[e \in Waited |-> got[e]] EXCEPT ![d] =
                    Append([e \in Waited |-> got[e]][d],
                           [e \in Waited |-> sent[e]][d][Len([e \in Waited |-> got[e]][d]) + 1])]
        BY <1>1, <3>2, <3>4, <4>1
      <4>4. C!Receive(d)
        BY <3>2, <3>4, <4>2, <4>3 DEF C!Receive, C!UnderWay
      <4> QED BY <3>4, <4>4 DEF C!ChannelNext
    <3> QED BY <3>3, <3>4
  <2> QED BY <2>1, <2>2
<1>8. ASSUME NEW t \in Tasks, Task(t) PROVE [C!ChannelNext]_(C!channelVars)
  <2> USE DEF taskFrame
  <2>1. CASE DisableEventExec(t)
    <3>1. PICK d : d = tev[t]
      OBVIOUS
    <3>2. got' = [got EXCEPT ![d] = Append(got[d], payload[d])] /\ sent' = sent
          /\ tpc[t] \in SwitchLabels
      BY <2>1, <3>1 DEF DisableEventExec, Callback, At, SwitchLabels
    <3>3. d \notin Waited
      BY <3>1, <3>2 DEF DriverInv, CallsInv, Waited
    <3>4. \A e \in Waited : got'[e] = got[e]
      BY <1>1, <3>2, <3>3
    <3> QED BY <1>3, <3>2, <3>4
  <2>2. CASE ~ DisableEventExec(t)
    BY <1>3, <1>8, <2>2 DEF Task, LineOff, LineOn, EditChart, ClearFlag, WriteRegMask,
                            ClearCallback, DisableEventAck
  <2> QED BY <2>1, <2>2
<1>9. ASSUME NEW t \in Tasks, NEW d \in Events,
             \/ RegisterEvent(t, d) \/ UnregisterEvent(t, d)
             \/ DisableEvent(t, d) \/ EnableEvent(t, d)
      PROVE  [C!ChannelNext]_(C!channelVars)
  BY <1>3, <1>9 DEF RegisterEvent, UnregisterEvent, DisableEvent, EnableEvent, taskFrame
<1>10. ASSUME NEW t \in Tasks, Disable(t) \/ Restore(t) PROVE [C!ChannelNext]_(C!channelVars)
  BY <1>3, <1>10 DEF Disable, Restore, lineFrame
<1> QED BY <1>4, <1>5, <1>6, <1>7, <1>8, <1>9, <1>10 DEF Next, Call

\* An event that is sent with waitClear and stays registered and enabled is a channel: its
\* payloads reach the callback exactly once and in order (NotifyDriverShm.c:173, 502).
THEOREM DriverIsChannel == OneSwitcher /\ Spec => ChannelRefinement
<1>1. Init => C!ChannelInit
  BY DEF Init, C!ChannelInit, Waited
<1>2. DriverInv /\ HistoryInv /\ [Next]_vars => [C!ChannelNext]_(C!channelVars)
  BY StepRefines
<1> QED BY <1>1, <1>2, DriverInvariant, HistoryInvariant, PTL
        DEF Spec, ChannelRefinement, C!ChannelSpec
=============================================================================
