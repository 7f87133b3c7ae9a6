--------------------------- MODULE VfoPanelProofs ---------------------------
(***************************************************************************)
(* The VFO panel, for any frequencies, modes, bandwidths and presets, and  *)
(* any number of callbacks.                                                *)
(*                                                                         *)
(* A callback sends a sequence of commands; what the radio is after them   *)
(* is a function by recursion, Run.  The first part of the proofs says     *)
(* what Run gives for the parts the callbacks are made of: that commands   *)
(* behind others find the radio as those have left it (RunConcat, by the   *)
(* least number of commands for which it would not), and what is then set. *)
(* The invariant IInv says that each VFO is displayed with its frequency,  *)
(* that a keyed radio has a button lit and is not in CW, where it could    *)
(* not be unkeyed, and that a tune carrier with its button dark is one the *)
(* radio refused to put out.                                               *)
(***************************************************************************)
EXTENDS VfoPanel, SequenceTheorems, WellFoundedInduction, TLAPS

-----------------------------------------------------------------------------
(* What a sequence of commands does to the radio.                          *)

\* The radio after the commands, when it was r before: the function of Sends.
Run(r, cs) ==
    LET after[n \in 0..Len(cs)] == IF n = 0 THEN r ELSE Obey(after[n - 1], cs[n])
    IN  after[Len(cs)]

\* f is the radio after each of the first m commands.
Steps(f, r, cs, m) ==
    f = [n \in 0..m |-> IF n = 0 THEN r ELSE Obey(f[n - 1], cs[n])]

Chain(f, r, cs, m) == f[0] = r /\ \A n \in 1..m : f[n] = Obey(f[n - 1], cs[n])

\* A set of numbers that is not empty has a least one.
LEMMA LeastNumber ==
    ASSUME NEW S, S \subseteq Nat, S # {}
    PROVE  \E n \in S : \A m \in S : n <= m
<1>1. \E n \in S : \A m \in S : ~(<<m, n>> \in OpToRel(<, Nat))
  BY NatLessThanWellFounded, WFMin
<1>2. ASSUME NEW n \in S, NEW m \in S, ~(<<m, n>> \in OpToRel(<, Nat))
      PROVE  n <= m
  BY <1>2 DEF OpToRel
<1>3. QED
  BY <1>1, <1>2

\* There is such a function for every number of commands: a least one without could be had by
\* one more command.
LEMMA StepsExist ==
    ASSUME NEW r, NEW cs, NEW k \in Nat
    PROVE  \E f : Steps(f, r, cs, k)
<1> DEFINE S == {m \in Nat : ~\E f : Steps(f, r, cs, m)}
<1>1. ASSUME S # {} PROVE FALSE
  <2>1. PICK m \in S : \A j \in S : m <= j
    BY <1>1, LeastNumber
  <2>2. m \in Nat /\ ~\E f : Steps(f, r, cs, m)
    BY <2>1
  <2>3. CASE m = 0
    <3>1. Steps([n \in 0..0 |-> r], r, cs, 0)
      BY DEF Steps
    <3>2. QED
      BY <2>2, <2>3, <3>1
  <2>4. CASE m # 0
    <3>1. m - 1 \in Nat /\ m - 1 \notin S
      BY <2>1, <2>2, <2>4
    <3>2. PICK f : Steps(f, r, cs, m - 1)
      BY <3>1
    <3> DEFINE g == [n \in 0..m |-> IF n = m THEN Obey(f[m - 1], cs[m]) ELSE f[n]]
    <3>3. \A n \in 0..(m - 1) : g[n] = f[n]
      BY <2>2
    <3>4. \A n \in 0..(m - 1) : f[n] = IF n = 0 THEN r ELSE Obey(f[n - 1], cs[n])
      BY <3>2 DEF Steps
    <3>5. ASSUME NEW n \in 0..m
          PROVE  g[n] = IF n = 0 THEN r ELSE Obey(g[n - 1], cs[n])
      <4>1. CASE n = m
        <5>1. g[n] = Obey(f[m - 1], cs[m]) /\ g[m - 1] = f[m - 1]
          BY <2>2, <2>4, <4>1, <3>3
        <5>2. QED
          BY <2>4, <4>1, <5>1
      <4>2. CASE n # m
        <5>1. n \in 0..(m - 1) /\ (n # 0 => n - 1 \in 0..(m - 1))
          BY <2>2, <4>2
        <5>2. QED
          BY <3>3, <3>4, <5>1
      <4>3. QED
        BY <4>1, <4>2
    <3>6. g = [n \in 0..m |-> g[n]]
      OBVIOUS
    <3> HIDE DEF g
    <3>7. Steps(g, r, cs, m)
      BY <3>5, <3>6 DEF Steps
    <3>8. QED
      BY <2>2, <3>7
  <2>5. QED
    BY <2>3, <2>4
<1>2. QED
  BY <1>1

\* And there is only one.
LEMMA StepsAreUnique ==
    ASSUME NEW r, NEW cs, NEW k \in Nat, NEW f, NEW g,
           Chain(f, r, cs, k), Chain(g, r, cs, k)
    PROVE  \A n \in 0..k : f[n] = g[n]
<1> DEFINE S == {n \in 0..k : f[n] # g[n]}
<1>1. ASSUME S # {} PROVE FALSE
  <2>1. S \subseteq Nat
    OBVIOUS
  <2>2. PICK m \in S : \A j \in S : m <= j
    BY <1>1, <2>1, LeastNumber
  <2>3. m \in 0..k /\ f[m] # g[m] /\ m # 0
    BY <2>2 DEF Chain
  <2>4. m - 1 \in 0..k /\ m - 1 \notin S /\ m \in 1..k
    BY <2>2, <2>3
  <2>5. f[m - 1] = g[m - 1]
    BY <2>4
  <2>6. QED
    BY <2>3, <2>4, <2>5 DEF Chain
<1>2. QED
  BY <1>1

\* What the commands do is known from any function that does one after the other.
LEMMA RunIs ==
    ASSUME NEW r, NEW cs, Len(cs) \in Nat, NEW f, Chain(f, r, cs, Len(cs))
    PROVE  Run(r, cs) = f[Len(cs)]
<1> DEFINE after == CHOOSE g : Steps(g, r, cs, Len(cs))
<1>1. Run(r, cs) = after[Len(cs)]
  BY DEF Run, Steps
<1>2. Steps(after, r, cs, Len(cs))
  BY StepsExist
<1> HIDE DEF after
<1>3. Chain(after, r, cs, Len(cs))
  BY <1>2 DEF Steps, Chain
<1>4. \A n \in 0..Len(cs) : f[n] = after[n]
  BY <1>3, StepsAreUnique
<1>5. QED
  BY <1>1, <1>4

\* There is one.
LEMMA RunChain ==
    ASSUME NEW r, NEW cs, Len(cs) \in Nat
    PROVE  \E f : Chain(f, r, cs, Len(cs)) /\ Run(r, cs) = f[Len(cs)]
<1>1. PICK f : Steps(f, r, cs, Len(cs))
  BY StepsExist
<1>2. Chain(f, r, cs, Len(cs))
  BY <1>1 DEF Steps, Chain
<1>3. QED
  BY <1>2, RunIs

\* No command and a single one.
LEMMA RunOne ==
    ASSUME NEW r, NEW c
    PROVE  Run(r, <<>>) = r /\ Run(r, <<c>>) = Obey(r, c)
<1>1. Len(<<>>) = 0 /\ Len(<<c>>) = 1 /\ <<c>>[1] = c
  OBVIOUS
<1>2. PICK f : Chain(f, r, <<>>, Len(<<>>)) /\ Run(r, <<>>) = f[Len(<<>>)]
  BY <1>1, RunChain
<1>3. PICK g : Chain(g, r, <<c>>, Len(<<c>>)) /\ Run(r, <<c>>) = g[Len(<<c>>)]
  BY <1>1, RunChain
<1>4. f[0] = r
  BY <1>2 DEF Chain
<1>5. g[1] = Obey(g[0], c) /\ g[0] = r
  BY <1>1, <1>3 DEF Chain
<1>6. QED
  BY <1>1, <1>2, <1>3, <1>4, <1>5

\* Commands that follow others find the radio as those have left it.
LEMMA RunConcat ==
    ASSUME NEW r, NEW S, NEW a \in Seq(S), NEW b \in Seq(S)
    PROVE  Run(r, a \o b) = Run(Run(r, a), b)
<1>1. /\ Len(a) \in Nat /\ Len(b) \in Nat /\ Len(a \o b) = Len(a) + Len(b)
      /\ \A i \in 1..Len(a) : (a \o b)[i] = a[i]
      /\ \A i \in 1..Len(b) : (a \o b)[Len(a) + i] = b[i]
  OBVIOUS
<1>2. PICK f : Chain(f, r, a \o b, Len(a \o b)) /\ Run(r, a \o b) = f[Len(a \o b)]
  <2>1. Len(a \o b) \in Nat
    BY <1>1
  <2>2. QED
    BY <2>1, RunChain
<1>3. f[0] = r /\ \A n \in 1..(Len(a) + Len(b)) : f[n] = Obey(f[n - 1], (a \o b)[n])
  BY <1>1, <1>2 DEF Chain
<1>4. Run(r, a) = f[Len(a)]
  <2>1. \A n \in 1..Len(a) : f[n] = Obey(f[n - 1], a[n])
    <3>1. TAKE n \in 1..Len(a)
    <3>2. n \in 1..(Len(a) + Len(b))
      BY <1>1
    <3>3. f[n] = Obey(f[n - 1], (a \o b)[n])
      BY <1>3, <3>2
    <3>4. QED
      BY <1>1, <3>3
  <2>2. Chain(f, r, a, Len(a))
    BY <1>3, <2>1 DEF Chain
  <2>3. QED
    BY <1>1, <2>2, RunIs
<1>5. Run(f[Len(a)], b) = f[Len(a) + Len(b)]
  <2> DEFINE g == [n \in 0..Len(b) |-> f[Len(a) + n]]
  <2>1. g[0] = f[Len(a)] /\ g[Len(b)] = f[Len(a) + Len(b)]
    BY <1>1
  <2>2. ASSUME NEW n \in 1..Len(b) PROVE g[n] = Obey(g[n - 1], b[n])
    <3>1. g[n] = f[Len(a) + n] /\ g[n - 1] = f[Len(a) + n - 1]
      BY <1>1
    <3>2. f[Len(a) + n] = Obey(f[Len(a) + n - 1], (a \o b)[Len(a) + n])
      BY <1>1, <1>3
    <3>3. QED
      BY <1>1, <3>1, <3>2
  <2> HIDE DEF g
  <2>3. Chain(g, f[Len(a)], b, Len(b))
    BY <2>1, <2>2 DEF Chain
  <2>4. QED
    BY <1>1, <2>1, <2>3, RunIs
<1>6. QED
  BY <1>1, <1>2, <1>4, <1>5

\* The callbacks do to the radio what their commands do.
LEMMA SendsRuns ==
    ASSUME NEW cs, Sends(cs)
    PROVE  radio' = Run(radio, cs)
  BY DEF Sends, Run

-----------------------------------------------------------------------------
(* The radio and single commands.                                          *)

Radios == [rcv : Freqs, xmt : Freqs, vfom : {"split", "simplex", "receive"}, mode : Modes, bw : Widths,
           ptt : BOOLEAN, carrier : BOOLEAN]

\* The commands that neither key the transmitter nor switch the carrier.
Quiet == {Set("rcv", f) : f \in Freqs} \cup {Set("xmt", f) : f \in Freqs}
            \cup {Set("vfom", o) : o \in {"split", "simplex", "receive"}}
            \cup {Set("mode", m) : m \in Modes} \cup {Set("bw", w) : w \in Widths}

\* A frequency is set on the air as well, for receiving.
LEMMA ObeyRcv ==
    ASSUME NEW r \in Radios, NEW f \in Freqs
    PROVE  /\ Obey(r, Set("rcv", f)) = [r EXCEPT !.rcv = f]
           /\ Obey(r, Set("rcv", f)) \in Radios
  BY DEF Obey, IsInhibited, Set, Radios

\* On the air the transmit frequency is not taken.
LEMMA ObeyXmt ==
    ASSUME NEW r \in Radios, NEW f \in Freqs
    PROVE  /\ Obey(r, Set("xmt", f)) = IF OnAir(r) THEN r ELSE [r EXCEPT !.xmt = f]
           /\ Obey(r, Set("xmt", f)) \in Radios
  BY DEF Obey, IsInhibited, Set, Radios

\* On the air the VFOs are not switched between split and simplex.
LEMMA ObeyVfom ==
    ASSUME NEW r \in Radios, NEW o \in {"split", "simplex", "receive"}
    PROVE  /\ Obey(r, Set("vfom", o)) = IF OnAir(r) THEN r ELSE [r EXCEPT !.vfom = o]
           /\ Obey(r, Set("vfom", o)) \in Radios
  BY DEF Obey, IsInhibited, Set, Radios

\* On the air the mode is not taken.
LEMMA ObeyMode ==
    ASSUME NEW r \in Radios, NEW m \in Modes
    PROVE  /\ Obey(r, Set("mode", m)) = IF OnAir(r) THEN r ELSE [r EXCEPT !.mode = m]
           /\ Obey(r, Set("mode", m)) \in Radios
  BY DEF Obey, IsInhibited, Set, Radios

\* In AM and FM no bandwidth is taken.
LEMMA ObeyBW ==
    ASSUME NEW r \in Radios, NEW w \in Widths
    PROVE  /\ Obey(r, Set("bw", w)) = IF r.mode \in {"AM", "FM"} THEN r ELSE [r EXCEPT !.bw = w]
           /\ Obey(r, Set("bw", w)) \in Radios
  BY DEF Obey, IsInhibited, Set, Radios

\* In CW the key is not taken.
LEMMA ObeyPtt ==
    ASSUME NEW r \in Radios, NEW on \in BOOLEAN
    PROVE  /\ Obey(r, Set("ptt", on)) = IF r.mode = "CW" THEN r ELSE [r EXCEPT !.ptt = on]
           /\ Obey(r, Set("ptt", on)) \in Radios
  BY DEF Obey, IsInhibited, Set, Radios

\* In AM and FM the carrier is not switched.
LEMMA ObeyCarrier ==
    ASSUME NEW r \in Radios, NEW on \in BOOLEAN
    PROVE  /\ Obey(r, Set("carrier", on)) =
                  IF r.mode \in {"AM", "FM"} THEN r ELSE [r EXCEPT !.carrier = on]
           /\ Obey(r, Set("carrier", on)) \in Radios
  BY DEF Obey, IsInhibited, Set, Radios

-----------------------------------------------------------------------------
(* The commands of the callbacks.                                          *)

\* None of the quiet commands keys the transmitter.
LEMMA QuietCommands ==
    /\ \A f \in Freqs : Set("rcv", f) \in Quiet /\ Set("xmt", f) \in Quiet
    /\ \A o \in {"split", "simplex", "receive"} : Set("vfom", o) \in Quiet
    /\ \A m \in Modes : Set("mode", m) \in Quiet
    /\ \A w \in Widths : Set("bw", w) \in Quiet
  BY DEF Quiet

\* They change neither the key nor the carrier.
LEMMA ObeyQuiet ==
    ASSUME NEW r \in Radios, NEW c \in Quiet
    PROVE  /\ Obey(r, c) \in Radios
           /\ Obey(r, c).ptt = r.ptt /\ Obey(r, c).carrier = r.carrier
           /\ r.ptt => Obey(r, c).mode = r.mode
<1>1. CASE c \in {Set("rcv", f) : f \in Freqs}
  <2>1. PICK f \in Freqs : c = Set("rcv", f)
    BY <1>1
  <2>2. QED
    BY <2>1, ObeyRcv DEF Radios
<1>2. CASE c \in {Set("xmt", f) : f \in Freqs}
  <2>1. PICK f \in Freqs : c = Set("xmt", f)
    BY <1>2
  <2>2. QED
    BY <2>1, ObeyXmt DEF Radios
<1>3. CASE c \in {Set("vfom", o) : o \in {"split", "simplex", "receive"}}
  <2>1. PICK o \in {"split", "simplex", "receive"} : c = Set("vfom", o)
    BY <1>3
  <2>2. c = Set("vfom", o)
    BY <2>1
  <2>3. Obey(r, c) = (IF OnAir(r) THEN r ELSE [r EXCEPT !.vfom = o]) /\ Obey(r, c) \in Radios
    BY <2>1, ObeyVfom
  <2>4. QED
    BY <2>3 DEF Radios
<1>4. CASE c \in {Set("mode", m) : m \in Modes}
  <2>1. PICK m \in Modes : c = Set("mode", m)
    BY <1>4
  <2>2. QED
    BY <2>1, ObeyMode DEF Radios, OnAir
<1>5. CASE c \in {Set("bw", w) : w \in Widths}
  <2>1. PICK w \in Widths : c = Set("bw", w)
    BY <1>5
  <2>2. QED
    BY <2>1, ObeyBW DEF Radios
<1>6. QED
  BY <1>1, <1>2, <1>3, <1>4, <1>5 DEF Quiet

\* Commands that do not key the transmitter leave it as it is, and the mode on the air.
LEMMA QuietRun ==
    ASSUME NEW r \in Radios, NEW cs \in Seq(Quiet)
    PROVE  /\ Run(r, cs) \in Radios
           /\ Run(r, cs).ptt = r.ptt /\ Run(r, cs).carrier = r.carrier
           /\ r.ptt => Run(r, cs).mode = r.mode
<1> DEFINE P(s) == /\ s \in Radios /\ s.ptt = r.ptt /\ s.carrier = r.carrier
                   /\ r.ptt => s.mode = r.mode
<1>1. Len(cs) \in Nat
  OBVIOUS
<1>2. PICK f : Chain(f, r, cs, Len(cs)) /\ Run(r, cs) = f[Len(cs)]
  BY <1>1, RunChain
<1>3. f[0] = r /\ \A n \in 1..Len(cs) : f[n] = Obey(f[n - 1], cs[n])
  BY <1>2 DEF Chain
<1> DEFINE S == {n \in 0..Len(cs) : ~P(f[n])}
<1>4. ASSUME S # {} PROVE FALSE
  <2>1. S \subseteq Nat
    OBVIOUS
  <2>2. PICK m \in S : \A j \in S : m <= j
    BY <1>4, <2>1, LeastNumber
  <2>3. m \in 0..Len(cs) /\ ~P(f[m]) /\ m # 0
    BY <2>2, <1>3
  <2>4. m - 1 \in 0..Len(cs) /\ m - 1 \notin S /\ m \in 1..Len(cs) /\ cs[m] \in Quiet
    BY <2>2, <2>3, <1>1
  <2>5. P(f[m - 1])
    BY <2>4
  <2>6. f[m] = Obey(f[m - 1], cs[m])
    BY <1>3, <2>4
  <2> DEFINE g == f[m - 1]
  <2>7. g \in Radios /\ g.ptt = r.ptt /\ g.carrier = r.carrier /\ (r.ptt => g.mode = r.mode)
    BY <2>5
  <2> HIDE DEF g
  <2>8. P(Obey(g, cs[m]))
    BY <2>4, <2>7, ObeyQuiet
  <2>9. QED
    BY <2>3, <2>6, <2>8 DEF g
<1>5. P(f[Len(cs)])
  BY <1>1, <1>4
<1>6. QED
  BY <1>2, <1>5

\* A silent radio takes every command on frequencies, VFOs and the mode.
LEMMA SilentIsOff ==
    ASSUME NEW q, Silent(q)
    PROVE  ~OnAir(q)
  BY DEF Silent, OnAir

\* A radio with neither key nor carrier, with these settings.
Is(q, f, g, o, m, w) ==
    /\ q \in Radios /\ Silent(q)
    /\ q.rcv = f /\ q.xmt = g /\ q.vfom = o /\ q.mode = m /\ q.bw = w

\* movFreq: with neither key nor carrier, the frequencies of the VFO go where it is in use.
LEMMA MovFreqDoes ==
    ASSUME NEW q \in Radios, NEW v \in [Vfos -> Settings], NEW r \in Vfos, NEW t \in Vfos,
           NEW x \in Vfos
    PROVE  /\ MovFreq(v, r, t, x) \in Seq(Quiet)
           /\ Silent(q) => Is(Run(q, MovFreq(v, r, t, x)),
                           IF r = x THEN v[x].freq ELSE q.rcv,
                           IF t = x THEN v[x].freq ELSE q.xmt, "split", q.mode, q.bw)
<1> DEFINE a == IF r = x THEN <<Set("rcv", v[x].freq)>> ELSE <<>>
           b == IF t = x THEN <<Set("xmt", v[x].freq)>> ELSE <<>>
           c == <<Set("vfom", "split")>>
           q1 == [q EXCEPT !.rcv = IF r = x THEN v[x].freq ELSE q.rcv]
           q2 == [q1 EXCEPT !.xmt = IF t = x THEN v[x].freq ELSE q1.xmt]
           q3 == [q2 EXCEPT !.vfom = "split"]
<1>1. v[x].freq \in Freqs
  BY DEF Settings
<1>2. a \in Seq(Quiet) /\ b \in Seq(Quiet) /\ c \in Seq(Quiet) /\ a \o b \in Seq(Quiet)
  <2>1. Set("rcv", v[x].freq) \in Quiet /\ Set("xmt", v[x].freq) \in Quiet
        /\ Set("vfom", "split") \in Quiet
    BY <1>1, QuietCommands
  <2>2. QED
    BY <2>1
<1>3. MovFreq(v, r, t, x) = (a \o b) \o c
  BY DEF MovFreq
<1>4. MovFreq(v, r, t, x) \in Seq(Quiet)
  <2> HIDE DEF a, b, c
  <2>1. QED
    BY <1>2, <1>3
<1>5. ASSUME Silent(q)
      PROVE  Run(q, MovFreq(v, r, t, x)) = q3
  <2>1. q1 \in Radios /\ Silent(q1) /\ q2 \in Radios /\ Silent(q2)
    BY <1>1, <1>5 DEF Radios, Silent
  <2>2. Run(q, a) = q1
    <3>1. CASE r = x
      <4>1. Run(q, a) = Obey(q, Set("rcv", v[x].freq))
        BY <3>1, RunOne
      <4>2. QED
        BY <3>1, <4>1, <1>1, ObeyRcv
    <3>2. CASE r # x
      <4>1. Run(q, a) = q
        BY <3>2, RunOne
      <4>2. QED
        BY <3>2, <4>1 DEF Radios
    <3>3. QED
      BY <3>1, <3>2
  <2>3. Run(q1, b) = q2
    <3> HIDE DEF q1
    <3>1. CASE t = x
      <4>1. Run(q1, b) = Obey(q1, Set("xmt", v[x].freq))
        BY <3>1, RunOne
      <4>2. QED
        BY <3>1, <4>1, <1>1, <2>1, SilentIsOff, ObeyXmt
    <3>2. CASE t # x
      <4>1. Run(q1, b) = q1
        BY <3>2, RunOne
      <4>2. QED
        BY <3>2, <4>1, <2>1 DEF Radios
    <3>3. QED
      BY <3>1, <3>2
  <2>4. Run(q2, c) = q3
    <3> HIDE DEF q2
    <3>1. Run(q2, c) = Obey(q2, Set("vfom", "split"))
      BY RunOne
    <3>2. QED
      BY <3>1, <2>1, SilentIsOff, ObeyVfom
  <2>5. Run(q, (a \o b) \o c) = Run(Run(Run(q, a), b), c)
    <3> HIDE DEF a, b, c
    <3>1. Run(q, a \o b) = Run(Run(q, a), b)
      BY <1>2, RunConcat
    <3> DEFINE d == a \o b
    <3>2. d \in Seq(Quiet) /\ c \in Seq(Quiet)
      BY <1>2
    <3> HIDE DEF d
    <3>3. Run(q, d \o c) = Run(Run(q, d), c)
      BY <3>2, RunConcat
    <3>4. QED
      BY <3>1, <3>3 DEF d
  <2> HIDE DEF a, b, c, q1, q2, q3
  <2>6. QED
    BY <1>3, <2>2, <2>3, <2>4, <2>5
<1>6. Silent(q) => Is(q3, IF r = x THEN v[x].freq ELSE q.rcv,
                          IF t = x THEN v[x].freq ELSE q.xmt, "split", q.mode, q.bw)
  BY <1>1 DEF Radios, Silent, Is
<1>7. QED
  BY <1>4, <1>5, <1>6

\* movFreq and movFreqB: both frequencies in use.
LEMMA MovBothDoes ==
    ASSUME NEW q \in Radios, NEW v \in [Vfos -> Settings], NEW r \in Vfos, NEW t \in Vfos
    PROVE  /\ MovBoth(v, r, t) \in Seq(Quiet)
           /\ Silent(q) => Is(Run(q, MovBoth(v, r, t)), v[r].freq, v[t].freq, "split", q.mode, q.bw)
<1> DEFINE a == MovFreq(v, r, t, "A")
           b == MovFreq(v, r, t, "B")
           qa == Run(q, a)
<1>1. "A" \in Vfos /\ "B" \in Vfos /\ (r = "A" \/ r = "B") /\ (t = "A" \/ t = "B")
  BY DEF Vfos
<1>2. a \in Seq(Quiet) /\ b \in Seq(Quiet) /\ MovBoth(v, r, t) = a \o b
  BY <1>1, MovFreqDoes DEF MovBoth
<1>3. MovBoth(v, r, t) \in Seq(Quiet) /\ Run(q, MovBoth(v, r, t)) = Run(qa, b)
  <2> HIDE DEF a, b
  <2>1. QED
    BY <1>2, RunConcat
<1>4. ASSUME Silent(q)
      PROVE  Is(Run(q, MovBoth(v, r, t)), v[r].freq, v[t].freq, "split", q.mode, q.bw)
  <2>1. Is(qa, IF r = "A" THEN v["A"].freq ELSE q.rcv,
               IF t = "A" THEN v["A"].freq ELSE q.xmt, "split", q.mode, q.bw)
    BY <1>1, <1>4, MovFreqDoes
  <2>2. qa \in Radios /\ Silent(qa)
    BY <2>1 DEF Is
  <2> HIDE DEF qa
  <2>3. Is(Run(qa, b), IF r = "B" THEN v["B"].freq ELSE qa.rcv,
                       IF t = "B" THEN v["B"].freq ELSE qa.xmt, "split", qa.mode, qa.bw)
    BY <1>1, <2>2, MovFreqDoes
  <2>4. QED
    BY <1>1, <1>3, <2>1, <2>3 DEF Is
<1>5. QED
  BY <1>3, <1>4

\* The commands of a pairing, one part after the other.
LEMMA PairIsConcat ==
    ASSUME NEW S, NEW a \in S, NEW b \in S
    PROVE  <<a, b>> = <<a>> \o <<b>>
<1> DEFINE s == <<a, b>>
           t == <<a>> \o <<b>>
<1>1. s \in Seq(S) /\ Len(s) = 2 /\ s[1] = a /\ s[2] = b
  OBVIOUS
<1>2. t \in Seq(S) /\ Len(t) = 2 /\ t[1] = a /\ t[2] = b
  OBVIOUS
<1> HIDE DEF s, t
<1>3. \A i \in 1..Len(s) : s[i] = t[i]
  BY <1>1, <1>2
<1>4. s = t
  BY <1>1, <1>2, <1>3, SeqEqual
<1>5. QED
  BY <1>4 DEF s, t

\* setXcvrMode and setXcvrBW: no bandwidth in AM and FM.
LEMMA SetModeBWDoes ==
    ASSUME NEW q \in Radios, NEW s \in Settings
    PROVE  /\ SetModeBW(s) \in Seq(Quiet)
           /\ Silent(q) => Is(Run(q, SetModeBW(s)), q.rcv, q.xmt, q.vfom, s.imode,
                           IF s.imode \in {"AM", "FM"} THEN q.bw ELSE s.iBW)
<1> DEFINE a == Set("mode", s.imode)
           b == Set("bw", s.iBW)
           qa == Run(q, <<a>>)
<1>1. a \in Quiet /\ b \in Quiet /\ s.imode \in Modes /\ s.iBW \in Widths
  BY QuietCommands DEF Settings
<1>2. <<a>> \in Seq(Quiet) /\ <<b>> \in Seq(Quiet) /\ SetModeBW(s) = <<a>> \o <<b>>
  <2>1. SetModeBW(s) = <<a, b>>
    BY DEF SetModeBW
  <2> HIDE DEF a, b
  <2>2. <<a, b>> = <<a>> \o <<b>>
    BY <1>1, PairIsConcat
  <2>3. <<a>> \in Seq(Quiet) /\ <<b>> \in Seq(Quiet)
    BY <1>1
  <2>4. QED
    BY Zenon, <2>1, <2>2, <2>3
<1>3. SetModeBW(s) \in Seq(Quiet) /\ Run(q, SetModeBW(s)) = Run(qa, <<b>>)
  <2> DEFINE sa == <<a>>
             sb == <<b>>
  <2>1. sa \in Seq(Quiet) /\ sb \in Seq(Quiet) /\ SetModeBW(s) = sa \o sb
    BY <1>2
  <2> HIDE DEF sa, sb
  <2>2. SetModeBW(s) \in Seq(Quiet) /\ Run(q, SetModeBW(s)) = Run(Run(q, sa), sb)
    BY <2>1, RunConcat
  <2>3. QED
    BY <2>2 DEF sa, sb
<1>4. ASSUME Silent(q)
      PROVE  Is(Run(q, SetModeBW(s)), q.rcv, q.xmt, q.vfom, s.imode,
                IF s.imode \in {"AM", "FM"} THEN q.bw ELSE s.iBW)
  <2>1. qa = [q EXCEPT !.mode = s.imode]
    <3>1. qa = Obey(q, Set("mode", s.imode))
      BY RunOne
    <3>2. QED
      BY <1>1, <1>4, <3>1, SilentIsOff, ObeyMode
  <2>2. qa \in Radios /\ Silent(qa)
    BY <1>1, <1>4, <2>1 DEF Radios, Silent
  <2> HIDE DEF qa
  <2>3. Run(qa, <<b>>) = IF qa.mode \in {"AM", "FM"} THEN qa ELSE [qa EXCEPT !.bw = s.iBW]
    <3>1. Run(qa, <<b>>) = Obey(qa, Set("bw", s.iBW))
      BY RunOne
    <3>2. QED
      BY <1>1, <2>2, <3>1, ObeyBW
  <2> DEFINE z == Run(qa, <<b>>)
  <2>4. Is(qa, q.rcv, q.xmt, q.vfom, s.imode, q.bw)
    BY <1>4, <2>1, <2>2 DEF Radios, Is
  <2>5. Is(z, q.rcv, q.xmt, q.vfom, s.imode, IF s.imode \in {"AM", "FM"} THEN q.bw ELSE s.iBW)
    <3>1. CASE qa.mode \in {"AM", "FM"}
      BY <2>3, <2>4, <3>1 DEF Is
    <3>2. CASE qa.mode \notin {"AM", "FM"}
      BY <1>1, <2>2, <2>3, <2>4, <3>2 DEF Radios, Silent, Is
    <3>3. QED
      BY <3>1, <3>2
  <2> HIDE DEF z
  <2>6. QED
    BY <1>3, <2>5 DEF z
<1>5. QED
  BY <1>3, <1>4

\* The radio works as VFO r, for receiving, and VFO t say.
Works(q, v, r, t) ==
    /\ q.rcv = v[r].freq
    /\ q.xmt = v[t].freq
    /\ q.vfom = "split"
    /\ q.mode = v[t].imode
    /\ q.mode \notin {"AM", "FM"} => q.bw = v[t].iBW

\* cbRxA and the others: with neither key nor carrier, the radio works as the pair says, whatever it did.
LEMMA UsePairDoes ==
    ASSUME NEW q \in Radios, NEW v \in [Vfos -> Settings], NEW r \in Vfos, NEW t \in Vfos
    PROVE  /\ UsePair(v, r, t) \in Seq(Quiet)
           /\ Silent(q) => Works(Run(q, UsePair(v, r, t)), v, r, t)
<1> DEFINE a == SetModeBW(v[t])
           b == MovBoth(v, r, t)
           qa == Run(q, a)
<1>1. v[t] \in Settings /\ v[t].freq \in Freqs /\ v[r].freq \in Freqs
      /\ v[t].imode \in Modes /\ v[t].iBW \in Widths
  BY DEF Settings
<1>2. a \in Seq(Quiet) /\ b \in Seq(Quiet) /\ UsePair(v, r, t) = a \o b
  BY <1>1, SetModeBWDoes, MovBothDoes DEF UsePair
<1>3. UsePair(v, r, t) \in Seq(Quiet) /\ Run(q, UsePair(v, r, t)) = Run(qa, b)
  <2> HIDE DEF a, b
  <2>1. QED
    BY <1>2, RunConcat
<1>4. ASSUME Silent(q)
      PROVE  Works(Run(q, UsePair(v, r, t)), v, r, t)
  <2>1. Is(qa, q.rcv, q.xmt, q.vfom, v[t].imode, IF v[t].imode \in {"AM", "FM"} THEN q.bw ELSE v[t].iBW)
    BY <1>1, <1>4, SetModeBWDoes
  <2>2. qa \in Radios /\ Silent(qa)
    BY <2>1 DEF Is
  <2> HIDE DEF qa
  <2>3. Is(Run(qa, b), v[r].freq, v[t].freq, "split", qa.mode, qa.bw)
    BY <2>2, MovBothDoes
  <2>4. QED
    BY <1>3, <2>1, <2>3 DEF Is, Works
<1>5. QED
  BY <1>3, <1>4

-----------------------------------------------------------------------------
(* The inductive invariant.                                                *)

\* The displays show the frequencies of the VFOs, whatever the radio does.
Displayed == disp = [x \in Vfos |-> vfo[x].freq]

\* A keyed radio is not in CW, where it ignores push to talk: it can be unkeyed.  A tune carrier
\* is shown by its button, unless the radio refused to put it out.
KeyedInv ==
    /\ radio.ptt => btn # {} /\ radio.mode # "CW"
    /\ radio.carrier => "Carrier" \in btn \/ stuck

IInv == TypeOK /\ Displayed /\ KeyedInv

\* The commands of the inhibit table.
LEMMA InhibitedFields ==
    ASSUME NEW cs, Sends(cs)
    PROVE  inhibited' \subseteq {"mode", "vfom", "xmt", "bw", "ptt", "carrier"}
  BY DEF Sends, IsInhibited

\* The part of the panel a callback may change without a word to the radio.
PanelOK ==
    /\ vfo \in [Vfos -> Settings]
    /\ rx \in Vfos /\ tx \in Vfos
    /\ op \in [imode : Modes, iBW : Widths]
    /\ active \subseteq {"PTT", "Carrier", "BW", "Freq"}
    /\ scanning \in BOOLEAN /\ ptt_on \in BOOLEAN
    /\ told \in Settings
    /\ calls \in 0..MaxCalls

\* The invariant, and the parts the callbacks leave alone.
LEMMA InvSplits ==
    IInv <=> /\ PanelOK
             /\ Displayed
             /\ KeyedInv
             /\ btn \subseteq {"PTT", "Carrier"}
             /\ stuck \in BOOLEAN
             /\ radio \in Radios
             /\ inhibited \subseteq {"mode", "vfom", "xmt", "bw", "ptt", "carrier"}
<1>1. PanelOK /\ Displayed => disp \in [Vfos -> Freqs]
  BY DEF PanelOK, Displayed, Settings
<1>2. QED
  BY <1>1 DEF IInv, TypeOK, PanelOK, Radios

\* Callbacks that do not key the transmitter.
LEMMA QuietCallback ==
    ASSUME IInv, NEW cs \in Seq(Quiet), Sends(cs), btn' = btn, stuck' = stuck, PanelOK', Displayed'
    PROVE  IInv'
<1>1. radio \in Radios /\ btn \subseteq {"PTT", "Carrier"} /\ stuck \in BOOLEAN /\ KeyedInv
  BY InvSplits
<1>2. radio' = Run(radio, cs)
  BY SendsRuns
<1>3. /\ radio' \in Radios /\ radio'.ptt = radio.ptt /\ radio'.carrier = radio.carrier
      /\ radio.ptt => radio'.mode = radio.mode
  BY <1>1, <1>2, QuietRun
<1>4. KeyedInv'
  BY <1>1, <1>3 DEF KeyedInv
<1>5. inhibited' \subseteq {"mode", "vfom", "xmt", "bw", "ptt", "carrier"}
  BY InhibitedFields
<1>6. btn' \subseteq {"PTT", "Carrier"}
  BY <1>1
<1>7. disp' \in [Vfos -> Freqs]
  BY DEF PanelOK, Displayed, Settings
<1>8. TypeOK'
  BY <1>1, <1>3, <1>5, <1>6, <1>7 DEF TypeOK, PanelOK, Radios
<1>9. QED
  BY <1>4, <1>8 DEF IInv

\* A frequency set on one VFO, by its display or by a click in the spectrum.
LEMMA TuneKeeps ==
    ASSUME IInv, calls' \in 0..MaxCalls, stuck' = stuck, NEW x \in Vfos, NEW f \in Freqs,
           Tune(x, f) \/ (x = rx /\ ClickSpectrum(f))
    PROVE  IInv'
<1> DEFINE v == [vfo EXCEPT ![x].freq = f]
<1>1. PanelOK /\ Displayed
  BY InvSplits
<1>2. /\ vfo' = v /\ disp' = [disp EXCEPT ![x] = f]
      /\ Sends(MovFreq(v, rx, tx, x))
      /\ told' = (IF rx = x THEN [told EXCEPT !.freq = v[x].freq] ELSE told)
      /\ rx' = rx /\ tx' = tx /\ op' = op /\ btn' = btn /\ active' = active
      /\ scanning' = scanning /\ ptt_on' = ptt_on
  BY DEF Tune, ClickSpectrum, TellFreq
<1>3. v \in [Vfos -> Settings] /\ v[x].freq = f /\ \A y \in Vfos : y # x => v[y] = vfo[y]
  BY <1>1 DEF PanelOK, Settings
<1> HIDE DEF v
<1>4. MovFreq(v, rx, tx, x) \in Seq(Quiet)
  <2>1. radio \in Radios
    BY InvSplits
  <2>2. QED
    BY <1>1, <1>3, <2>1, MovFreqDoes DEF PanelOK
<1>5. told' \in Settings
  BY <1>1, <1>2, <1>3 DEF PanelOK, Settings
<1>6. PanelOK'
  BY <1>1, <1>2, <1>3, <1>5 DEF PanelOK
<1>7. Displayed'
  BY <1>1, <1>2, <1>3 DEF Displayed
<1>8. QED
  BY <1>2, <1>4, <1>6, <1>7, QuietCallback

\* Both frequencies are sent again.
LEMMA CorrectKeeps ==
    ASSUME IInv, calls' \in 0..MaxCalls, stuck' = stuck, Correct
    PROVE  IInv'
<1>1. PanelOK /\ Displayed /\ radio \in Radios
  BY InvSplits
<1>2. MovBoth(vfo, rx, tx) \in Seq(Quiet)
  BY <1>1, MovBothDoes DEF PanelOK
<1>3. /\ Sends(MovBoth(vfo, rx, tx))
      /\ told' = [told EXCEPT !.freq = vfo[rx].freq]
      /\ vfo' = vfo /\ rx' = rx /\ tx' = tx /\ disp' = disp /\ op' = op /\ btn' = btn
      /\ active' = active /\ scanning' = scanning /\ ptt_on' = ptt_on
  BY DEF Correct, TellFreq, panel
<1>4. told' \in Settings
  BY <1>1, <1>3 DEF PanelOK, Settings
<1>5. PanelOK'
  BY <1>1, <1>3, <1>4 DEF PanelOK
<1>6. Displayed'
  BY <1>1, <1>3 DEF Displayed
<1>7. QED
  BY <1>2, <1>3, <1>5, <1>6, QuietCallback

\* The pair buttons, the memories and the end of the scan: v are the VFOs they use.
LEMMA PairWithKeeps ==
    ASSUME IInv, calls' \in 0..MaxCalls, stuck' = stuck, NEW v \in [Vfos -> Settings],
           NEW r \in Vfos, NEW t \in Vfos,
           PairWith(v, r, t), vfo' = v, Displayed', btn' = btn, active' = active,
           scanning' \in BOOLEAN, ptt_on' = ptt_on
    PROVE  IInv' /\ (Silent(radio) => Agree')
<1> DEFINE a == UsePair(v, r, tx)
           b == UsePair(v, r, t)
<1>1. PanelOK /\ Displayed /\ radio \in Radios
  BY InvSplits
<1>2. a \in Seq(Quiet) /\ b \in Seq(Quiet)
  BY <1>1, UsePairDoes DEF PanelOK
<1>3. /\ rx' = r /\ tx' = t
      /\ op' = [imode |-> v[t].imode, iBW |-> v[t].iBW]
      /\ Sends(a \o b)
      /\ told' = [freq |-> v[r].freq, imode |-> v[t].imode, iBW |-> v[t].iBW]
  BY DEF PairWith, Shows
<1>4. PanelOK'
  BY <1>1, <1>3 DEF PanelOK, Settings
<1>5. IInv'
  <2> HIDE DEF a, b
  <2>1. a \o b \in Seq(Quiet)
    BY <1>2
  <2>2. QED
    BY <1>3, <1>4, <2>1, QuietCallback
<1>6. ASSUME Silent(radio) PROVE Agree'
  <2> DEFINE q == Run(radio, a)
  <2>1. q \in Radios /\ Silent(q)
    BY <1>1, <1>2, <1>6, QuietRun DEF Silent
  <2>2. radio' = Run(q, b)
    <3> HIDE DEF a, b
    <3>1. radio' = Run(radio, a \o b)
      BY <1>3, SendsRuns
    <3>2. QED
      BY <1>2, <3>1, RunConcat
  <2> HIDE DEF q
  <2>3. Works(radio', v, r, t)
    BY <2>1, <2>2, UsePairDoes
  <2>4. QED
    BY <1>3, <2>3 DEF Agree, Works, Displayed
<1>7. QED
  BY <1>5, <1>6

\* cbPairedVFOs.
LEMMA PairKeeps ==
    ASSUME IInv, calls' \in 0..MaxCalls, stuck' = stuck, NEW r \in Vfos, NEW t \in Vfos, Pair(r, t)
    PROVE  IInv' /\ (Silent(radio) => Agree')
<1>1. PanelOK /\ Displayed
  BY InvSplits
<1>2. /\ PairWith(vfo, r, t)
      /\ vfo' = vfo /\ disp' = disp /\ btn' = btn /\ active' = active
      /\ scanning' = scanning /\ ptt_on' = ptt_on
  BY DEF Pair
<1>3. vfo \in [Vfos -> Settings] /\ scanning' \in BOOLEAN
  BY <1>1, <1>2 DEF PanelOK
<1>4. Displayed'
  BY <1>1, <1>2 DEF Displayed
<1>5. QED
  BY <1>2, <1>3, <1>4, PairWithKeeps

\* The end of a scan pairs the VFOs again.
LEMMA EndScanKeeps ==
    ASSUME IInv, calls' \in 0..MaxCalls, stuck' = stuck, EndScan
    PROVE  IInv' /\ (Silent(radio) => Agree')
<1>1. PanelOK /\ Displayed
  BY InvSplits
<1>2. /\ PairWith(vfo, rx, tx)
      /\ vfo' = vfo /\ disp' = disp /\ btn' = btn /\ active' = active
      /\ scanning' = FALSE /\ ptt_on' = ptt_on
  BY DEF EndScan
<1>3. vfo \in [Vfos -> Settings] /\ rx \in Vfos /\ tx \in Vfos /\ scanning' \in BOOLEAN
  BY <1>1, <1>2 DEF PanelOK
<1>4. Displayed'
  BY <1>1, <1>2 DEF Displayed
<1>5. QED
  BY <1>2, <1>3, <1>4, PairWithKeeps

\* A memory sets the receive VFO, which transmits from then on.
LEMMA SelectMemoryKeeps ==
    ASSUME IInv, calls' \in 0..MaxCalls, stuck' = stuck, NEW s \in Presets, SelectMemory(s)
    PROVE  IInv' /\ (Silent(radio) => Agree')
<1> DEFINE v == [vfo EXCEPT ![rx] = s]
<1>1. PanelOK /\ Displayed
  BY InvSplits
<1>2. /\ vfo' = v /\ disp' = [disp EXCEPT ![rx] = s.freq]
      /\ PairWith(vfo', rx, rx)
      /\ btn' = btn /\ active' = active /\ scanning' = scanning /\ ptt_on' = ptt_on
  BY DEF SelectMemory
<1>3. v \in [Vfos -> Settings] /\ rx \in Vfos /\ scanning' \in BOOLEAN
  BY <1>1, <1>2, PresetsAssumption DEF PanelOK
<1>4. Displayed'
  BY <1>1, <1>2 DEF Displayed, PanelOK
<1>5. PairWith(v, rx, rx)
  BY <1>2
<1> HIDE DEF v
<1>6. QED
  BY <1>2, <1>3, <1>4, <1>5, PairWithKeeps

\* cbA2B and cbB2A.
LEMMA CopyKeeps ==
    ASSUME IInv, calls' \in 0..MaxCalls, stuck' = stuck, NEW x \in Vfos, NEW y \in Vfos, Copy(x, y)
    PROVE  IInv'
<1> DEFINE v == [vfo EXCEPT ![y] = vfo[x]]
<1>1. PanelOK /\ Displayed /\ radio \in Radios
  BY InvSplits
<1>2. /\ vfo' = v /\ disp' = [disp EXCEPT ![y] = vfo[x].freq]
      /\ Sends(MovBoth(v, rx, tx))
      /\ told' = [told EXCEPT !.freq = v[rx].freq]
      /\ rx' = rx /\ tx' = tx /\ op' = op /\ btn' = btn /\ active' = active
      /\ scanning' = scanning /\ ptt_on' = ptt_on
  BY DEF Copy, TellFreq
<1>3. v \in [Vfos -> Settings]
  BY <1>1 DEF PanelOK
<1>4. Displayed'
  BY <1>1, <1>2 DEF Displayed, PanelOK
<1> HIDE DEF v
<1>5. MovBoth(v, rx, tx) \in Seq(Quiet)
  BY <1>1, <1>3, MovBothDoes DEF PanelOK
<1>6. told' \in Settings
  BY <1>1, <1>2, <1>3 DEF PanelOK, Settings
<1>7. PanelOK'
  BY <1>1, <1>2, <1>3, <1>6 DEF PanelOK
<1>8. QED
  BY <1>2, <1>4, <1>5, <1>7, QuietCallback

\* Every mode has a bandwidth to start with.
LEMMA DefaultBWOK ==
    ASSUME NEW m
    PROVE  DefaultBW(m) \in Widths
  BY PanelAssumption DEF DefaultBW

\* setBW.
LEMMA SelectBWKeeps ==
    ASSUME IInv, calls' \in 0..MaxCalls, stuck' = stuck, NEW w \in Widths, SelectBW(w)
    PROVE  IInv'
<1> DEFINE v == [vfo EXCEPT ![tx].iBW = w]
           c == Set("bw", w)
<1>1. PanelOK /\ Displayed
  BY InvSplits
<1>2. /\ op' = [op EXCEPT !.iBW = w] /\ vfo' = v
      /\ Sends(<<c>>)
      /\ told' = [told EXCEPT !.iBW = w]
      /\ rx' = rx /\ tx' = tx /\ disp' = disp /\ btn' = btn /\ active' = active
      /\ scanning' = scanning /\ ptt_on' = ptt_on
  BY DEF SelectBW
<1>3. v \in [Vfos -> Settings] /\ \A x \in Vfos : v[x].freq = vfo[x].freq
  BY <1>1 DEF PanelOK, Settings
<1> HIDE DEF v
<1>4. Displayed'
  BY <1>1, <1>2, <1>3 DEF Displayed
<1>5. told' \in Settings /\ op' \in [imode : Modes, iBW : Widths]
  BY <1>1, <1>2 DEF PanelOK, Settings
<1>6. PanelOK'
  BY <1>1, <1>2, <1>3, <1>5 DEF PanelOK
<1>7. <<c>> \in Seq(Quiet)
  <2>1. c \in Quiet
    BY QuietCommands
  <2>2. QED
    BY <2>1
<1>8. QED
  BY <1>2, <1>4, <1>6, <1>7, QuietCallback

\* A mode chosen on the panel, new or not: the transmit VFO gets the settings s.
LEMMA ModeKeeps ==
    ASSUME IInv, calls' \in 0..MaxCalls, stuck' = stuck, NEW s \in Settings, s.freq = vfo[tx].freq,
           vfo' = [vfo EXCEPT ![tx] = s], Shows(s), Sends(SetModeBW(s)),
           active' \subseteq {"PTT", "Carrier", "BW", "Freq"}, told' \in Settings,
           rx' = rx, tx' = tx, disp' = disp, btn' = btn, scanning' = scanning, ptt_on' = ptt_on
    PROVE  IInv'
<1>1. PanelOK /\ Displayed /\ radio \in Radios
  BY InvSplits
<1>2. vfo' \in [Vfos -> Settings] /\ \A x \in Vfos : vfo'[x].freq = vfo[x].freq
  BY <1>1 DEF PanelOK
<1>3. Displayed'
  BY <1>1, <1>2 DEF Displayed
<1>4. op' \in [imode : Modes, iBW : Widths]
  BY DEF Shows, Settings
<1>5. PanelOK'
  BY <1>1, <1>2, <1>4 DEF PanelOK
<1>6. SetModeBW(s) \in Seq(Quiet)
  BY <1>1, SetModeBWDoes
<1>7. QED
  BY <1>3, <1>5, <1>6, QuietCallback

\* setMode for a mode the VFO does not have.
LEMMA NewModeKeeps ==
    ASSUME IInv, calls' \in 0..MaxCalls, stuck' = stuck, NEW m \in Modes, SelectNewMode(m)
    PROVE  IInv'
<1> DEFINE s == [vfo[tx] EXCEPT !.imode = m, !.iBW = DefaultBW(m)]
<1>1. PanelOK
  BY InvSplits
<1>2. s \in Settings /\ s.freq = vfo[tx].freq
  BY <1>1, DefaultBWOK DEF PanelOK, Settings
<1>3. /\ vfo' = [vfo EXCEPT ![tx] = s] /\ Shows(s)
      /\ active' = setInhibits(m)
      /\ Sends(SetModeBW(s))
      /\ told' = [told EXCEPT !.imode = m, !.iBW = s.iBW]
      /\ rx' = rx /\ tx' = tx /\ disp' = disp /\ btn' = btn
      /\ scanning' = scanning /\ ptt_on' = ptt_on
  BY DEF SelectNewMode
<1> HIDE DEF s
<1>4. told' \in Settings
  BY <1>1, <1>2, <1>3 DEF PanelOK, Settings
<1>5. active' \subseteq {"PTT", "Carrier", "BW", "Freq"}
  BY <1>1, <1>3 DEF PanelOK, setInhibits
<1>6. QED
  BY <1>2, <1>3, <1>4, <1>5, ModeKeeps

\* setMode for the mode it has.
LEMMA SameModeKeeps ==
    ASSUME IInv, calls' \in 0..MaxCalls, stuck' = stuck, NEW m \in Modes, SelectSameMode(m)
    PROVE  IInv'
<1> DEFINE s == [vfo[tx] EXCEPT !.iBW = op.iBW]
<1>1. PanelOK
  BY InvSplits
<1>2. s \in Settings /\ s.freq = vfo[tx].freq
  BY <1>1 DEF PanelOK, Settings
<1>3. /\ vfo' = [vfo EXCEPT ![tx] = s] /\ Shows(s)
      /\ Sends(SetModeBW(s))
      /\ told' = [told EXCEPT !.iBW = s.iBW]
      /\ rx' = rx /\ tx' = tx /\ disp' = disp /\ btn' = btn /\ active' = active
      /\ scanning' = scanning /\ ptt_on' = ptt_on
  BY DEF SelectSameMode
<1> HIDE DEF s
<1>4. told' \in Settings
  BY <1>1, <1>2, <1>3 DEF PanelOK, Settings
<1>5. active' \subseteq {"PTT", "Carrier", "BW", "Freq"}
  BY <1>1, <1>3 DEF PanelOK
<1>6. QED
  BY <1>2, <1>3, <1>4, <1>5, ModeKeeps

\* Keying: the radio obeys unless it is in CW, where it is not keyed.
LEMMA KeyingKeeps ==
    ASSUME IInv, NEW on \in BOOLEAN, NEW q \in Radios,
           q = radio \/ (\E b \in BOOLEAN : q = [radio EXCEPT !.carrier = b]),
           radio' = Obey(q, Set("ptt", on)), on => btn' # {},
           q.carrier => "Carrier" \in btn' \/ stuck'
    PROVE  /\ radio' \in Radios
           /\ KeyedInv'
           /\ \A f \in {"rcv", "xmt", "vfom", "mode", "bw"} : radio'[f] = radio[f]
<1>1. radio \in Radios /\ KeyedInv
  BY InvSplits
<1>2. /\ radio' \in Radios
      /\ radio' = IF q.mode = "CW" THEN q ELSE [q EXCEPT !.ptt = on]
  BY ObeyPtt
<1>3. /\ q.rcv = radio.rcv /\ q.xmt = radio.xmt /\ q.vfom = radio.vfom
      /\ q.mode = radio.mode /\ q.bw = radio.bw /\ q.ptt = radio.ptt
  BY <1>1 DEF Radios
<1>4. /\ radio'.rcv = q.rcv /\ radio'.xmt = q.xmt /\ radio'.vfom = q.vfom
      /\ radio'.mode = q.mode /\ radio'.bw = q.bw /\ radio'.carrier = q.carrier
      /\ radio'.ptt = IF q.mode = "CW" THEN q.ptt ELSE on
  BY <1>2 DEF Radios
<1>5. KeyedInv'
  BY <1>1, <1>3, <1>4 DEF KeyedInv
<1>6. QED
  BY <1>2, <1>3, <1>4, <1>5

\* Callbacks that key the transmitter or unkey it.
LEMMA KeyingCallback ==
    ASSUME IInv, PanelOK', Displayed', btn' \subseteq {"PTT", "Carrier"}, stuck' \in BOOLEAN,
           radio' \in Radios, KeyedInv', NEW cs, Sends(cs)
    PROVE  IInv'
<1>1. inhibited' \subseteq {"mode", "vfom", "xmt", "bw", "ptt", "carrier"}
  BY InhibitedFields
<1>2. disp' \in [Vfos -> Freqs]
  BY DEF PanelOK, Displayed, Settings
<1>3. TypeOK'
  BY <1>1, <1>2 DEF TypeOK, PanelOK, Radios
<1>4. QED
  BY <1>3 DEF IInv

\* setTx, by the button or by fldigi.
LEMMA setTxKeeps ==
    ASSUME IInv, calls' \in 0..MaxCalls, stuck' = stuck, NEW on \in BOOLEAN, setTx(on),
           vfo' = vfo, rx' = rx, tx' = tx, disp' = disp, op' = op, scanning' = scanning,
           ptt_on' \in BOOLEAN, told' = told
    PROVE  IInv' /\ \A f \in {"rcv", "xmt", "vfom", "mode", "bw"} : radio'[f] = radio[f]
<1> DEFINE c == Set("ptt", on)
<1>1. /\ PanelOK /\ Displayed /\ KeyedInv /\ radio \in Radios /\ btn \subseteq {"PTT", "Carrier"}
      /\ stuck \in BOOLEAN
  BY InvSplits
<1>2. /\ btn' = IF on THEN btn \cup {"PTT"} ELSE btn \ {"PTT"}
      /\ active' = IF on THEN active \ {"Freq", "Carrier"} ELSE active \cup {"Freq", "Carrier"}
      /\ Sends(<<c>>)
  BY DEF setTx
<1>3. radio' = Obey(radio, c)
  BY <1>2, SendsRuns, RunOne
<1>4. /\ radio' \in Radios /\ KeyedInv'
      /\ \A f \in {"rcv", "xmt", "vfom", "mode", "bw"} : radio'[f] = radio[f]
  <2>1. on => btn' # {}
    BY <1>2
  <2>2. radio.carrier => "Carrier" \in btn' \/ stuck'
    BY <1>1, <1>2 DEF KeyedInv
  <2>3. QED
    BY <1>1, <1>3, <2>1, <2>2, KeyingKeeps
<1>5. PanelOK'
  <2>1. active' \subseteq {"PTT", "Carrier", "BW", "Freq"}
    BY <1>1, <1>2 DEF PanelOK
  <2>2. QED
    BY <1>1, <2>1 DEF PanelOK
<1>6. Displayed' /\ btn' \subseteq {"PTT", "Carrier"}
  BY <1>1, <1>2 DEF Displayed
<1>7. IInv'
  BY <1>1, <1>2, <1>4, <1>5, <1>6, KeyingCallback
<1>8. QED
  BY <1>4, <1>7

\* The button PTT.
LEMMA PressPTTKeeps ==
    ASSUME IInv, calls' \in 0..MaxCalls, stuck' = stuck, PressPTT
    PROVE  IInv' /\ \A f \in {"rcv", "xmt", "vfom", "mode", "bw"} : radio'[f] = radio[f]
<1> DEFINE on == "PTT" \notin btn
<1>1. /\ setTx(on) /\ vfo' = vfo /\ rx' = rx /\ tx' = tx /\ disp' = disp /\ op' = op
      /\ scanning' = scanning /\ ptt_on' = ptt_on /\ told' = told
  BY DEF PressPTT
<1>2. ptt_on' \in BOOLEAN
  BY <1>1, InvSplits DEF PanelOK
<1>3. on \in BOOLEAN
  OBVIOUS
<1> HIDE DEF on
<1>4. QED
  BY <1>1, <1>2, <1>3, setTxKeeps

\* fldigi keys or unkeys the transmitter.
LEMMA FldigiPTTKeeps ==
    ASSUME IInv, calls' \in 0..MaxCalls, stuck' = stuck, FldigiPTT
    PROVE  IInv' /\ \A f \in {"rcv", "xmt", "vfom", "mode", "bw"} : radio'[f] = radio[f]
<1> DEFINE on == ~ptt_on
<1>1. /\ ptt_on' = on /\ setTx(ptt_on')
      /\ vfo' = vfo /\ rx' = rx /\ tx' = tx /\ disp' = disp /\ op' = op
      /\ scanning' = scanning /\ told' = told
  BY DEF FldigiPTT
<1>2. on \in BOOLEAN
  OBVIOUS
<1>3. setTx(on)
  BY <1>1 DEF setTx
<1> HIDE DEF on
<1>4. ptt_on' \in BOOLEAN
  BY <1>1, <1>2
<1>5. QED
  BY <1>1, <1>2, <1>3, <1>4, setTxKeeps

\* The first command is recorded if the radio refuses it.
LEMMA FirstRefused ==
    ASSUME NEW cs, Len(cs) \in Nat, 1 \in DOMAIN cs, Sends(cs), IsInhibited(radio, cs[1])
    PROVE  cs[1].field \in inhibited'
<1> DEFINE after == CHOOSE g : Steps(g, radio, cs, Len(cs))
           bad == {n \in DOMAIN cs : IsInhibited(after[n - 1], cs[n])}
<1>1. inhibited' = {cs[n].field : n \in bad}
  BY DEF Sends, Steps
<1>2. Steps(after, radio, cs, Len(cs))
  BY StepsExist
<1> HIDE DEF after
<1>3. after[0] = radio
  BY <1>2 DEF Steps
<1>4. 1 \in bad
  BY <1>3
<1> HIDE DEF bad
<1>5. QED
  BY <1>1, <1>4

\* The button that sends a carrier.
LEMMA PressCarrierKeeps ==
    ASSUME IInv, calls' \in 0..MaxCalls, PressCarrier
    PROVE  IInv' /\ \A f \in {"rcv", "xmt", "vfom", "mode", "bw"} : radio'[f] = radio[f]
<1> DEFINE on == "Carrier" \notin btn
           a == Set("carrier", on)
           b == Set("ptt", on)
           q == Obey(radio, a)
<1>1. /\ PanelOK /\ Displayed /\ KeyedInv /\ radio \in Radios
      /\ btn \subseteq {"PTT", "Carrier"}
  BY InvSplits
<1>2. /\ btn' = IF on THEN btn \cup {"Carrier"} ELSE btn \ {"Carrier"}
      /\ active' = IF on THEN active \ {"PTT"} ELSE active \cup {"PTT"}
      /\ Sends(<<a, b>>)
      /\ stuck' = (~on /\ radio.carrier /\ "carrier" \in inhibited')
      /\ vfo' = vfo /\ rx' = rx /\ tx' = tx /\ disp' = disp /\ op' = op
      /\ scanning' = scanning /\ ptt_on' = ptt_on /\ told' = told
  BY DEF PressCarrier
<1>3. on \in BOOLEAN
  OBVIOUS
<1>4. on => btn' # {}
  BY <1>2
<1>5. btn' \subseteq {"PTT", "Carrier"} /\ active' \subseteq {"PTT", "Carrier", "BW", "Freq"}
  BY <1>1, <1>2 DEF PanelOK
<1>6. on => "Carrier" \in btn'
  BY <1>2
<1> HIDE DEF on
<1>7. /\ q \in Radios
      /\ q = IF radio.mode \in {"AM", "FM"} THEN radio ELSE [radio EXCEPT !.carrier = on]
  BY <1>1, <1>3, ObeyCarrier
<1>8. q.carrier => "Carrier" \in btn' \/ stuck'
  <2>1. CASE on
    BY <1>6, <2>1
  <2>2. CASE ~on /\ radio.mode \in {"AM", "FM"} /\ radio.carrier
    <3> DEFINE cs == <<a, b>>
    <3>1. Len(cs) \in Nat /\ 1 \in DOMAIN cs /\ cs[1] = a /\ Sends(cs)
      BY <1>2
    <3>2. IsInhibited(radio, a) /\ a.field = "carrier"
      BY <2>2 DEF IsInhibited, Set
    <3> HIDE DEF cs, a
    <3>3. a.field \in inhibited'
      BY <3>1, <3>2, FirstRefused
    <3>4. QED
      BY <1>2, <2>2, <3>2, <3>3
  <2>3. CASE ~on /\ ~(radio.mode \in {"AM", "FM"} /\ radio.carrier)
    <3> HIDE DEF q
    <3>1. CASE radio.mode \in {"AM", "FM"}
      BY <1>7, <2>3, <3>1
    <3>2. CASE radio.mode \notin {"AM", "FM"}
      BY <1>1, <1>7, <2>3, <3>2 DEF Radios
    <3>3. QED
      BY <3>1, <3>2
  <2>4. QED
    BY <2>1, <2>2, <2>3
<1>9. radio' = Obey(q, b)
  <2> DEFINE S == {a, b}
             sa == <<a>>
             sb == <<b>>
  <2>1. <<a, b>> = sa \o sb
    <3> HIDE DEF a, b
    <3>1. a \in S /\ b \in S
      OBVIOUS
    <3> HIDE DEF S
    <3>2. QED
      BY <3>1, PairIsConcat
  <2>2. sa \in Seq(S) /\ sb \in Seq(S)
    <3> HIDE DEF a, b
    <3>1. QED
      OBVIOUS
  <2>3. Run(radio, sa) = Obey(radio, a)
    BY RunOne
  <2>4. Run(q, sb) = Obey(q, b)
    BY RunOne
  <2>5. q = Run(radio, sa)
    BY <2>3
  <2> HIDE DEF sa, sb, S, a, b, q
  <2>6. radio' = Run(radio, sa \o sb)
    BY <1>2, <2>1, SendsRuns
  <2>7. radio' = Run(Run(radio, sa), sb)
    BY <2>2, <2>6, RunConcat
  <2>8. QED
    BY <2>4, <2>5, <2>7
<1>10. /\ radio' \in Radios /\ KeyedInv'
      /\ \A f \in {"rcv", "xmt", "vfom", "mode", "bw"} : radio'[f] = radio[f]
  <2>1. q = radio \/ \E z \in BOOLEAN : q = [radio EXCEPT !.carrier = z]
    BY <1>3, <1>7
  <2> HIDE DEF q, a
  <2>2. QED
    BY <1>3, <1>4, <1>7, <1>8, <1>9, <2>1, KeyingKeeps
<1>11. stuck' \in BOOLEAN
  BY <1>2
<1>12. PanelOK' /\ Displayed'
  BY <1>1, <1>2, <1>5 DEF PanelOK, Displayed
<1>13. IInv'
  <2> DEFINE cs == <<a, b>>
  <2>1. Sends(cs)
    BY <1>2
  <2> HIDE DEF cs
  <2>2. QED
    BY <2>1, <1>5, <1>10, <1>11, <1>12, KeyingCallback
<1>14. QED
  BY <1>10, <1>13

\* Settings from fldigi: VFO A, and the radio, whichever VFO it uses.
LEMMA FldigiSetsKeeps ==
    ASSUME IInv, calls' \in 0..MaxCalls, stuck' = stuck, NEW s \in Presets, FldigiSets(s)
    PROVE  IInv' /\ (Silent(radio) /\ radio.vfom = "split" /\ rx = "A" /\ tx = "A" => Agree')
<1> DEFINE v == [vfo EXCEPT !["A"] = s]
           a == Set("rcv", s.freq)
           b == Set("xmt", s.freq)
           c == <<a, b>>
           d == SetModeBW(s)
<1>1. PanelOK /\ Displayed /\ radio \in Radios
  BY InvSplits
<1>2. /\ vfo' = v /\ disp' = [disp EXCEPT !["A"] = s.freq]
      /\ op' = [imode |-> s.imode, iBW |-> s.iBW]
      /\ Sends(c \o d)
      /\ told' = s
      /\ rx' = rx /\ tx' = tx /\ btn' = btn /\ active' = active
      /\ scanning' = scanning /\ ptt_on' = ptt_on
  BY DEF FldigiSets, Shows
<1>3. /\ s \in Settings /\ s.freq \in Freqs /\ s.imode \in Modes /\ s.iBW \in Widths
      /\ s = [freq |-> s.freq, imode |-> s.imode, iBW |-> s.iBW]
  BY PresetsAssumption DEF Settings
<1>4. "A" \in Vfos /\ v \in [Vfos -> Settings]
  BY <1>1, <1>3 DEF PanelOK, Vfos
<1>5. Displayed'
  BY <1>1, <1>2, <1>4 DEF Displayed, PanelOK
<1>6. v["A"] = s
  BY <1>1, <1>4 DEF PanelOK
<1> HIDE DEF v
<1>7. PanelOK'
  BY <1>1, <1>2, <1>3, <1>4 DEF PanelOK
<1>8. a \in Quiet /\ b \in Quiet /\ d \in Seq(Quiet)
  BY <1>1, <1>3, QuietCommands, SetModeBWDoes
<1>9. c = <<a>> \o <<b>> /\ <<a>> \in Seq(Quiet) /\ <<b>> \in Seq(Quiet)
  <2> HIDE DEF a, b
  <2>1. QED
    BY <1>8, PairIsConcat
<1>10. c \in Seq(Quiet)
  <2> HIDE DEF a, b
  <2>1. QED
    BY <1>8
<1>11. IInv'
  <2> HIDE DEF c, d
  <2>1. c \o d \in Seq(Quiet)
    BY <1>8, <1>10
  <2>2. QED
    BY <1>2, <1>5, <1>7, <2>1, QuietCallback
<1>12. ASSUME Silent(radio), radio.vfom = "split", rx = "A", tx = "A"
       PROVE  Agree'
  <2> DEFINE q == Run(radio, c)
  <2>1. Is(q, s.freq, s.freq, "split", radio.mode, radio.bw)
    <3> DEFINE sa == <<a>>
               sb == <<b>>
               qa == [radio EXCEPT !.rcv = s.freq]
    <3>1. Run(radio, sa) = qa /\ qa \in Radios
      <4>1. Run(radio, sa) = Obey(radio, a)
        BY RunOne
      <4>2. QED
        BY <1>1, <1>3, <4>1, ObeyRcv
    <3>2. /\ qa.rcv = s.freq /\ qa.vfom = "split" /\ qa.mode = radio.mode /\ qa.bw = radio.bw
          /\ Silent(qa)
      BY <1>1, <1>12 DEF Radios, Silent
    <3> HIDE DEF qa
    <3>3. Run(qa, sb) = [qa EXCEPT !.xmt = s.freq]
      <4>1. Run(qa, sb) = Obey(qa, b)
        BY RunOne
      <4>2. QED
        BY <1>3, <3>1, <3>2, <4>1, SilentIsOff, ObeyXmt
    <3>4. c = sa \o sb /\ sa \in Seq(Quiet) /\ sb \in Seq(Quiet)
      BY <1>9
    <3> HIDE DEF sa, sb, c
    <3>5. q = Run(qa, sb)
      BY <3>1, <3>4, RunConcat
    <3> HIDE DEF q
    <3>6. QED
      BY <1>3, <3>1, <3>2, <3>3, <3>5 DEF Radios, Silent, Is
  <2>2. q \in Radios /\ Silent(q)
    BY <2>1 DEF Is
  <2>3. radio' = Run(q, d)
    <3> HIDE DEF c, d
    <3>1. radio' = Run(radio, c \o d)
      BY <1>2, SendsRuns
    <3>2. QED
      BY <1>8, <1>10, <3>1, RunConcat
  <2> HIDE DEF q
  <2>4. Is(radio', q.rcv, q.xmt, q.vfom, s.imode, IF s.imode \in {"AM", "FM"} THEN q.bw ELSE s.iBW)
    BY <1>3, <2>2, <2>3, SetModeBWDoes
  <2>5. Works(radio', v, "A", "A")
    BY <1>6, <2>1, <2>4 DEF Is, Works
  <2>6. QED
    BY <1>2, <1>3, <1>5, <1>6, <1>12, <2>5 DEF Agree, Works, Displayed
<1>13. QED
  BY <1>11, <1>12

\* The scan starts in CW.
LEMMA StartScanKeeps ==
    ASSUME IInv, calls' \in 0..MaxCalls, stuck' = stuck, NEW f \in Freqs, StartScan(f)
    PROVE  IInv'
<1> DEFINE a == Set("rcv", f)
           b == Set("mode", "CW")
           c == Set("bw", Narrowest)
           cs == <<a, b, c>>
<1>1. PanelOK /\ Displayed
  BY InvSplits
<1>2. /\ scanning' = TRUE
      /\ Sends(cs)
      /\ vfo' = vfo /\ rx' = rx /\ tx' = tx /\ disp' = disp /\ op' = op /\ btn' = btn
      /\ active' = active /\ ptt_on' = ptt_on /\ told' = told
  BY DEF StartScan
<1>3. PanelOK' /\ Displayed'
  BY <1>1, <1>2 DEF PanelOK, Displayed
<1>4. cs \in Seq(Quiet)
  <2>1. a \in Quiet /\ b \in Quiet /\ c \in Quiet
    BY QuietCommands, PanelAssumption
  <2> HIDE DEF a, b, c
  <2>2. QED
    BY <2>1
<1> HIDE DEF cs
<1>5. QED
  BY <1>2, <1>3, <1>4, QuietCallback

\* The scan goes on to the next frequency.
LEMMA ScanNextKeeps ==
    ASSUME IInv, calls' \in 0..MaxCalls, stuck' = stuck, NEW f \in Freqs, ScanNext(f)
    PROVE  IInv'
<1> DEFINE c == Set("rcv", f)
           cs == <<c>>
<1>1. PanelOK /\ Displayed
  BY InvSplits
<1>2. /\ Sends(cs)
      /\ vfo' = vfo /\ rx' = rx /\ tx' = tx /\ disp' = disp /\ op' = op /\ btn' = btn
      /\ active' = active /\ scanning' = scanning /\ ptt_on' = ptt_on /\ told' = told
  BY DEF ScanNext, panel
<1>3. PanelOK' /\ Displayed'
  BY <1>1, <1>2 DEF PanelOK, Displayed
<1>4. c \in Quiet
  BY QuietCommands
<1>5. cs \in Seq(Quiet)
  BY <1>4
<1> HIDE DEF cs
<1>6. QED
  BY <1>2, <1>3, <1>5, QuietCallback

\* With a new start the scan is over, and nothing is sent.
LEMMA MoveStartKeeps ==
    ASSUME IInv, calls' \in 0..MaxCalls, stuck' = stuck, MoveStart
    PROVE  IInv'
<1>1. /\ PanelOK /\ Displayed /\ KeyedInv /\ radio \in Radios /\ btn \subseteq {"PTT", "Carrier"}
      /\ stuck \in BOOLEAN
  BY InvSplits
<1>2. /\ scanning' = FALSE /\ inhibited' = {}
      /\ vfo' = vfo /\ rx' = rx /\ tx' = tx /\ disp' = disp /\ op' = op /\ btn' = btn
      /\ active' = active /\ ptt_on' = ptt_on /\ radio' = radio /\ told' = told
  BY DEF MoveStart
<1>3. PanelOK' /\ Displayed' /\ KeyedInv'
  BY <1>1, <1>2 DEF PanelOK, Displayed, KeyedInv
<1>4. disp' \in [Vfos -> Freqs]
  BY <1>3 DEF PanelOK, Displayed, Settings
<1>5. TypeOK'
  BY <1>1, <1>2, <1>3, <1>4 DEF TypeOK, PanelOK, Radios
<1>6. QED
  BY <1>3, <1>5 DEF IInv

\* The calibration tunes the receiver to the standard, in CW.
LEMMA CalibrateKeeps ==
    ASSUME IInv, calls' \in 0..MaxCalls, stuck' = stuck, NEW f \in Freqs, Calibrate(f)
    PROVE  IInv'
<1> DEFINE a == Set("rcv", f)
           b == Set("mode", "CW")
           c == Set("bw", Wide)
           cs == <<a, b, c>>
<1>1. PanelOK /\ Displayed
  BY InvSplits
<1>2. /\ Sends(cs)
      /\ vfo' = vfo /\ rx' = rx /\ tx' = tx /\ disp' = disp /\ op' = op /\ btn' = btn
      /\ active' = active /\ scanning' = scanning /\ ptt_on' = ptt_on /\ told' = told
  BY DEF Calibrate, panel
<1>3. PanelOK' /\ Displayed'
  BY <1>1, <1>2 DEF PanelOK, Displayed
<1>4. cs \in Seq(Quiet)
  <2>1. a \in Quiet /\ b \in Quiet /\ c \in Quiet
    BY QuietCommands, PanelAssumption
  <2> HIDE DEF a, b, c
  <2>2. QED
    BY <2>1
<1> HIDE DEF cs
<1>5. QED
  BY <1>2, <1>3, <1>4, QuietCallback

\* initXcvrState sets the VFOs, and sends nothing that keys the transmitter.
LEMMA RestoreDoes ==
    ASSUME PanelOK, radio \in Radios
    PROVE  /\ Restored \in [Vfos -> Settings]
           /\ \A x \in Vfos : Restored[x].freq = Start[x].freq
           /\ Start["A"] \in Settings /\ Restored["A"] = Start["A"]
           /\ RestoreCommands \in Seq(Quiet)
<1>1. "A" \in Vfos /\ rx \in Vfos /\ tx \in Vfos /\ Start \in [Vfos -> Settings]
  BY PresetsAssumption DEF PanelOK, Vfos
<1>2. /\ Restored \in [Vfos -> Settings]
      /\ \A x \in Vfos : Restored[x].freq = Start[x].freq
      /\ Start["A"] \in Settings
  BY <1>1 DEF Restored, Settings
<1>3. Restored["A"] = Start["A"]
  <2>1. CASE tx = "A"
    BY <1>1, <2>1 DEF Restored, Settings
  <2>2. CASE tx # "A"
    BY <1>1, <2>2 DEF Restored
  <2>3. QED
    BY <2>1, <2>2
<1>4. RestoreCommands \in Seq(Quiet)
  <2> DEFINE a == MovFreq(Restored, rx, tx, "A")
             o == Set("vfom", "simplex")
             l == Set("vfom", "receive")
             w == Set("bw", Restored[tx].iBW)
             b == <<o, l, w>>
  <2>1. a \in Seq(Quiet)
    BY <1>1, <1>2, MovFreqDoes
  <2>2. o \in Quiet /\ l \in Quiet /\ w \in Quiet
    BY <1>1, <1>2, QuietCommands DEF Settings
  <2>3. RestoreCommands = a \o b
    BY DEF RestoreCommands
  <2> HIDE DEF a, o, l, w
  <2>4. b \in Seq(Quiet)
    BY <2>2
  <2> HIDE DEF b
  <2>5. QED
    BY <2>1, <2>3, <2>4
<1>5. QED
  BY <1>2, <1>3, <1>4

\* The end of the calibration.
LEMMA CalFinishedKeeps ==
    ASSUME IInv, calls' \in 0..MaxCalls, stuck' = stuck, CalFinished
    PROVE  IInv'
<1>1. PanelOK /\ Displayed /\ radio \in Radios
  BY InvSplits
<1>2. /\ vfo' = Restored /\ disp' = [x \in Vfos |-> Start[x].freq]
      /\ op' = [imode |-> Start["A"].imode, iBW |-> Start["A"].iBW]
      /\ Sends(RestoreCommands)
      /\ told' = [told EXCEPT !.freq = IF rx = "A" THEN Start["A"].freq ELSE told.freq,
                              !.iBW  = Restored[tx].iBW]
      /\ rx' = rx /\ tx' = tx /\ btn' = btn /\ active' = active
      /\ scanning' = scanning /\ ptt_on' = ptt_on
  BY <1>1 DEF CalFinished, RestorePanel, Shows, PanelOK, Settings
<1>3. /\ Restored \in [Vfos -> Settings]
      /\ \A x \in Vfos : Restored[x].freq = Start[x].freq
      /\ Start["A"] \in Settings
      /\ RestoreCommands \in Seq(Quiet)
  BY <1>1, RestoreDoes
<1>4. told' \in Settings
  <2>1. told \in Settings /\ tx \in Vfos /\ Restored[tx] \in Settings
    BY <1>1, <1>3 DEF PanelOK
  <2>2. QED
    BY <1>2, <1>3, <2>1 DEF Settings
<1>5. PanelOK'
  <2>1. op' \in [imode : Modes, iBW : Widths]
    BY <1>2, <1>3 DEF Settings
  <2>2. QED
    BY <1>1, <1>2, <1>3, <1>4, <2>1 DEF PanelOK
<1>6. Displayed'
  BY <1>2, <1>3 DEF Displayed
<1>7. QED
  BY <1>2, <1>3, <1>5, <1>6, QuietCallback

\* A newly selected port: whatever the radio did, it works as VFO A says.
LEMMA SelectPortKeeps ==
    ASSUME IInv, calls' \in 0..MaxCalls, stuck' = stuck, SelectPort
    PROVE  IInv' /\ (Silent(radio) => Agree')
<1> DEFINE v == Restored
           a == RestoreCommands
           b == UsePair(v, "A", tx)
           c == UsePair(v, "A", "A")
           bc == b \o c
<1>1. PanelOK /\ Displayed /\ radio \in Radios /\ "A" \in Vfos /\ tx \in Vfos
  BY InvSplits DEF PanelOK, Vfos
<1>2. /\ vfo' = v /\ disp' = [x \in Vfos |-> Start[x].freq]
      /\ op' = [imode |-> Start["A"].imode, iBW |-> Start["A"].iBW]
      /\ Sends(a \o bc)
      /\ told' = Start["A"]
      /\ rx' = "A" /\ tx' = "A" /\ btn' = btn /\ active' = active
      /\ scanning' = scanning /\ ptt_on' = ptt_on
  BY DEF SelectPort, RestorePanel, Shows
<1>3. /\ v \in [Vfos -> Settings]
      /\ \A x \in Vfos : v[x].freq = Start[x].freq
      /\ Start["A"] \in Settings /\ v["A"] = Start["A"]
      /\ a \in Seq(Quiet)
  BY <1>1, RestoreDoes
<1>4. b \in Seq(Quiet) /\ c \in Seq(Quiet)
  BY <1>1, <1>3, UsePairDoes
<1>5. bc \in Seq(Quiet)
  <2> HIDE DEF b, c
  <2>1. QED
    BY <1>4
<1>6. PanelOK'
  <2>1. op' \in [imode : Modes, iBW : Widths]
    BY <1>2, <1>3 DEF Settings
  <2>2. QED
    BY <1>1, <1>2, <1>3, <2>1 DEF PanelOK
<1>7. Displayed'
  BY <1>2, <1>3 DEF Displayed
<1>8. IInv'
  <2> HIDE DEF a, bc
  <2>1. a \o bc \in Seq(Quiet)
    BY <1>3, <1>5
  <2>2. QED
    BY <1>2, <1>6, <1>7, <2>1, QuietCallback
<1>9. ASSUME Silent(radio) PROVE Agree'
  <2> DEFINE q == Run(radio, a)
             p == Run(q, b)
  <2>1. q \in Radios /\ Silent(q)
    BY <1>1, <1>3, <1>9, QuietRun DEF Silent
  <2>2. radio' = Run(q, bc)
    <3> HIDE DEF a, bc
    <3>1. radio' = Run(radio, a \o bc)
      BY <1>2, SendsRuns
    <3>2. QED
      BY <1>3, <1>5, <3>1, RunConcat
  <2> HIDE DEF q
  <2>3. p \in Radios /\ Silent(p)
    BY <1>4, <2>1, QuietRun DEF Silent
  <2>4. radio' = Run(p, c)
    <3> HIDE DEF b, c
    <3>1. QED
      BY <1>4, <2>2, RunConcat
  <2> HIDE DEF p
  <2>5. Works(radio', v, "A", "A")
    BY <1>1, <1>3, <2>3, <2>4, UsePairDoes
  <2>6. Start["A"] = [freq |-> Start["A"].freq, imode |-> Start["A"].imode, iBW |-> Start["A"].iBW]
    BY <1>3 DEF Settings
  <2> HIDE DEF v
  <2>7. QED
    BY <1>2, <1>3, <1>7, <2>5, <2>6 DEF Agree, Works, Displayed
<1>10. QED
  BY <1>8, <1>9

-----------------------------------------------------------------------------
(* The theorems.                                                           *)

\* The panel starts with the radio as it is shown, off the air.
LEMMA InitHolds ==
    ASSUME Init
    PROVE  IInv
<1>1. /\ vfo = Start /\ vfo \in [Vfos -> Settings] /\ "A" \in Vfos
      /\ rx = "A" /\ tx = "A"
      /\ op = [imode |-> vfo["A"].imode, iBW |-> vfo["A"].iBW]
      /\ btn = {} /\ scanning = FALSE /\ ptt_on = FALSE
      /\ told = vfo["A"] /\ inhibited = {} /\ stuck = FALSE /\ calls = 0
      /\ Displayed
  BY PresetsAssumption DEF Init, Vfos, Displayed
<1>2. vfo["A"] \in Settings
  BY <1>1
<1>3. active \subseteq {"PTT", "Carrier", "BW", "Freq"}
  BY DEF Init
<1>4. radio \in Radios /\ radio.ptt = FALSE /\ radio.carrier = FALSE
  BY <1>1, <1>2 DEF Init, Radios, Settings
<1>5. PanelOK
  <2>1. op \in [imode : Modes, iBW : Widths] /\ told \in Settings
    BY <1>1, <1>2 DEF Settings
  <2>2. calls \in 0..MaxCalls
    BY <1>1, PanelAssumption
  <2>3. QED
    BY <1>1, <1>3, <2>1, <2>2 DEF PanelOK
<1>6. QED
  BY <1>1, <1>4, <1>5, InvSplits DEF KeyedInv

\* Each callback of the panel keeps the invariant.
LEMMA CallbackKeeps ==
    ASSUME IInv, calls' \in 0..MaxCalls, stuck' = stuck, Callback
    PROVE  IInv'
<1>1. ASSUME NEW x \in Vfos, NEW f \in Freqs, Tune(x, f) PROVE IInv'
  BY <1>1, TuneKeeps
<1>2. CASE Correct
  BY <1>2, CorrectKeeps
<1>3. ASSUME NEW r \in Vfos, NEW t \in Vfos, Pair(r, t) PROVE IInv'
  BY <1>3, PairKeeps
<1>4. ASSUME NEW x \in Vfos, NEW y \in Vfos, Copy(x, y) PROVE IInv'
  BY <1>4, CopyKeeps
<1>5. ASSUME NEW s \in Presets, SelectMemory(s) \/ FldigiSets(s) PROVE IInv'
  BY <1>5, SelectMemoryKeeps, FldigiSetsKeeps
<1>6. ASSUME NEW w \in Widths, SelectBW(w) PROVE IInv'
  BY <1>6, SelectBWKeeps
<1>7. ASSUME NEW m \in Modes, SelectNewMode(m) \/ SelectSameMode(m) PROVE IInv'
  BY <1>7, NewModeKeeps, SameModeKeeps
<1>8. CASE PressPTT \/ FldigiPTT
  BY <1>8, PressPTTKeeps, FldigiPTTKeeps
<1>9. ASSUME NEW f \in Freqs, StartScan(f) \/ ScanNext(f) \/ Calibrate(f) PROVE IInv'
  BY <1>9, StartScanKeeps, ScanNextKeeps, CalibrateKeeps
<1>10. ASSUME NEW f \in Freqs, ClickSpectrum(f) PROVE IInv'
  <2>1. rx \in Vfos
    BY InvSplits DEF PanelOK
  <2>2. QED
    BY <1>10, <2>1, TuneKeeps
<1>11. CASE MoveStart \/ EndScan
  BY <1>11, MoveStartKeeps, EndScanKeeps
<1>12. CASE CalFinished \/ SelectPort
  BY <1>12, CalFinishedKeeps, SelectPortKeeps
<1>13. QED
  BY <1>1, <1>2, <1>3, <1>4, <1>5, <1>6, <1>7, <1>8, <1>9, <1>10, <1>11, <1>12 DEF Callback

\* And so does every step.
LEMMA StepKeeps ==
    ASSUME IInv, [Next]_vars
    PROVE  IInv'
<1>1. CASE Next
  <2>1. calls' \in 0..MaxCalls
    BY <1>1, PanelAssumption DEF IInv, TypeOK, Next
  <2>2. QED
    BY <1>1, <2>1, CallbackKeeps, PressCarrierKeeps DEF Next
<1>2. CASE UNCHANGED vars
  <2>1. /\ vfo' = vfo /\ rx' = rx /\ tx' = tx /\ disp' = disp /\ op' = op /\ btn' = btn
        /\ active' = active /\ scanning' = scanning /\ ptt_on' = ptt_on /\ radio' = radio
        /\ told' = told /\ inhibited' = inhibited /\ stuck' = stuck /\ calls' = calls
    BY <1>2 DEF vars, panel
  <2>2. TypeOK'
    BY <2>1 DEF IInv, TypeOK
  <2>3. Displayed' /\ KeyedInv'
    BY <2>1 DEF IInv, Displayed, KeyedInv
  <2>4. QED
    BY <2>2, <2>3 DEF IInv
<1>3. QED
  BY <1>1, <1>2

\* Whatever is pressed, tuned, scanned, calibrated or set by fldigi: the displays are right, a
\* keyed radio has a lit button and can be unkeyed, and a tune carrier with its button dark is one
\* the radio refused to put out.
THEOREM PanelInvariance == Spec => []IInv
<1>1. Init => IInv
  BY InitHolds
<1>2. IInv /\ [Next]_vars => IInv'
  BY StepKeeps
<1>3. QED
  BY <1>1, <1>2, PTL DEF Spec

\* The radio is never on the air with both transmit buttons dark, but for a tune carrier it refused
\* to put out.
THEOREM OnTheAirIsShown == Spec => []KeyedIsShown
<1>1. IInv => KeyedIsShown
  BY DEF IInv, KeyedInv, KeyedIsShown, OnAir
<1>2. QED
  BY <1>1, PanelInvariance, PTL

\* With neither key nor tune carrier, a pairing button, a memory, the end of a scan and a newly
\* selected port make the radio, fldigi and the panel agree, whatever happened before.
THEOREM PairingMakesAgree == Spec => PairingResyncs
<1> DEFINE A == Silent(radio) /\ ~Agree' =>
                  ~ \/ EndScan \/ SelectPort
                    \/ \E r, t \in Vfos : Pair(r, t)
                    \/ \E s \in Presets : SelectMemory(s)
<1>1. ASSUME IInv, [Next]_vars PROVE [A]_vars
  <2>1. CASE Next
    <3>1. calls' \in 0..MaxCalls
      BY <1>1, <2>1, PanelAssumption DEF IInv, TypeOK, Next
    <3>2. (\/ EndScan \/ SelectPort
           \/ \E r, t \in Vfos : Pair(r, t)
           \/ \E s \in Presets : SelectMemory(s)) => stuck' = stuck
      <4>1. PressCarrier => btn' # btn
        BY DEF PressCarrier
      <4>2. /\ EndScan => btn' = btn
            /\ SelectPort => btn' = btn
            /\ \A r, t \in Vfos : Pair(r, t) => btn' = btn
            /\ \A s \in Presets : SelectMemory(s) => btn' = btn
        BY DEF EndScan, SelectPort, Pair, SelectMemory
      <4>3. QED
        BY <2>1, <4>1, <4>2 DEF Next
    <3>3. QED
      BY <1>1, <3>1, <3>2, PairKeeps, EndScanKeeps, SelectMemoryKeeps, SelectPortKeeps
  <2>2. CASE UNCHANGED vars
    BY <2>2
  <2>3. QED
    BY <1>1, <2>1, <2>2
<1>2. QED
  BY <1>1, PanelInvariance, PTL DEF Spec, PairingResyncs

-----------------------------------------------------------------------------
(* The callbacks that keep the agreement, with neither key nor carrier.    *)

\* movFreqA and movFreqB.
LEMMA TuneAgrees ==
    ASSUME IInv, Agree, Silent(radio), NEW x \in Vfos, NEW f \in Freqs,
           Tune(x, f) \/ (x = rx /\ ClickSpectrum(f))
    PROVE  Agree'
<1> DEFINE v == [vfo EXCEPT ![x].freq = f]
<1>1. PanelOK /\ radio \in Radios
  BY InvSplits
<1>2. /\ vfo' = v /\ disp' = [disp EXCEPT ![x] = f]
      /\ Sends(MovFreq(v, rx, tx, x))
      /\ told' = (IF rx = x THEN [told EXCEPT !.freq = v[x].freq] ELSE told)
      /\ rx' = rx /\ tx' = tx /\ op' = op
  BY DEF Tune, ClickSpectrum, TellFreq
<1>3. /\ v \in [Vfos -> Settings] /\ v[x].freq = f
      /\ \A y \in Vfos : y # x => v[y] = vfo[y]
      /\ \A y \in Vfos : v[y].imode = vfo[y].imode /\ v[y].iBW = vfo[y].iBW
  BY <1>1 DEF PanelOK, Settings
<1> HIDE DEF v
<1>4. rx \in Vfos /\ tx \in Vfos
  BY <1>1 DEF PanelOK
<1>5. Is(radio', IF rx = x THEN f ELSE radio.rcv, IF tx = x THEN f ELSE radio.xmt,
         "split", radio.mode, radio.bw)
  <2> DEFINE cs == MovFreq(v, rx, tx, x)
  <2>1. Is(Run(radio, cs), IF rx = x THEN v[x].freq ELSE radio.rcv,
           IF tx = x THEN v[x].freq ELSE radio.xmt, "split", radio.mode, radio.bw)
    BY <1>1, <1>3, <1>4, MovFreqDoes
  <2> HIDE DEF cs
  <2>2. radio' = Run(radio, cs)
    BY <1>2, SendsRuns DEF cs
  <2>3. QED
    BY <1>3, <2>1, <2>2
<1>6. Works(radio', v, rx, tx)
  BY <1>3, <1>4, <1>5 DEF Is, Works, Agree
<1>7. told' = [freq |-> v[rx].freq, imode |-> v[tx].imode, iBW |-> v[tx].iBW]
  BY <1>2, <1>3, <1>4 DEF Agree
<1>8. disp' = [y \in Vfos |-> v[y].freq]
  BY <1>2, <1>3 DEF Agree
<1>9. op' = [imode |-> v[tx].imode, iBW |-> v[tx].iBW]
  BY <1>2, <1>3, <1>4 DEF Agree
<1>10. QED
  BY <1>2, <1>6, <1>7, <1>8, <1>9 DEF Agree, Works

\* Both frequencies are sent again.
LEMMA CorrectAgrees ==
    ASSUME IInv, Agree, Silent(radio), Correct
    PROVE  Agree'
<1>1. vfo \in [Vfos -> Settings] /\ rx \in Vfos /\ tx \in Vfos /\ radio \in Radios
  BY InvSplits DEF PanelOK
<1>2. /\ Sends(MovBoth(vfo, rx, tx))
      /\ told' = [told EXCEPT !.freq = vfo[rx].freq]
      /\ vfo' = vfo /\ rx' = rx /\ tx' = tx /\ disp' = disp /\ op' = op
  BY DEF Correct, TellFreq, panel
<1>3. Is(radio', vfo[rx].freq, vfo[tx].freq, "split", radio.mode, radio.bw)
  BY <1>1, <1>2, SendsRuns, MovBothDoes
<1>4. told' = told
  BY <1>2 DEF Agree
<1>5. QED
  BY <1>2, <1>3, <1>4 DEF Agree, Is

\* A copy into the VFO that does not transmit.
LEMMA CopyAgrees ==
    ASSUME IInv, Agree, Silent(radio), NEW x \in Vfos, NEW y \in Vfos, Copy(x, y), y # tx
    PROVE  Agree'
<1> DEFINE v == [vfo EXCEPT ![y] = vfo[x]]
<1>1. vfo \in [Vfos -> Settings] /\ rx \in Vfos /\ tx \in Vfos /\ radio \in Radios
  BY InvSplits DEF PanelOK
<1>2. /\ vfo' = v /\ disp' = [disp EXCEPT ![y] = vfo[x].freq]
      /\ Sends(MovBoth(v, rx, tx))
      /\ told' = [told EXCEPT !.freq = v[rx].freq]
      /\ rx' = rx /\ tx' = tx /\ op' = op
  BY DEF Copy, TellFreq
<1>3. v \in [Vfos -> Settings] /\ v[tx] = vfo[tx]
  BY <1>1
<1>4. disp' = [z \in Vfos |-> v[z].freq]
  BY <1>1, <1>2 DEF Agree
<1> HIDE DEF v
<1>5. Is(radio', v[rx].freq, v[tx].freq, "split", radio.mode, radio.bw)
  <2> DEFINE cs == MovBoth(v, rx, tx)
  <2>1. Is(Run(radio, cs), v[rx].freq, v[tx].freq, "split", radio.mode, radio.bw)
    BY <1>1, <1>3, MovBothDoes
  <2> HIDE DEF cs
  <2>2. radio' = Run(radio, cs)
    BY <1>2, SendsRuns DEF cs
  <2>3. QED
    BY <2>1, <2>2
<1>6. told' = [freq |-> v[rx].freq, imode |-> v[tx].imode, iBW |-> v[tx].iBW]
  BY <1>2, <1>3 DEF Agree
<1>7. QED
  BY <1>2, <1>3, <1>4, <1>5, <1>6 DEF Agree, Is

\* setBW.
LEMMA SelectBWAgrees ==
    ASSUME IInv, Agree, Silent(radio), NEW w \in Widths, SelectBW(w)
    PROVE  Agree'
<1> DEFINE v == [vfo EXCEPT ![tx].iBW = w]
           c == Set("bw", w)
<1>1. vfo \in [Vfos -> Settings] /\ rx \in Vfos /\ tx \in Vfos /\ radio \in Radios
  BY InvSplits DEF PanelOK
<1>2. /\ op' = [op EXCEPT !.iBW = w] /\ vfo' = v
      /\ Sends(<<c>>)
      /\ told' = [told EXCEPT !.iBW = w]
      /\ rx' = rx /\ tx' = tx /\ disp' = disp
  BY DEF SelectBW
<1>3. /\ v[tx].iBW = w
      /\ \A x \in Vfos : v[x].freq = vfo[x].freq /\ v[x].imode = vfo[x].imode
  BY <1>1 DEF Settings
<1> HIDE DEF v
<1>4. radio' = IF radio.mode \in {"AM", "FM"} THEN radio ELSE [radio EXCEPT !.bw = w]
  <2>1. radio' = Obey(radio, c)
    BY <1>2, SendsRuns, RunOne
  <2>2. QED
    BY <1>1, <2>1, ObeyBW
<1>5. Works(radio', v, rx, tx)
  BY <1>1, <1>3, <1>4 DEF Agree, Works, Radios
<1>6. /\ told' = [freq |-> v[rx].freq, imode |-> v[tx].imode, iBW |-> v[tx].iBW]
      /\ op' = [imode |-> v[tx].imode, iBW |-> v[tx].iBW]
      /\ disp' = [x \in Vfos |-> v[x].freq]
  BY <1>1, <1>2, <1>3 DEF Agree
<1>7. QED
  BY <1>2, <1>5, <1>6 DEF Agree, Works

\* A mode that is shown and sent.
LEMMA ModeAgrees ==
    ASSUME IInv, Agree, Silent(radio), NEW s \in Settings, s.freq = vfo[tx].freq,
           vfo' = [vfo EXCEPT ![tx] = s], Shows(s), Sends(SetModeBW(s)),
           told' = [freq |-> told.freq, imode |-> s.imode, iBW |-> s.iBW],
           rx' = rx, tx' = tx, disp' = disp
    PROVE  Agree'
<1>1. vfo \in [Vfos -> Settings] /\ rx \in Vfos /\ tx \in Vfos /\ radio \in Radios
  BY InvSplits DEF PanelOK
<1>2. vfo'[tx] = s /\ \A x \in Vfos : vfo'[x].freq = vfo[x].freq
  BY <1>1
<1>3. Is(radio', radio.rcv, radio.xmt, radio.vfom, s.imode,
         IF s.imode \in {"AM", "FM"} THEN radio.bw ELSE s.iBW)
  BY <1>1, SendsRuns, SetModeBWDoes
<1>4. Works(radio', vfo', rx, tx)
  BY <1>1, <1>2, <1>3 DEF Agree, Is, Works
<1>5. /\ told' = [freq |-> vfo'[rx].freq, imode |-> vfo'[tx].imode, iBW |-> vfo'[tx].iBW]
      /\ op' = [imode |-> vfo'[tx].imode, iBW |-> vfo'[tx].iBW]
      /\ disp' = [x \in Vfos |-> vfo'[x].freq]
  BY <1>1, <1>2 DEF Agree, Shows
<1>6. QED
  BY <1>4, <1>5 DEF Agree, Works

\* setMode for a mode the VFO does not have.
LEMMA NewModeAgrees ==
    ASSUME IInv, Agree, Silent(radio), NEW m \in Modes, SelectNewMode(m)
    PROVE  Agree'
<1> DEFINE s == [vfo[tx] EXCEPT !.imode = m, !.iBW = DefaultBW(m)]
<1>1. s \in Settings /\ s.freq = vfo[tx].freq /\ s.imode = m
  BY InvSplits, DefaultBWOK DEF PanelOK, Settings
<1>2. /\ vfo' = [vfo EXCEPT ![tx] = s] /\ Shows(s)
      /\ Sends(SetModeBW(s))
      /\ told' = [told EXCEPT !.imode = m, !.iBW = s.iBW]
      /\ rx' = rx /\ tx' = tx /\ disp' = disp
  BY DEF SelectNewMode
<1> HIDE DEF s
<1>3. told' = [freq |-> told.freq, imode |-> s.imode, iBW |-> s.iBW]
  BY <1>1, <1>2 DEF Agree
<1>4. QED
  BY <1>1, <1>2, <1>3, ModeAgrees

\* setMode for the mode it has.
LEMMA SameModeAgrees ==
    ASSUME IInv, Agree, Silent(radio), NEW m \in Modes, SelectSameMode(m)
    PROVE  Agree'
<1> DEFINE s == [vfo[tx] EXCEPT !.iBW = op.iBW]
<1>1. s \in Settings /\ s.freq = vfo[tx].freq /\ s.imode = vfo[tx].imode
  BY InvSplits DEF PanelOK, Settings
<1>2. /\ vfo' = [vfo EXCEPT ![tx] = s] /\ Shows(s)
      /\ Sends(SetModeBW(s))
      /\ told' = [told EXCEPT !.iBW = s.iBW]
      /\ rx' = rx /\ tx' = tx /\ disp' = disp
  BY DEF SelectSameMode
<1> HIDE DEF s
<1>3. told' = [freq |-> told.freq, imode |-> s.imode, iBW |-> s.iBW]
  BY <1>1, <1>2 DEF Agree
<1>4. QED
  BY <1>1, <1>2, <1>3, ModeAgrees

\* Keying changes nothing of what they agree about.
LEMMA KeyingAgrees ==
    ASSUME IInv, calls' \in 0..MaxCalls, Agree,
           PressCarrier \/ (stuck' = stuck /\ (PressPTT \/ FldigiPTT))
    PROVE  Agree'
<1>1. \A f \in {"rcv", "xmt", "vfom", "mode", "bw"} : radio'[f] = radio[f]
  BY PressPTTKeeps, PressCarrierKeeps, FldigiPTTKeeps
<1>2. /\ radio'.rcv = radio.rcv /\ radio'.xmt = radio.xmt /\ radio'.vfom = radio.vfom
      /\ radio'.mode = radio.mode /\ radio'.bw = radio.bw
  BY <1>1
<1>3. vfo' = vfo /\ rx' = rx /\ tx' = tx /\ disp' = disp /\ op' = op /\ told' = told
  BY DEF PressPTT, PressCarrier, FldigiPTT
<1>4. QED
  BY <1>2, <1>3 DEF Agree

\* With neither key nor tune carrier, radio, fldigi and panel go on agreeing, whatever callback
\* runs, but for the copy into the transmit VFO, settings of fldigi while VFO A is not in use for
\* both, a scan, and the calibration with its end.
THEOREM AgreementIsKept == Spec => KeepsAgreement
<1> DEFINE A == Agree /\ Silent(radio) /\ ~Agree' =>
                  \/ Copy(Other(tx), tx)
                  \/ <<rx, tx>> # <<"A", "A">> /\ \E s \in Presets : FldigiSets(s)
                  \/ scanning'
                  \/ (\E f \in Freqs : Calibrate(f)) \/ CalFinished
<1>1. ASSUME IInv, [Next]_vars, Agree, Silent(radio),
             ~Copy(Other(tx), tx),
             \A s \in Presets : FldigiSets(s) => rx = "A" /\ tx = "A",
             ~scanning', \A f \in Freqs : ~Calibrate(f), ~CalFinished
      PROVE  Agree'
  <2>1. CASE Next
    <3>1. calls' \in 0..MaxCalls
      BY <2>1, <1>1, PanelAssumption DEF IInv, TypeOK, Next
    <3> SUFFICES ASSUME ~PressCarrier PROVE Agree'
      BY <1>1, <3>1, KeyingAgrees
    <3>0. stuck' = stuck /\ Callback
      BY <2>1 DEF Next
    <3>2. ASSUME NEW x \in Vfos, NEW f \in Freqs, Tune(x, f) PROVE Agree'
      BY <1>1, <3>2, TuneAgrees
    <3>3. CASE Correct
      BY <1>1, <3>3, CorrectAgrees
    <3>4. ASSUME NEW r \in Vfos, NEW t \in Vfos, Pair(r, t) PROVE Agree'
      BY <1>1, <3>0, <3>1, <3>4, PairKeeps
    <3>5. ASSUME NEW x \in Vfos, NEW y \in Vfos, Copy(x, y) PROVE Agree'
      <4>1. y # tx
        <5>1. SUFFICES ASSUME y = tx PROVE FALSE
          OBVIOUS
        <5>2. x = Other(tx)
          BY <3>5, <5>1 DEF Copy, Vfos, Other
        <5>3. QED
          BY <1>1, <3>5, <5>1, <5>2
      <4>2. QED
        BY <1>1, <3>5, <4>1, CopyAgrees
    <3>6. ASSUME NEW s \in Presets, SelectMemory(s) \/ FldigiSets(s) PROVE Agree'
      BY <1>1, <3>0, <3>1, <3>6, SelectMemoryKeeps, FldigiSetsKeeps DEF Agree
    <3>7. ASSUME NEW w \in Widths, SelectBW(w) PROVE Agree'
      BY <1>1, <3>7, SelectBWAgrees
    <3>8. ASSUME NEW m \in Modes, SelectNewMode(m) \/ SelectSameMode(m) PROVE Agree'
      BY <1>1, <3>8, NewModeAgrees, SameModeAgrees
    <3>9. CASE PressPTT \/ FldigiPTT
      BY <1>1, <3>0, <3>1, <3>9, KeyingAgrees
    <3>10. ASSUME NEW f \in Freqs, StartScan(f) \/ ScanNext(f) PROVE Agree'
      BY <1>1, <3>10 DEF StartScan, ScanNext, panel
    <3>11. ASSUME NEW f \in Freqs, ClickSpectrum(f) PROVE Agree'
      <4>1. rx \in Vfos
        BY <1>1, InvSplits DEF PanelOK
      <4>2. QED
        BY <1>1, <3>11, <4>1, TuneAgrees
    <3>12. CASE MoveStart
      BY <1>1, <3>12 DEF MoveStart, Agree
    <3>13. CASE EndScan
      BY <1>1, <3>0, <3>1, <3>13, EndScanKeeps
    <3>14. CASE SelectPort
      BY <1>1, <3>0, <3>1, <3>14, SelectPortKeeps
    <3>15. QED
      BY <1>1, <3>0, <3>2, <3>3, <3>4, <3>5, <3>6, <3>7, <3>8, <3>9, <3>10, <3>11, <3>12, <3>13,
         <3>14 DEF Callback
  <2>2. CASE UNCHANGED vars
    BY <1>1, <2>2 DEF Agree, vars, panel
  <2>3. QED
    BY <1>1, <2>1, <2>2
<1>2. ASSUME IInv, [Next]_vars PROVE [A]_vars
  BY <1>1, <1>2
<1>3. QED
  BY <1>2, PanelInvariance, PTL DEF Spec, KeepsAgreement
=============================================================================
