--------------------------- MODULE GripperProofs ---------------------------
(***************************************************************************)
(* Proofs about Gripper: what disable() and close() leave behind them.     *)
(***************************************************************************)
EXTENDS Gripper, SequenceTheorems, TLAPS

StepNames ==
  {"handle", "send", "poll", "torque", "direction", "hold", "enable",
   "await", "handleOrDone", "disable", "stop", "join", "zeroOff", "zero",
   "mode", "closeSession", "drop", "connect", "start"}

CallSteps == [do : StepNames, arg : Int]

(* The motor is disabled after the loop was stopped. *)
DisableAfterJoin(s) ==
  \A i \in 1 .. Len(s) :
    s[i].do = "disable" => \E k \in 1 .. i - 1 : s[k].do = "join"

(* The session is closed right after close() has disabled the motor. *)
CloseAfterDisable(s) ==
  \A i \in 2 .. Len(s) :
    s[i].do = "closeSession" => s[i - 1] = [do |-> "disable", arg |-> 1]

(* What disable() and set_zero() pass over has the steps it should have. *)
Blocks(s) ==
  \A i \in 1 .. Len(s) :
    /\ s[i].do = "handleOrDone" =>
         /\ i + 2 <= Len(s)
         /\ s[i + 1].do \in {"disable", "zeroOff"}
         /\ s[i + 2].do \in {"await", "zero"}
    /\ s[i].do = "zeroOff" => i + 1 <= Len(s) /\ s[i + 1].do = "zero"

(* A call as it begins. *)
IsCall(s) ==
  /\ s \in Seq(CallSteps)
  /\ DisableAfterJoin(s) /\ CloseAfterDisable(s) /\ Blocks(s)
  /\ s # <<>> => s[1].do # "closeSession"

(* The steps that every other step may come before and after. *)
PlainNames ==
  StepNames \ {"disable", "closeSession", "handleOrDone", "zeroOff"}

Plain == {s \in Seq(CallSteps) : \A i \in 1 .. Len(s) : s[i].do \in PlainNames}

(* One plain step is a plain sequence. *)
LEMMA PlainStep ==
  ASSUME NEW name \in PlainNames, NEW arg \in Int
  PROVE  Step(name, arg) \in Plain
<1> DEFINE step == [do |-> name, arg |-> arg]
<1>1. step \in CallSteps /\ step.do = name
  BY DEF PlainNames, CallSteps
<1> HIDE DEF step
<1>2. /\ <<step>> \in Seq(CallSteps) /\ Len(<<step>>) = 1
      /\ <<step>>[1] = step
  BY <1>1
<1>3. <<step>> \in Plain
  BY <1>1, <1>2 DEF Plain
<1> QED
  BY <1>3 DEF Step, step

(* Two plain sequences after one another are plain. *)
LEMMA PlainJoin ==
  ASSUME NEW s \in Plain, NEW u \in Plain
  PROVE  s \o u \in Plain
<1>1. /\ s \in Seq(CallSteps) /\ u \in Seq(CallSteps)
      /\ \A i \in 1 .. Len(s) : s[i].do \in PlainNames
      /\ \A i \in 1 .. Len(u) : u[i].do \in PlainNames
  BY DEF Plain
<1> DEFINE r == s \o u
<1>2. /\ r \in Seq(CallSteps) /\ Len(r) = Len(s) + Len(u)
      /\ Len(s) \in Nat /\ Len(u) \in Nat
      /\ \A i \in 1 .. Len(r) :
           \/ i \in 1 .. Len(s) /\ r[i] = s[i]
           \/ i - Len(s) \in 1 .. Len(u) /\ r[i] = u[i - Len(s)]
  BY <1>1
<1> HIDE DEF r
<1>3. \A i \in 1 .. Len(r) : r[i].do \in PlainNames
  BY <1>1, <1>2
<1>4. r \in Plain
  BY <1>2, <1>3 DEF Plain
<1> QED  BY <1>4 DEF r

(* Plain steps alone make a call: they disable and close nothing. *)
LEMMA PlainIsCall ==
  ASSUME NEW s \in Plain
  PROVE  IsCall(s)
<1>1. /\ s \in Seq(CallSteps)
      /\ \A i \in 1 .. Len(s) : s[i].do \in PlainNames
  BY DEF Plain
<1>2. \A i \in 1 .. Len(s) :
        s[i].do \notin {"disable", "closeSession", "handleOrDone", "zeroOff"}
  BY <1>1 DEF PlainNames
<1> QED
  BY <1>1, <1>2
     DEF IsCall, DisableAfterJoin, CloseAfterDisable, Blocks

(* Two calls after one another are a call. *)
LEMMA CallJoin ==
  ASSUME NEW s, NEW u, IsCall(s), IsCall(u)
  PROVE  IsCall(s \o u)
<1> DEFINE r == s \o u
<1>1. /\ s \in Seq(CallSteps) /\ u \in Seq(CallSteps)
      /\ r \in Seq(CallSteps) /\ Len(r) = Len(s) + Len(u)
      /\ Len(s) \in Nat /\ Len(u) \in Nat
      /\ \A i \in 1 .. Len(s) : r[i] = s[i]
      /\ \A i \in 1 .. Len(u) : r[Len(s) + i] = u[i]
      /\ \A i \in 1 .. Len(r) : i > Len(s) => r[i] = u[i - Len(s)]
  BY DEF IsCall
<1> HIDE DEF r
<1>2. DisableAfterJoin(r)
  <2> SUFFICES ASSUME NEW i \in 1 .. Len(r), r[i].do = "disable"
               PROVE  \E k \in 1 .. i - 1 : r[k].do = "join"
    BY DEF DisableAfterJoin
  <2>1. CASE i <= Len(s)
    <3>1. PICK k \in 1 .. i - 1 : s[k].do = "join"
      BY <2>1, <1>1 DEF IsCall, DisableAfterJoin
    <3>2. k \in 1 .. Len(s)
      BY <2>1, <1>1
    <3> QED  BY <3>1, <3>2, <1>1
  <2>2. CASE i > Len(s)
    <3>1. i - Len(s) \in 1 .. Len(u) /\ u[i - Len(s)].do = "disable"
      BY <2>2, <1>1
    <3>2. PICK k \in 1 .. i - Len(s) - 1 : u[k].do = "join"
      BY <3>1 DEF IsCall, DisableAfterJoin
    <3>3. Len(s) + k \in 1 .. i - 1 /\ r[Len(s) + k].do = "join"
      BY <3>2, <3>1, <1>1
    <3> QED  BY <3>3
  <2> QED  BY <2>1, <2>2, <1>1
<1>3. CloseAfterDisable(r)
  <2> SUFFICES ASSUME NEW i \in 2 .. Len(r), r[i].do = "closeSession"
               PROVE  r[i - 1] = [do |-> "disable", arg |-> 1]
    BY DEF CloseAfterDisable
  <2>1. CASE i <= Len(s)
    <3>1. i \in 2 .. Len(s) /\ i \in 1 .. Len(s) /\ i - 1 \in 1 .. Len(s)
      BY <2>1, <1>1
    <3>2. r[i] = s[i] /\ r[i - 1] = s[i - 1]
      BY <3>1, <1>1
    <3> QED  BY <3>1, <3>2 DEF IsCall, CloseAfterDisable
  <2>2. CASE i > Len(s)
    <3>1. i - Len(s) \in 1 .. Len(u) /\ u[i - Len(s)].do = "closeSession"
      BY <2>2, <1>1
    <3>2. i - Len(s) # 1
      BY <3>1, <1>1 DEF IsCall
    <3>3. /\ i - Len(s) \in 2 .. Len(u)
          /\ i - 1 \in 1 .. Len(r) /\ i - 1 > Len(s)
      BY <3>1, <3>2, <1>1
    <3>5. (i - 1) - Len(s) = (i - Len(s)) - 1
      BY <1>1
    <3> DEFINE k == i - Len(s)
    <3>4. u[k - 1] = [do |-> "disable", arg |-> 1]
      <4>1. k \in 2 .. Len(u) /\ u[k].do = "closeSession"
        BY <3>1, <3>3
      <4> HIDE DEF k
      <4> QED  BY <4>1 DEF IsCall, CloseAfterDisable
    <3> QED  BY <3>3, <3>4, <3>5, <1>1
  <2> QED  BY <2>1, <2>2, <1>1
<1>4. Blocks(r)
  <2> SUFFICES ASSUME NEW i \in 1 .. Len(r)
               PROVE  /\ r[i].do = "handleOrDone" =>
                           /\ i + 2 <= Len(r)
                           /\ r[i + 1].do \in {"disable", "zeroOff"}
                           /\ r[i + 2].do \in {"await", "zero"}
                      /\ r[i].do = "zeroOff" =>
                           i + 1 <= Len(r) /\ r[i + 1].do = "zero"
    BY DEF Blocks
  <2>1. CASE i <= Len(s)
    <3>1. /\ i \in 1 .. Len(s) /\ Len(s) <= Len(r)
          /\ i + 1 <= Len(s) => i + 1 \in 1 .. Len(s)
          /\ i + 2 <= Len(s) => i + 1 \in 1 .. Len(s) /\ i + 2 \in 1 .. Len(s)
          /\ i + 1 <= Len(s) => i + 1 <= Len(r)
          /\ i + 2 <= Len(s) => i + 2 <= Len(r)
      BY <2>1, <1>1
    <3>2. /\ r[i] = s[i]
          /\ i + 1 <= Len(s) => r[i + 1] = s[i + 1]
          /\ i + 2 <= Len(s) => r[i + 1] = s[i + 1] /\ r[i + 2] = s[i + 2]
      BY <3>1, <1>1
    <3>3. /\ s[i].do = "handleOrDone" =>
                /\ i + 2 <= Len(s)
                /\ s[i + 1].do \in {"disable", "zeroOff"}
                /\ s[i + 2].do \in {"await", "zero"}
          /\ s[i].do = "zeroOff" => i + 1 <= Len(s) /\ s[i + 1].do = "zero"
      BY <3>1 DEF IsCall, Blocks
    <3> QED  BY <3>1, <3>2, <3>3
  <2>2. CASE i > Len(s)
    <3> DEFINE k == i - Len(s)
    <3>1. k \in 1 .. Len(u) /\ r[i] = u[k]
      BY <2>2, <1>1
    <3>2. /\ k + 1 <= Len(u) => i + 1 <= Len(r) /\ r[i + 1] = u[k + 1]
          /\ k + 2 <= Len(u) => i + 2 <= Len(r) /\ r[i + 2] = u[k + 2]
      <4>1. /\ k + 1 <= Len(u) =>
                 /\ i + 1 \in 1 .. Len(r) /\ i + 1 > Len(s)
                 /\ i + 1 - Len(s) = k + 1
            /\ k + 2 <= Len(u) =>
                 /\ i + 2 \in 1 .. Len(r) /\ i + 2 > Len(s)
                 /\ i + 2 - Len(s) = k + 2
        BY <3>1, <2>2, <1>1
      <4> QED  BY <4>1, <1>1
    <3>3. /\ u[k].do = "handleOrDone" =>
                /\ k + 2 <= Len(u)
                /\ u[k + 1].do \in {"disable", "zeroOff"}
                /\ u[k + 2].do \in {"await", "zero"}
          /\ u[k].do = "zeroOff" => k + 1 <= Len(u) /\ u[k + 1].do = "zero"
      BY <3>1 DEF IsCall, Blocks
    <3>4. k + 2 <= Len(u) => k + 1 <= Len(u)
      BY <3>1, <1>1
    <3> QED  BY <3>1, <3>2, <3>3, <3>4
  <2> QED  BY <2>1, <2>2, <1>1
<1>5. r # <<>> => r[1].do # "closeSession"
  <2>1. CASE s = <<>>
    BY <2>1, <1>1 DEF IsCall
  <2>2. CASE s # <<>>
    BY <2>2, <1>1 DEF IsCall
  <2> QED  BY <2>1, <2>2
<1> QED  BY <1>1, <1>2, <1>3, <1>4, <1>5 DEF IsCall, r

(* A call that goes on with one more step. *)
LEMMA AddStep ==
  ASSUME NEW s \in Seq(CallSteps), NEW name \in StepNames, NEW arg \in Int
  PROVE  LET r == s \o Step(name, arg) IN
           /\ r \in Seq(CallSteps) /\ Len(r) = Len(s) + 1
           /\ \A i \in 1 .. Len(s) : r[i] = s[i]
           /\ r[Len(s) + 1] = [do |-> name, arg |-> arg]
<1> DEFINE step == [do |-> name, arg |-> arg]
<1>1. step \in CallSteps
  BY DEF CallSteps
<1> HIDE DEF step
<1>2. /\ <<step>> \in Seq(CallSteps) /\ Len(<<step>>) = 1
      /\ <<step>>[1] = step
  BY <1>1
<1>3. /\ s \o <<step>> \in Seq(CallSteps)
      /\ Len(s \o <<step>>) = Len(s) + 1
      /\ \A i \in 1 .. Len(s) : (s \o <<step>>)[i] = s[i]
      /\ (s \o <<step>>)[Len(s) + 1] = step
  BY <1>2
<1> QED
  BY <1>3 DEF Step, step

(* The one step of a call of one step. *)
LEMMA FirstStep ==
  ASSUME NEW name \in StepNames, NEW arg \in Int
  PROVE  /\ Step(name, arg) \in Seq(CallSteps) /\ Len(Step(name, arg)) = 1
         /\ Step(name, arg)[1] = [do |-> name, arg |-> arg]
<1> DEFINE step == [do |-> name, arg |-> arg]
<1>1. step \in CallSteps
  BY DEF CallSteps
<1> HIDE DEF step
<1>2. /\ <<step>> \in Seq(CallSteps) /\ Len(<<step>>) = 1
      /\ <<step>>[1] = step
  BY <1>1
<1> QED
  BY <1>2 DEF Step, step

(* disable() joins the loop before it disables the motor.                   *)
LEMMA DisableIsCall == IsCall(Disable)
<1> DEFINE s1 == Step("stop", 0)
           s2 == s1 \o Step("join", 0)
           s3 == s2 \o Step("handleOrDone", 0)
           s4 == s3 \o Step("disable", 0)
           s5 == s4 \o Step("await", 0)
<1>0. "stop" \in StepNames /\ "join" \in StepNames /\ "handleOrDone" \in StepNames /\ "disable" \in StepNames /\ "await" \in StepNames
  BY DEF StepNames
<1>1. /\ s1 \in Seq(CallSteps) /\ Len(s1) = 1
      /\ s1[1] = [do |-> "stop", arg |-> 0]
  BY <1>0, FirstStep
<1> HIDE DEF s1
<1>2. /\ s2 \in Seq(CallSteps) /\ Len(s2) = 2
      /\ s2[1] = [do |-> "stop", arg |-> 0]
      /\ s2[2] = [do |-> "join", arg |-> 0]
  <2>1. /\ s2 \in Seq(CallSteps) /\ Len(s2) = Len(s1) + 1
        /\ \A i \in 1 .. Len(s1) : s2[i] = s1[i]
        /\ s2[Len(s1) + 1] = [do |-> "join", arg |-> 0]
    <3>1. s1 \in Seq(CallSteps)
      BY <1>1
    <3> QED  BY AddStep, <1>0, <3>1
  <2> HIDE DEF s2
  <2> QED  BY <2>1, <1>1
<1> HIDE DEF s2
<1>3. /\ s3 \in Seq(CallSteps) /\ Len(s3) = 3
      /\ s3[1] = [do |-> "stop", arg |-> 0]
      /\ s3[2] = [do |-> "join", arg |-> 0]
      /\ s3[3] = [do |-> "handleOrDone", arg |-> 0]
  <2>1. /\ s3 \in Seq(CallSteps) /\ Len(s3) = Len(s2) + 1
        /\ \A i \in 1 .. Len(s2) : s3[i] = s2[i]
        /\ s3[Len(s2) + 1] = [do |-> "handleOrDone", arg |-> 0]
    <3>1. s2 \in Seq(CallSteps)
      BY <1>2
    <3> QED  BY AddStep, <1>0, <3>1
  <2> HIDE DEF s3
  <2> QED  BY <2>1, <1>2
<1> HIDE DEF s3
<1>4. /\ s4 \in Seq(CallSteps) /\ Len(s4) = 4
      /\ s4[1] = [do |-> "stop", arg |-> 0]
      /\ s4[2] = [do |-> "join", arg |-> 0]
      /\ s4[3] = [do |-> "handleOrDone", arg |-> 0]
      /\ s4[4] = [do |-> "disable", arg |-> 0]
  <2>1. /\ s4 \in Seq(CallSteps) /\ Len(s4) = Len(s3) + 1
        /\ \A i \in 1 .. Len(s3) : s4[i] = s3[i]
        /\ s4[Len(s3) + 1] = [do |-> "disable", arg |-> 0]
    <3>1. s3 \in Seq(CallSteps)
      BY <1>3
    <3> QED  BY AddStep, <1>0, <3>1
  <2> HIDE DEF s4
  <2> QED  BY <2>1, <1>3
<1> HIDE DEF s4
<1>5. /\ s5 \in Seq(CallSteps) /\ Len(s5) = 5
      /\ s5[1] = [do |-> "stop", arg |-> 0]
      /\ s5[2] = [do |-> "join", arg |-> 0]
      /\ s5[3] = [do |-> "handleOrDone", arg |-> 0]
      /\ s5[4] = [do |-> "disable", arg |-> 0]
      /\ s5[5] = [do |-> "await", arg |-> 0]
  <2>1. /\ s5 \in Seq(CallSteps) /\ Len(s5) = Len(s4) + 1
        /\ \A i \in 1 .. Len(s4) : s5[i] = s4[i]
        /\ s5[Len(s4) + 1] = [do |-> "await", arg |-> 0]
    <3>1. s4 \in Seq(CallSteps)
      BY <1>4
    <3> QED  BY AddStep, <1>0, <3>1
  <2> HIDE DEF s5
  <2> QED  BY <2>1, <1>4
<1> HIDE DEF s5
<1>a. 1 .. Len(s5) = {1, 2, 3, 4, 5}
  BY <1>5
<1>b. DisableAfterJoin(s5)
  BY <1>5, <1>a DEF DisableAfterJoin
<1>c. CloseAfterDisable(s5)
  BY <1>5, <1>a DEF CloseAfterDisable
<1>d. Blocks(s5)
  BY <1>5, <1>a DEF Blocks
<1>e. IsCall(s5)
  BY <1>5, <1>b, <1>c, <1>d DEF IsCall
<1> QED  BY <1>e DEF Disable, StopLoop, s1, s2, s3, s4, s5

(* set_zero() turns the motor off before it writes the zero. *)
LEMMA SetZeroIsCall == IsCall(SetZero)
<1> DEFINE s1 == Step("handleOrDone", 0)
           s2 == s1 \o Step("zeroOff", 0)
           s3 == s2 \o Step("zero", 0)
<1>0. "handleOrDone" \in StepNames /\ "zeroOff" \in StepNames /\ "zero" \in StepNames
  BY DEF StepNames
<1>1. /\ s1 \in Seq(CallSteps) /\ Len(s1) = 1
      /\ s1[1] = [do |-> "handleOrDone", arg |-> 0]
  BY <1>0, FirstStep
<1> HIDE DEF s1
<1>2. /\ s2 \in Seq(CallSteps) /\ Len(s2) = 2
      /\ s2[1] = [do |-> "handleOrDone", arg |-> 0]
      /\ s2[2] = [do |-> "zeroOff", arg |-> 0]
  <2>1. /\ s2 \in Seq(CallSteps) /\ Len(s2) = Len(s1) + 1
        /\ \A i \in 1 .. Len(s1) : s2[i] = s1[i]
        /\ s2[Len(s1) + 1] = [do |-> "zeroOff", arg |-> 0]
    <3>1. s1 \in Seq(CallSteps)
      BY <1>1
    <3> QED  BY AddStep, <1>0, <3>1
  <2> HIDE DEF s2
  <2> QED  BY <2>1, <1>1
<1> HIDE DEF s2
<1>3. /\ s3 \in Seq(CallSteps) /\ Len(s3) = 3
      /\ s3[1] = [do |-> "handleOrDone", arg |-> 0]
      /\ s3[2] = [do |-> "zeroOff", arg |-> 0]
      /\ s3[3] = [do |-> "zero", arg |-> 0]
  <2>1. /\ s3 \in Seq(CallSteps) /\ Len(s3) = Len(s2) + 1
        /\ \A i \in 1 .. Len(s2) : s3[i] = s2[i]
        /\ s3[Len(s2) + 1] = [do |-> "zero", arg |-> 0]
    <3>1. s2 \in Seq(CallSteps)
      BY <1>2
    <3> QED  BY AddStep, <1>0, <3>1
  <2> HIDE DEF s3
  <2> QED  BY <2>1, <1>2
<1> HIDE DEF s3
<1>a. 1 .. Len(s3) = {1, 2, 3}
  BY <1>3
<1>b. DisableAfterJoin(s3)
  BY <1>3, <1>a DEF DisableAfterJoin
<1>c. CloseAfterDisable(s3)
  BY <1>3, <1>a DEF CloseAfterDisable
<1>d. Blocks(s3)
  BY <1>3, <1>a DEF Blocks
<1>e. IsCall(s3)
  BY <1>3, <1>b, <1>c, <1>d DEF IsCall
<1> QED  BY <1>e DEF SetZero, s1, s2, s3

(* close() disables before it drops the session. *)
LEMMA CloseIsCall == IsCall(Close)
<1> DEFINE s1 == Step("stop", 0)
           s2 == s1 \o Step("join", 0)
           s3 == s2 \o Step("disable", 1)
           s4 == s3 \o Step("closeSession", 0)
           s5 == s4 \o Step("drop", 0)
<1>0. "stop" \in StepNames /\ "join" \in StepNames /\ "disable" \in StepNames /\ "closeSession" \in StepNames /\ "drop" \in StepNames
  BY DEF StepNames
<1>1. /\ s1 \in Seq(CallSteps) /\ Len(s1) = 1
      /\ s1[1] = [do |-> "stop", arg |-> 0]
  BY <1>0, FirstStep
<1> HIDE DEF s1
<1>2. /\ s2 \in Seq(CallSteps) /\ Len(s2) = 2
      /\ s2[1] = [do |-> "stop", arg |-> 0]
      /\ s2[2] = [do |-> "join", arg |-> 0]
  <2>1. /\ s2 \in Seq(CallSteps) /\ Len(s2) = Len(s1) + 1
        /\ \A i \in 1 .. Len(s1) : s2[i] = s1[i]
        /\ s2[Len(s1) + 1] = [do |-> "join", arg |-> 0]
    <3>1. s1 \in Seq(CallSteps)
      BY <1>1
    <3> QED  BY AddStep, <1>0, <3>1
  <2> HIDE DEF s2
  <2> QED  BY <2>1, <1>1
<1> HIDE DEF s2
<1>3. /\ s3 \in Seq(CallSteps) /\ Len(s3) = 3
      /\ s3[1] = [do |-> "stop", arg |-> 0]
      /\ s3[2] = [do |-> "join", arg |-> 0]
      /\ s3[3] = [do |-> "disable", arg |-> 1]
  <2>1. /\ s3 \in Seq(CallSteps) /\ Len(s3) = Len(s2) + 1
        /\ \A i \in 1 .. Len(s2) : s3[i] = s2[i]
        /\ s3[Len(s2) + 1] = [do |-> "disable", arg |-> 1]
    <3>1. s2 \in Seq(CallSteps)
      BY <1>2
    <3> QED  BY AddStep, <1>0, <3>1
  <2> HIDE DEF s3
  <2> QED  BY <2>1, <1>2
<1> HIDE DEF s3
<1>4. /\ s4 \in Seq(CallSteps) /\ Len(s4) = 4
      /\ s4[1] = [do |-> "stop", arg |-> 0]
      /\ s4[2] = [do |-> "join", arg |-> 0]
      /\ s4[3] = [do |-> "disable", arg |-> 1]
      /\ s4[4] = [do |-> "closeSession", arg |-> 0]
  <2>1. /\ s4 \in Seq(CallSteps) /\ Len(s4) = Len(s3) + 1
        /\ \A i \in 1 .. Len(s3) : s4[i] = s3[i]
        /\ s4[Len(s3) + 1] = [do |-> "closeSession", arg |-> 0]
    <3>1. s3 \in Seq(CallSteps)
      BY <1>3
    <3> QED  BY AddStep, <1>0, <3>1
  <2> HIDE DEF s4
  <2> QED  BY <2>1, <1>3
<1> HIDE DEF s4
<1>5. /\ s5 \in Seq(CallSteps) /\ Len(s5) = 5
      /\ s5[1] = [do |-> "stop", arg |-> 0]
      /\ s5[2] = [do |-> "join", arg |-> 0]
      /\ s5[3] = [do |-> "disable", arg |-> 1]
      /\ s5[4] = [do |-> "closeSession", arg |-> 0]
      /\ s5[5] = [do |-> "drop", arg |-> 0]
  <2>1. /\ s5 \in Seq(CallSteps) /\ Len(s5) = Len(s4) + 1
        /\ \A i \in 1 .. Len(s4) : s5[i] = s4[i]
        /\ s5[Len(s4) + 1] = [do |-> "drop", arg |-> 0]
    <3>1. s4 \in Seq(CallSteps)
      BY <1>4
    <3> QED  BY AddStep, <1>0, <3>1
  <2> HIDE DEF s5
  <2> QED  BY <2>1, <1>4
<1> HIDE DEF s5
<1>a. 1 .. Len(s5) = {1, 2, 3, 4, 5}
  BY <1>5
<1>b. DisableAfterJoin(s5)
  BY <1>5, <1>a DEF DisableAfterJoin
<1>c. CloseAfterDisable(s5)
  BY <1>5, <1>a DEF CloseAfterDisable
<1>d. Blocks(s5)
  BY <1>5, <1>a DEF Blocks
<1>e. IsCall(s5)
  BY <1>5, <1>b, <1>c, <1>d DEF IsCall
<1> QED  BY <1>e DEF Close, StopLoop, s1, s2, s3, s4, s5

(* The calls that stop, zero and close nothing. *)
LEMMA PlainCalls ==
  /\ \A pos \in Int : Command(pos) \in Plain /\ PosVel(pos) \in Plain
  /\ Enable \in Plain /\ GetState \in Plain /\ Mode \in Plain
  /\ StopLoop \in Plain
<1>1. /\ "handle" \in PlainNames /\ "send" \in PlainNames
      /\ "poll" \in PlainNames /\ "torque" \in PlainNames
      /\ "direction" \in PlainNames /\ "hold" \in PlainNames
      /\ "enable" \in PlainNames /\ "await" \in PlainNames
      /\ "mode" \in PlainNames /\ "stop" \in PlainNames
      /\ "join" \in PlainNames
  BY DEF PlainNames, StepNames
<1>2. ASSUME NEW pos \in Int
      PROVE  Command(pos) \in Plain
  BY <1>1, PlainStep, PlainJoin DEF Command
<1>3. ASSUME NEW pos \in Int
      PROVE  PosVel(pos) \in Plain
  BY <1>1, <1>2, PlainStep, PlainJoin DEF PosVel
<1>4. Enable \in Plain
  BY <1>1, PlainStep, PlainJoin DEF Enable
<1>5. GetState \in Plain
  BY <1>1, PlainStep, PlainJoin DEF GetState
<1>6. Mode \in Plain /\ StopLoop \in Plain
  BY <1>1, PlainStep, PlainJoin DEF Mode, StopLoop
<1> QED  BY <1>2, <1>3, <1>4, <1>5, <1>6

(* Every call that the application makes is a call in the sense above. *)
LEMMA AppCallsAreCalls == \A c \in AppCalls : IsCall(c)
<1>1. Open \in Int /\ Closed \in Int
  BY ConstantsAssumption DEF Open, Closed
<1>2. /\ "connect" \in PlainNames /\ "start" \in PlainNames
      /\ "handle" \in PlainNames
  BY DEF PlainNames, StepNames
<1>3. /\ IsCall(Enable) /\ IsCall(GetState) /\ IsCall(Mode)
      /\ IsCall(StopLoop) /\ IsCall(Command(Open)) /\ IsCall(Command(Closed))
      /\ IsCall(PosVel(Open)) /\ IsCall(PosVel(Closed))
  BY PlainCalls, PlainIsCall, <1>1
<1>4. /\ IsCall(Step("connect", 0)) /\ IsCall(Step("start", 0))
      /\ IsCall(Step("handle", 0))
  BY <1>2, PlainStep, PlainIsCall
<1>5. IsCall(Calibrate)
  <2> DEFINE s1 == Step("handle", 0) \o Mode
             s2 == s1 \o Command(Open)
             s3 == s2 \o GetState
             s4 == s3 \o Disable
             s5 == s4 \o SetZero
             s6 == s5 \o Enable
             s7 == s6 \o Mode
             s8 == s7 \o Command(Closed)
             s9 == s8 \o GetState
  <2>1. IsCall(s1)  BY <1>3, <1>4, CallJoin
  <2> HIDE DEF s1
  <2>2. IsCall(s2)  BY <2>1, <1>3, CallJoin
  <2> HIDE DEF s2
  <2>3. IsCall(s3)  BY <2>2, <1>3, CallJoin
  <2> HIDE DEF s3
  <2>4. IsCall(s4)  BY <2>3, DisableIsCall, CallJoin
  <2> HIDE DEF s4
  <2>5. IsCall(s5)  BY <2>4, SetZeroIsCall, CallJoin
  <2> HIDE DEF s5
  <2>6. IsCall(s6)  BY <2>5, <1>3, CallJoin
  <2> HIDE DEF s6
  <2>7. IsCall(s7)  BY <2>6, <1>3, CallJoin
  <2> HIDE DEF s7
  <2>8. IsCall(s8)  BY <2>7, <1>3, CallJoin
  <2> HIDE DEF s8
  <2>9. IsCall(s9)  BY <2>8, <1>3, CallJoin
  <2> HIDE DEF s9
  <2> QED  BY <2>9 DEF Calibrate, s1, s2, s3, s4, s5, s6, s7, s8, s9
<1> QED
  BY <1>3, <1>4, <1>5, DisableIsCall, SetZeroIsCall, CloseIsCall
     DEF AppCalls, SetVel

-----------------------------------------------------------------------------
(***************************************************************************)
(* What is left of a call stays well formed.                               *)
(***************************************************************************)
IsRest(s) == s \in Seq(CallSteps) /\ CloseAfterDisable(s) /\ Blocks(s)

(* What is left of a call after its next step is the rest of a call. *)
LEMMA TailIsRest ==
  ASSUME NEW s, IsRest(s), s # <<>>
  PROVE  /\ IsRest(Tail(s))
         /\ DisableAfterJoin(s) /\ Head(s).do # "join" =>
              DisableAfterJoin(Tail(s))
         /\ Tail(s) # <<>> /\ Head(Tail(s)).do = "closeSession" =>
              Head(s) = [do |-> "disable", arg |-> 1]
         /\ Head(s).do = "zeroOff" =>
              Tail(s) # <<>> /\ Head(Tail(s)).do = "zero"
         /\ Head(s).do = "handleOrDone" =>
              /\ Len(s) >= 3
              /\ Tail(s) # <<>> /\ Head(Tail(s)).do \in {"disable", "zeroOff"}
              /\ Tail(Tail(s)) # <<>>
              /\ Head(Tail(Tail(s))).do \in {"await", "zero"}
<1> DEFINE r == Tail(s)
<1>1. /\ s \in Seq(CallSteps) /\ r \in Seq(CallSteps)
      /\ Len(s) \in Nat /\ Len(r) = Len(s) - 1 /\ Len(s) >= 1
      /\ \A i \in 1 .. Len(r) : r[i] = s[i + 1]
      /\ Head(s) = s[1] /\ (r # <<>> => Head(r) = r[1])
      /\ r # <<>> <=> Len(s) >= 2
  BY DEF IsRest
<1>2. Len(s) >= 3 => Tail(r) # <<>> /\ Head(Tail(r)) = s[3]
  <2> HIDE DEF r
  <2>1. Len(s) >= 3 =>
          /\ Len(r) >= 2 /\ r # <<>> /\ r[2] = s[3]
          /\ Tail(r) \in Seq(CallSteps) /\ Len(Tail(r)) = Len(r) - 1
          /\ Tail(r)[1] = r[2]
    BY <1>1
  <2>2. ASSUME NEW q \in Seq(CallSteps), Len(q) >= 1
        PROVE  q # <<>> /\ Head(q) = q[1]
    BY <2>2
  <2>3. Len(s) >= 3 => Len(Tail(r)) >= 1
    BY <2>1, <1>1
  <2> QED  BY <2>1, <2>2, <2>3
<1> HIDE DEF r
<1>3. CloseAfterDisable(r)
  <2> SUFFICES ASSUME NEW i \in 2 .. Len(r), r[i].do = "closeSession"
               PROVE  r[i - 1] = [do |-> "disable", arg |-> 1]
    BY DEF CloseAfterDisable
  <2>1. /\ i + 1 \in 2 .. Len(s) /\ (i + 1) - 1 = i
        /\ r[i] = s[i + 1] /\ r[i - 1] = s[i]
    BY <1>1
  <2> DEFINE k == i + 1
  <2>2. k \in 2 .. Len(s) /\ s[k].do = "closeSession"
    BY <2>1
  <2>3. s[k - 1] = [do |-> "disable", arg |-> 1]
    <3> HIDE DEF k
    <3> QED  BY <2>2 DEF IsRest, CloseAfterDisable
  <2> QED  BY <2>1, <2>3
<1>4. Blocks(r)
  <2> SUFFICES ASSUME NEW i \in 1 .. Len(r)
               PROVE  /\ r[i].do = "handleOrDone" =>
                           /\ i + 2 <= Len(r)
                           /\ r[i + 1].do \in {"disable", "zeroOff"}
                           /\ r[i + 2].do \in {"await", "zero"}
                      /\ r[i].do = "zeroOff" =>
                           i + 1 <= Len(r) /\ r[i + 1].do = "zero"
    BY DEF Blocks
  <2> DEFINE k == i + 1
  <2>1. k \in 1 .. Len(s) /\ r[i] = s[k]
    BY <1>1
  <2>2. /\ k + 1 <= Len(s) => i + 1 <= Len(r) /\ r[i + 1] = s[k + 1]
        /\ k + 2 <= Len(s) =>
             /\ i + 2 <= Len(r)
             /\ r[i + 1] = s[k + 1] /\ r[i + 2] = s[k + 2]
    <3>1. /\ k + 1 <= Len(s) => i + 1 \in 1 .. Len(r)
          /\ k + 2 <= Len(s) => i + 1 \in 1 .. Len(r) /\ i + 2 \in 1 .. Len(r)
          /\ (i + 1) + 1 = k + 1 /\ (i + 2) + 1 = k + 2
      BY <1>1
    <3> QED  BY <3>1, <1>1
  <2>3. /\ s[k].do = "handleOrDone" =>
              /\ k + 2 <= Len(s)
              /\ s[k + 1].do \in {"disable", "zeroOff"}
              /\ s[k + 2].do \in {"await", "zero"}
        /\ s[k].do = "zeroOff" => k + 1 <= Len(s) /\ s[k + 1].do = "zero"
    BY <2>1 DEF IsRest, Blocks
  <2> QED  BY <2>1, <2>2, <2>3
<1>5. ASSUME DisableAfterJoin(s), Head(s).do # "join"
      PROVE  DisableAfterJoin(r)
  <2> SUFFICES ASSUME NEW i \in 1 .. Len(r), r[i].do = "disable"
               PROVE  \E k \in 1 .. i - 1 : r[k].do = "join"
    BY DEF DisableAfterJoin
  <2>1. i + 1 \in 1 .. Len(s) /\ s[i + 1].do = "disable" /\ (i + 1) - 1 = i
    BY <1>1
  <2>2. PICK k \in 1 .. i : s[k].do = "join"
    BY <2>1, <1>5 DEF DisableAfterJoin
  <2>3. k # 1
    BY <2>2, <1>5, <1>1
  <2>4. /\ k - 1 \in 1 .. i - 1 /\ k - 1 \in 1 .. Len(r)
        /\ (k - 1) + 1 = k
    BY <2>2, <2>3, <1>1
  <2> QED  BY <2>2, <2>4, <1>1
<1>6. ASSUME r # <<>>, Head(r).do = "closeSession"
      PROVE  Head(s) = [do |-> "disable", arg |-> 1]
  <2>1. 2 \in 2 .. Len(s) /\ s[2].do = "closeSession" /\ 2 - 1 = 1
    BY <1>1, <1>6
  <2>2. s[1] = [do |-> "disable", arg |-> 1]
    BY <2>1 DEF IsRest, CloseAfterDisable
  <2> QED  BY <2>2, <1>1
<1>7. 1 \in 1 .. Len(s) /\ 1 + 1 = 2 /\ 1 + 2 = 3
  BY <1>1
<1>8. /\ s[1].do = "handleOrDone" =>
            /\ 3 <= Len(s)
            /\ s[2].do \in {"disable", "zeroOff"}
            /\ s[3].do \in {"await", "zero"}
      /\ s[1].do = "zeroOff" => 2 <= Len(s) /\ s[2].do = "zero"
  BY <1>7 DEF IsRest, Blocks
<1>9. Len(s) >= 2 => r[1] = s[2]
  BY <1>1
<1> QED
  BY <1>1, <1>2, <1>3, <1>4, <1>5, <1>6, <1>8, <1>9 DEF IsRest, r

(* Passing over the block that starts with handleOrDone. *)
LEMMA SkipIsTail ==
  ASSUME NEW s \in Seq(CallSteps), Len(s) >= 3
  PROVE  SubSeq(s, 4, Len(s)) = Tail(Tail(Tail(s)))
<1> DEFINE a == Tail(s)
           b == Tail(a)
           c == Tail(b)
           d == SubSeq(s, 4, Len(s))
<1>1. /\ a \in Seq(CallSteps) /\ Len(a) = Len(s) - 1 /\ Len(s) \in Nat
      /\ \A i \in 1 .. Len(a) : a[i] = s[i + 1]
  BY DEF a
<1>2. /\ d \in Seq(CallSteps) /\ Len(d) = Len(s) - 3
      /\ \A i \in 1 .. Len(d) : d[i] = s[i + 3]
  BY <1>1
<1> HIDE DEF a, d
<1>3. /\ b \in Seq(CallSteps) /\ Len(b) = Len(s) - 2
      /\ \A i \in 1 .. Len(b) : b[i] = a[i + 1]
  BY <1>1 DEF b
<1> HIDE DEF b
<1>4. /\ c \in Seq(CallSteps) /\ Len(c) = Len(s) - 3
      /\ \A i \in 1 .. Len(c) : c[i] = b[i + 1]
  BY <1>1, <1>3 DEF c
<1> HIDE DEF c
<1>5. ASSUME NEW i \in 1 .. Len(c)
      PROVE  c[i] = d[i]
  <2>1. /\ i + 1 \in 1 .. Len(b) /\ i + 2 \in 1 .. Len(a)
        /\ i \in 1 .. Len(d)
        /\ (i + 1) + 1 = i + 2 /\ (i + 2) + 1 = i + 3
    BY <1>1, <1>2, <1>3, <1>4
  <2>2. c[i] = b[i + 1] /\ b[i + 1] = a[i + 2] /\ a[i + 2] = s[i + 3]
    BY <2>1, <1>1, <1>3, <1>4
  <2> QED  BY <2>1, <2>2, <1>2
<1>6. c = d
  BY <1>2, <1>4, <1>5, SeqEqual
<1> QED  BY <1>6 DEF a, b, c, d

-----------------------------------------------------------------------------
(***************************************************************************)
(* The inductive invariant.                                                *)
(***************************************************************************)
TypeOK ==
  /\ session \in [controller : BOOLEAN, joint : BOOLEAN]
  /\ thread \subseteq Workers /\ alive \subseteq Workers
  /\ givenUp \subseteq Workers
  /\ quiet \in BOOLEAN /\ handle \in BOOLEAN /\ asked \in BOOLEAN
  /\ todo \in [Threads -> Seq(CallSteps)]
  /\ motor \in [on : BOOLEAN, pos : Contact .. MaxPos, target : Int,
                zero : Contact .. MaxPos \cup {0}]
  /\ fb \in [on : BOOLEAN, pos : Int, torque : {-1, 0, 1}]
  /\ failed \in Int

(* A thread of the loop that runs is the one of the object, or one whose   *)
(* join timed out.                                                         *)
ThreadsKnown == alive \subseteq thread \cup givenUp

(* After a disable() that waited for every thread, no thread runs. *)
QuietIsStopped == quiet => alive = {}

(* A thread that has come to its end does nothing more. *)
DeadAreIdle == \A w \in Workers : w \notin alive => todo[w] = <<>>

(* What the call of the application still has to do. *)
AppCall ==
  /\ IsRest(todo[App])
  /\ thread = {} \/ DisableAfterJoin(todo[App])

(* When close() closes the session, its disable_all() is behind it. *)
AtClosing ==
  At(App, "closeSession") /\ session.controller => ~motor.on \/ failed = 1

JointNeedsController == session.joint => session.controller

Inv ==
  /\ TypeOK /\ ThreadsKnown /\ QuietIsStopped /\ DeadAreIdle
  /\ AppCall /\ AtClosing /\ JointNeedsController /\ ClosedIsOff

(* So is nothing. *)
LEMMA EmptyIsRest ==
  IsRest(<<>>) /\ DisableAfterJoin(<<>>)
BY DEF IsRest, CloseAfterDisable, Blocks, DisableAfterJoin

(* A gripper that was just made. *)
LEMMA InitInv == Init => Inv
<1> SUFFICES ASSUME Init PROVE Inv
  OBVIOUS
<1> USE ConstantsAssumption DEF Init
<1>1. TypeOK
  <2>1. /\ MaxPos \in Contact .. MaxPos /\ MaxPos \in Int
        /\ 0 \in Contact .. MaxPos \cup {0}
    OBVIOUS
  <2>2. /\ motor \in [on : BOOLEAN, pos : Contact .. MaxPos, target : Int,
                     zero : Contact .. MaxPos \cup {0}]
        /\ fb \in [on : BOOLEAN, pos : Int, torque : {-1, 0, 1}]
    BY <2>1
  <2>3. <<>> \in Seq(CallSteps)
    OBVIOUS
  <2>4. todo \in [Threads -> Seq(CallSteps)]
    BY <2>3
  <2>5. session \in [controller : BOOLEAN, joint : BOOLEAN]
    OBVIOUS
  <2>6. /\ thread \subseteq Workers /\ alive \subseteq Workers
        /\ givenUp \subseteq Workers
        /\ failed \in Int
    OBVIOUS
  <2>7. quiet \in BOOLEAN /\ handle \in BOOLEAN /\ asked \in BOOLEAN
    OBVIOUS
  <2> QED  BY ONLY <2>2, <2>4, <2>5, <2>6, <2>7 DEF TypeOK
<1>2. todo[App] = <<>>
  BY DEF Threads
<1>3. AppCall /\ AtClosing
  BY <1>2, EmptyIsRest DEF AppCall, AtClosing, At
<1>4. ThreadsKnown /\ QuietIsStopped /\ JointNeedsController /\ ClosedIsOff
  BY DEF ThreadsKnown, QuietIsStopped, JointNeedsController, ClosedIsOff
<1>5. DeadAreIdle
  BY DEF DeadAreIdle, Threads
<1> QED  BY <1>1, <1>3, <1>4, <1>5 DEF Inv

(* The step of a thread that goes on to what is left of its call. *)
LEMMA GoTodo ==
  ASSUME Inv, NEW p \in Threads, todo[p] # <<>>, Go(p)
  PROVE  /\ todo' \in [Threads -> Seq(CallSteps)]
         /\ \A q \in Threads : q # p => todo'[q] = todo[q]
         /\ todo'[p] = Tail(todo[p])
<1>1. todo[p] \in Seq(CallSteps) /\ todo \in [Threads -> Seq(CallSteps)]
  BY DEF Inv, TypeOK
<1>2. Tail(todo[p]) \in Seq(CallSteps)
  BY <1>1
<1> QED  BY <1>1, <1>2 DEF Go

(* A call that ends leaves no steps to its thread. *)
LEMMA ReturnTodo ==
  ASSUME Inv, NEW p \in Threads, Return(p)
  PROVE  /\ todo' \in [Threads -> Seq(CallSteps)]
         /\ \A q \in Threads : q # p => todo'[q] = todo[q]
         /\ todo'[p] = <<>>
<1>1. todo \in [Threads -> Seq(CallSteps)] /\ <<>> \in Seq(CallSteps)
  BY DEF Inv, TypeOK
<1> QED  BY <1>1 DEF Return

(* The application goes on, and does not just wait for its thread. *)
LEMMA AppGoes ==
  ASSUME Inv, todo[App] # <<>>, Go(App)
  PROVE  /\ IsRest(todo'[App])
         /\ Head(todo[App]).do # "join" /\ thread' = thread =>
              thread' = {} \/ DisableAfterJoin(todo'[App])
         /\ At(App, "closeSession")' =>
              Head(todo[App]) = [do |-> "disable", arg |-> 1]
<1>1. App \in Threads
  BY DEF Threads
<1>2. todo'[App] = Tail(todo[App])
  BY <1>1, GoTodo
<1>3. IsRest(todo[App]) /\ (thread = {} \/ DisableAfterJoin(todo[App]))
  BY DEF Inv, AppCall
<1> QED  BY <1>2, <1>3, TailIsRest DEF At

(* A call of the application that ends, or raises, leaves what the         *)
(* invariant says of calls true.                                           *)
LEMMA AppReturns ==
  ASSUME Inv, Return(App)
  PROVE  AppCall' /\ AtClosing'
<1>1. todo'[App] = <<>>
  BY ReturnTodo DEF Threads
<1> QED  BY <1>1, EmptyIsRest DEF AppCall, AtClosing, At

(* A step of a running worker, or of the application, within a call.       *)
LEMMA PosVelStepPost ==
  ASSUME Inv, NEW p \in Threads, PosVelStep(p)
  PROVE  /\ UNCHANGED <<objectVars, history>>
         /\ motor' \in [on : BOOLEAN, pos : Contact .. MaxPos, target : Int,
                        zero : Contact .. MaxPos \cup {0}]
         /\ motor'.on = motor.on
         /\ asked' \in BOOLEAN /\ UNCHANGED fb
         /\ todo[p] # <<>>
         /\ Head(todo[p]).do \in
              {"handle", "send", "poll", "torque", "direction", "hold"}
         /\ Go(p) \/ Return(p)
<1>1. /\ motor \in [on : BOOLEAN, pos : Contact .. MaxPos, target : Int,
                    zero : Contact .. MaxPos \cup {0}]
      /\ fb.pos \in Int /\ motor.zero \in Int
      /\ asked \in BOOLEAN /\ handle \in BOOLEAN
  BY ConstantsAssumption DEF Inv, TypeOK
<1>2. todo[p] # <<>> => Arg(p) \in Int
  <2>1. todo[p] \in Seq(CallSteps)
    BY DEF Inv, TypeOK
  <2>2. todo[p] # <<>> => Head(todo[p]) \in CallSteps
    BY <2>1
  <2> QED  BY <2>2 DEF Arg, CallSteps
<1>3. CASE NeedHandle(p)
  BY <1>1, <1>3 DEF NeedHandle, At, objectVars, busVars, history
<1>4. CASE Send(p)
  <2>1. todo[p] # <<>> /\ Head(todo[p]).do = "send"
    BY <1>4 DEF Send, At
  <2>2. Arg(p) + motor.zero \in Int
    BY <2>1, <1>1, <1>2
  <2>3. UNCHANGED <<objectVars, history>> /\ UNCHANGED <<asked, fb>>
    BY <1>4 DEF Send, Raise, busVars
  <2>4. motor' = [motor EXCEPT !.target = Arg(p) + motor.zero] \/ motor' = motor
    BY <1>4 DEF Send, Raise, busVars
  <2>5. Go(p) \/ Return(p)
    BY <1>4 DEF Send, Raise
  <2> QED  BY <1>1, <2>1, <2>2, <2>3, <2>4, <2>5
<1>5. CASE Poll(p)
  BY <1>1, <1>5 DEF Poll, At
<1>6. CASE CheckTorque(p)
  BY <1>1, <1>6 DEF CheckTorque, At, objectVars, busVars, history
<1>7. CASE CheckDirection(p)
  BY <1>1, <1>7 DEF CheckDirection, At, objectVars, busVars, history
<1>8. CASE Hold(p)
  <2>1. todo[p] # <<>> /\ Head(todo[p]).do = "hold"
    BY <1>8 DEF Hold, At
  <2>2. fb.pos + motor.zero \in Int
    BY <1>1
  <2>3. UNCHANGED <<objectVars, history>> /\ UNCHANGED <<asked, fb>>
    BY <1>8 DEF Hold, Raise, busVars
  <2>4. motor' = [motor EXCEPT !.target = fb.pos + motor.zero] \/ motor' = motor
    BY <1>8 DEF Hold, Raise, busVars
  <2>5. Go(p) \/ Return(p)
    BY <1>8 DEF Hold, Raise
  <2> QED  BY <1>1, <2>1, <2>2, <2>3, <2>4, <2>5
<1> QED
  BY <1>3, <1>4, <1>5, <1>6, <1>7, <1>8 DEF PosVelStep

(* A step of a thread that leaves everything but its call alone, the       *)
(* target of the motor and the request on the bus.                         *)
LEMMA QuietKeepsInv ==
  ASSUME Inv,
         UNCHANGED <<session, thread, alive, givenUp, quiet, failed, handle>>,
         todo' \in [Threads -> Seq(CallSteps)],
         \A w \in Workers : w \notin alive => todo'[w] = todo[w],
         motor' \in [on : BOOLEAN, pos : Contact .. MaxPos, target : Int,
                     zero : Contact .. MaxPos \cup {0}],
         motor'.on => motor.on,
         asked' \in BOOLEAN,
         fb' \in [on : BOOLEAN, pos : Int, torque : {-1, 0, 1}],
         AppCall', AtClosing'
  PROVE  Inv'
<1>1. TypeOK'
  BY DEF Inv, TypeOK
<1>2. ThreadsKnown' /\ QuietIsStopped' /\ JointNeedsController' /\ ClosedIsOff'
  BY DEF Inv, ThreadsKnown, QuietIsStopped, JointNeedsController, ClosedIsOff
<1>3. DeadAreIdle'
  BY DEF Inv, DeadAreIdle
<1> QED  BY <1>1, <1>2, <1>3 DEF Inv

(* One step of commanding a position, by a call or by the loop. *)
LEMMA PosVelStepInv ==
  ASSUME Inv, NEW p \in Threads, p = App \/ p \in alive, PosVelStep(p)
  PROVE  Inv'
<1>1. /\ UNCHANGED <<session, thread, alive, givenUp, quiet, failed, handle>>
      /\ motor'.on = motor.on /\ UNCHANGED fb
      /\ todo[p] # <<>> /\ Head(todo[p]).do # "join"
      /\ Head(todo[p]).do # "disable"
      /\ Go(p) \/ Return(p)
  BY PosVelStepPost DEF objectVars, history
<1>2. /\ motor' \in [on : BOOLEAN, pos : Contact .. MaxPos, target : Int,
                     zero : Contact .. MaxPos \cup {0}]
      /\ asked' \in BOOLEAN
      /\ fb' \in [on : BOOLEAN, pos : Int, torque : {-1, 0, 1}]
  BY PosVelStepPost DEF Inv, TypeOK
<1>3. /\ todo' \in [Threads -> Seq(CallSteps)]
      /\ \A q \in Threads : q # p => todo'[q] = todo[q]
  BY <1>1, GoTodo, ReturnTodo
<1>4. \A w \in Workers : w \notin alive => todo'[w] = todo[w]
  BY <1>3, ConstantsAssumption DEF Threads
<1>5. AppCall' /\ AtClosing'
  <2>1. CASE p = App /\ Return(p)
    BY <2>1, AppReturns
  <2>2. CASE p = App /\ Go(p)
    <3>1. /\ IsRest(todo'[App])
          /\ thread' = {} \/ DisableAfterJoin(todo'[App])
      BY <2>2, <1>1, AppGoes
    <3>2. ~At(App, "closeSession")'
      <4>1. Head(todo[App]) # [do |-> "disable", arg |-> 1]
        BY <2>2, <1>1
      <4> QED  BY <4>1, <2>2, <1>1, AppGoes
    <3> QED  BY <3>1, <3>2 DEF AppCall, AtClosing
  <2>3. CASE p # App
    <3>1. todo'[App] = todo[App]
      BY <2>3, <1>3 DEF Threads
    <3> QED  BY <3>1, <1>1 DEF Inv, AppCall, AtClosing, At
  <2> QED  BY <2>1, <2>2, <2>3, <1>1
<1> QED  BY <1>1, <1>2, <1>3, <1>4, <1>5, QuietKeepsInv

(* A step of the application that goes on without touching the loop.       *)
LEMMA AppGoesInv ==
  ASSUME Inv,
         todo[App] # <<>>, Head(todo[App]).do \notin {"join", "disable"},
         Go(App), UNCHANGED <<session, thread, alive, givenUp, quiet, failed,
                              handle, fb>>,
         motor' \in [on : BOOLEAN, pos : Contact .. MaxPos, target : Int,
                     zero : Contact .. MaxPos \cup {0}],
         motor'.on => motor.on,
         asked' \in BOOLEAN
  PROVE  Inv'
<1>1. App \in Threads
  BY DEF Threads
<1>2. /\ todo' \in [Threads -> Seq(CallSteps)]
      /\ \A q \in Threads : q # App => todo'[q] = todo[q]
  BY <1>1, GoTodo
<1>3. \A w \in Workers : w \notin alive => todo'[w] = todo[w]
  BY <1>2, ConstantsAssumption DEF Threads
<1>4. /\ IsRest(todo'[App])
      /\ thread' = {} \/ DisableAfterJoin(todo'[App])
  BY AppGoes
<1>5. ~At(App, "closeSession")'
  <2>1. Head(todo[App]) # [do |-> "disable", arg |-> 1]
    OBVIOUS
  <2> QED  BY <2>1, AppGoes
<1>6. AppCall' /\ AtClosing'
  BY <1>4, <1>5 DEF AppCall, AtClosing
<1>7. fb' \in [on : BOOLEAN, pos : Int, torque : {-1, 0, 1}]
  BY DEF Inv, TypeOK
<1> QED  BY <1>2, <1>3, <1>6, <1>7, QuietKeepsInv

(* ... and one that ends the call of the application.                      *)
LEMMA AppReturnsInv ==
  ASSUME Inv, Return(App),
         UNCHANGED <<session, thread, alive, givenUp, quiet, failed, handle,
                     fb, motor, asked>>
  PROVE  Inv'
<1>1. App \in Threads
  BY DEF Threads
<1>2. /\ todo' \in [Threads -> Seq(CallSteps)]
      /\ \A q \in Threads : q # App => todo'[q] = todo[q]
  BY <1>1, ReturnTodo
<1>3. \A w \in Workers : w \notin alive => todo'[w] = todo[w]
  BY <1>2, ConstantsAssumption DEF Threads
<1>4. /\ motor' \in [on : BOOLEAN, pos : Contact .. MaxPos, target : Int,
                     zero : Contact .. MaxPos \cup {0}]
      /\ motor'.on => motor.on
      /\ asked' \in BOOLEAN
      /\ fb' \in [on : BOOLEAN, pos : Int, torque : {-1, 0, 1}]
  BY DEF Inv, TypeOK
<1> QED  BY <1>2, <1>3, <1>4, AppReturns, QuietKeepsInv

(* A call begins. *)
LEMMA CallBeginInv == Inv /\ CallBegin => Inv'
<1> SUFFICES ASSUME Inv, CallBegin PROVE Inv'
  OBVIOUS
<1>1. PICK c \in AppCalls : todo' = [todo EXCEPT ![App] = c]
  BY DEF CallBegin
<1>2. IsCall(c)
  BY AppCallsAreCalls
<1>3. todo \in [Threads -> Seq(CallSteps)] /\ App \in Threads
  BY DEF Inv, TypeOK, Threads
<1>4. c \in Seq(CallSteps)
  BY <1>2 DEF IsCall
<1>5. /\ todo' \in [Threads -> Seq(CallSteps)] /\ todo'[App] = c
      /\ \A q \in Threads : q # App => todo'[q] = todo[q]
  BY <1>1, <1>3, <1>4
<1>6. \A w \in Workers : w \notin alive => todo'[w] = todo[w]
  BY <1>5, ConstantsAssumption DEF Threads
<1>7. AppCall'
  BY <1>5, <1>2 DEF AppCall, IsCall, IsRest
<1>8. ~At(App, "closeSession")'
  <2>1. c # <<>> => Head(c) = c[1]
    BY <1>4
  <2> QED  BY <2>1, <1>5, <1>2 DEF At, IsCall
<1>9. AtClosing'
  BY <1>8 DEF AtClosing
<1>10. UNCHANGED <<session, thread, alive, givenUp, quiet, failed, handle,
                   motor, asked, fb>>
  BY DEF CallBegin, objectVars, busVars
<1>11. /\ motor' \in [on : BOOLEAN, pos : Contact .. MaxPos, target : Int,
                      zero : Contact .. MaxPos \cup {0}]
       /\ motor'.on => motor.on
       /\ asked' \in BOOLEAN
       /\ fb' \in [on : BOOLEAN, pos : Int, torque : {-1, 0, 1}]
  BY <1>10 DEF Inv, TypeOK
<1> QED  BY <1>5, <1>6, <1>7, <1>9, <1>10, <1>11, QuietKeepsInv

(* A call tests for its handle, or is done. *)
LEMMA NeedHandleOrDoneInv == Inv /\ NeedHandleOrDone(App) => Inv'
<1> SUFFICES ASSUME Inv, NeedHandleOrDone(App) PROVE Inv'
  OBVIOUS
<1> DEFINE s == todo[App]
<1>1. /\ s # <<>> /\ Head(s).do = "handleOrDone"
      /\ UNCHANGED <<objectVars, busVars, history>>
  BY DEF NeedHandleOrDone, At
<1>2. /\ UNCHANGED <<session, thread, alive, givenUp, quiet, failed, handle,
                     motor, asked, fb>>
      /\ motor' \in [on : BOOLEAN, pos : Contact .. MaxPos, target : Int,
                     zero : Contact .. MaxPos \cup {0}]
      /\ motor'.on => motor.on
      /\ asked' \in BOOLEAN
      /\ fb' \in [on : BOOLEAN, pos : Int, torque : {-1, 0, 1}]
  <2>1. UNCHANGED <<session, thread, alive, givenUp, quiet, failed, handle,
                    motor, asked, fb>>
    BY <1>1 DEF objectVars, busVars, history
  <2> QED  BY <2>1 DEF Inv, TypeOK
<1>3. CASE Go(App)
  BY <1>1, <1>2, <1>3, AppGoesInv
<1>4. CASE todo' = [todo EXCEPT ![App] = SubSeq(@, 4, Len(@))]
  <2> DEFINE a == Tail(s)
             b == Tail(a)
             c == Tail(b)
  <2>1. IsRest(s) /\ (thread = {} \/ DisableAfterJoin(s))
    BY DEF Inv, AppCall
  <2> HIDE DEF s
  <2>2. /\ IsRest(a) /\ (thread = {} \/ DisableAfterJoin(a))
        /\ Len(s) >= 3
        /\ a # <<>> /\ Head(a).do \in {"disable", "zeroOff"}
        /\ b # <<>> /\ Head(b).do \in {"await", "zero"}
    BY <1>1, <2>1, TailIsRest
  <2> HIDE DEF a
  <2>3. IsRest(b) /\ (thread = {} \/ DisableAfterJoin(b))
    BY <2>2, TailIsRest
  <2> HIDE DEF b
  <2>4. /\ IsRest(c) /\ (thread = {} \/ DisableAfterJoin(c))
        /\ c # <<>> => Head(c).do # "closeSession"
    <3>1. Head(b) # [do |-> "disable", arg |-> 1]
      BY <2>2
    <3> QED  BY <3>1, <2>2, <2>3, TailIsRest
  <2> HIDE DEF c
  <2>5. s \in Seq(CallSteps) /\ c \in Seq(CallSteps)
    BY <2>1, <2>4 DEF IsRest
  <2>6. SubSeq(s, 4, Len(s)) = c
    BY <2>2, <2>5, SkipIsTail DEF a, b, c
  <2>7. todo \in [Threads -> Seq(CallSteps)] /\ App \in Threads
    BY DEF Inv, TypeOK, Threads
  <2>8. todo' = [todo EXCEPT ![App] = c]
    BY <2>6, <1>4, <2>7 DEF s
  <2>9. /\ todo' \in [Threads -> Seq(CallSteps)] /\ todo'[App] = c
        /\ \A q \in Threads : q # App => todo'[q] = todo[q]
    BY <2>8, <2>7, <2>5
  <2>10. \A w \in Workers : w \notin alive => todo'[w] = todo[w]
    BY <2>9, ConstantsAssumption DEF Threads
  <2>11. AppCall' /\ AtClosing'
    BY <2>9, <2>4, <1>2 DEF AppCall, AtClosing, At
  <2> QED  BY <2>9, <2>10, <2>11, <1>2, QuietKeepsInv
<1> QED  BY <1>3, <1>4 DEF NeedHandleOrDone

(* connect() opens the session. *)
LEMMA ConnectInv == Inv /\ Connect(App) => Inv'
<1> SUFFICES ASSUME Inv, Connect(App) PROVE Inv'
  OBVIOUS
<1>1. /\ Return(App) /\ todo[App] # <<>> /\ Head(todo[App]).do = "connect"
      /\ UNCHANGED <<thread, stopEvent, alive, busVars, history>>
  BY DEF Connect, At
<1>2. UNCHANGED <<thread, alive, givenUp, quiet, failed, motor, asked, fb>>
  BY <1>1 DEF busVars, history
<1>3. session \in [controller : BOOLEAN, joint : BOOLEAN] /\ handle \in BOOLEAN
  BY DEF Inv, TypeOK
<1>4. /\ session' \in [controller : BOOLEAN, joint : BOOLEAN]
      /\ handle' \in BOOLEAN
      /\ session'.joint => session'.controller \/ session' = session
      /\ session'.controller \/ session' = session
  <2>1. CASE /\ session' = [controller |-> TRUE, joint |-> TRUE]
             /\ handle' = TRUE
    BY <2>1
  <2>2. CASE /\ session' = [session EXCEPT !.controller = TRUE]
             /\ UNCHANGED handle
    BY <1>3, <2>2
  <2>3. CASE UNCHANGED <<session, handle>>
    BY <1>3, <2>3
  <2> QED  BY <2>1, <2>2, <2>3 DEF Connect
<1>5. /\ todo' \in [Threads -> Seq(CallSteps)]
      /\ \A q \in Threads : q # App => todo'[q] = todo[q]
  BY <1>1, ReturnTodo DEF Threads
<1>6. TypeOK'
  BY <1>2, <1>4, <1>5 DEF Inv, TypeOK
<1>7. /\ ThreadsKnown' /\ QuietIsStopped' /\ JointNeedsController'
      /\ ClosedIsOff'
  BY <1>2, <1>4 DEF Inv, ThreadsKnown, QuietIsStopped, JointNeedsController,
     ClosedIsOff
<1>8. DeadAreIdle'
  BY <1>2, <1>5, ConstantsAssumption DEF Inv, DeadAreIdle, Threads
<1>9. AppCall' /\ AtClosing'
  BY <1>1, AppReturns
<1> QED  BY <1>6, <1>7, <1>8, <1>9 DEF Inv

(* The mode of the motor is written. *)
LEMMA SetModeInv == Inv /\ SetMode(App) => Inv'
<1> SUFFICES ASSUME Inv, SetMode(App) PROVE Inv'
  OBVIOUS
<1>1. /\ todo[App] # <<>> /\ Head(todo[App]).do = "mode"
      /\ UNCHANGED <<objectVars, busVars, history>>
  BY DEF SetMode, At
<1>2. UNCHANGED <<session, thread, alive, givenUp, quiet, failed, handle, fb,
                  motor, asked>>
  BY <1>1 DEF objectVars, busVars, history
<1>3. /\ motor' \in [on : BOOLEAN, pos : Contact .. MaxPos, target : Int,
                     zero : Contact .. MaxPos \cup {0}]
      /\ motor'.on => motor.on
      /\ asked' \in BOOLEAN
  BY <1>2 DEF Inv, TypeOK
<1>4. CASE Go(App)
  BY <1>1, <1>2, <1>3, <1>4, AppGoesInv
<1>5. CASE Return(App)
  BY <1>2, <1>5, AppReturnsInv
<1> QED  BY <1>4, <1>5 DEF SetMode

(* enable() waits for the status of the motor. *)
LEMMA AwaitStatusInv == Inv /\ AwaitStatus(App) => Inv'
<1> SUFFICES ASSUME Inv, AwaitStatus(App) PROVE Inv'
  OBVIOUS
<1>1. /\ todo[App] # <<>> /\ Head(todo[App]).do = "await"
      /\ UNCHANGED <<objectVars, motor, fb, history>>
  BY DEF AwaitStatus, At
<1>2. UNCHANGED <<session, thread, alive, givenUp, quiet, failed, handle, fb,
                  motor>>
  BY <1>1 DEF objectVars, history
<1>3. /\ motor' \in [on : BOOLEAN, pos : Contact .. MaxPos, target : Int,
                     zero : Contact .. MaxPos \cup {0}]
      /\ motor'.on => motor.on
      /\ asked \in BOOLEAN /\ handle \in BOOLEAN
      /\ fb' \in [on : BOOLEAN, pos : Int, torque : {-1, 0, 1}]
      /\ todo \in [Threads -> Seq(CallSteps)]
  BY <1>2 DEF Inv, TypeOK
<1>4. CASE asked' = handle /\ UNCHANGED todo
  <2>1. AppCall' /\ AtClosing'
    BY <1>2, <1>4 DEF Inv, AppCall, AtClosing, At
  <2> QED  BY <2>1, <1>2, <1>3, <1>4, QuietKeepsInv
<1>5. CASE Go(App) /\ UNCHANGED asked
  <2>1. asked' \in BOOLEAN
    BY <1>3, <1>5
  <2> QED  BY <2>1, <1>1, <1>2, <1>3, <1>5, AppGoesInv
<1> QED  BY <1>4, <1>5 DEF AwaitStatus

(* The session enables its motors. *)
LEMMA EnableAllInv == Inv /\ EnableAll(App) => Inv'
<1> SUFFICES ASSUME Inv, EnableAll(App) PROVE Inv'
  OBVIOUS
<1>1. todo[App] # <<>> /\ Head(todo[App]).do = "enable"
  BY DEF EnableAll, At
<1>2. CASE Raise(App) /\ UNCHANGED history
  <2>1. UNCHANGED <<session, thread, alive, givenUp, quiet, failed, handle,
                    fb, motor, asked>>
    BY <1>2 DEF Raise, objectVars, busVars, history
  <2> QED  BY <2>1, <1>2, AppReturnsInv DEF Raise
<1>3. CASE /\ session.controller
           /\ motor' \in {[motor EXCEPT !.on = TRUE], motor}
           /\ Go(App)
           /\ UNCHANGED <<objectVars, asked, fb, history>>
  <2>1. UNCHANGED <<session, thread, alive, givenUp, quiet, failed, handle,
                    asked, fb>>
    BY <1>3 DEF objectVars, history
  <2>2. motor' \in [on : BOOLEAN, pos : Contact .. MaxPos, target : Int,
                    zero : Contact .. MaxPos \cup {0}]
    <3>1. motor \in [on : BOOLEAN, pos : Contact .. MaxPos, target : Int,
                     zero : Contact .. MaxPos \cup {0}]
      BY DEF Inv, TypeOK
    <3> QED  BY <3>1, <1>3
  <2>3. /\ todo' \in [Threads -> Seq(CallSteps)]
        /\ \A q \in Threads : q # App => todo'[q] = todo[q]
    BY <1>1, <1>3, GoTodo DEF Threads
  <2>4. TypeOK'
    BY <2>1, <2>2, <2>3 DEF Inv, TypeOK
  <2>5. ThreadsKnown' /\ QuietIsStopped' /\ JointNeedsController'
    BY <2>1 DEF Inv, ThreadsKnown, QuietIsStopped, JointNeedsController
  <2>6. ClosedIsOff'
    BY <1>3, <2>1 DEF ClosedIsOff
  <2>7. DeadAreIdle'
    BY <2>1, <2>3, ConstantsAssumption DEF Inv, DeadAreIdle, Threads
  <2>8. /\ IsRest(todo'[App])
        /\ thread' = {} \/ DisableAfterJoin(todo'[App])
    BY <1>1, <1>3, <2>1, AppGoes
  <2>9. ~At(App, "closeSession")'
    <3>1. Head(todo[App]) # [do |-> "disable", arg |-> 1]
      BY <1>1
    <3> QED  BY <3>1, <1>1, <1>3, AppGoes
  <2> QED
    BY <2>4, <2>5, <2>6, <2>7, <2>8, <2>9 DEF Inv, AppCall, AtClosing
<1> QED  BY <1>2, <1>3 DEF EnableAll

(* disable_all() finds no thread of the loop that was not given up, and    *)
(* close() closes its session with the motor off or the failure on record. *)
LEMMA DisableAllInv == Inv /\ DisableAll(App) => Inv'
<1> SUFFICES ASSUME Inv, DisableAll(App) PROVE Inv'
  OBVIOUS
<1>1. /\ todo[App] # <<>> /\ Head(todo[App]).do = "disable"
      /\ Go(App)
      /\ UNCHANGED <<objectVars, asked, fb, calls, givenUp>>
      /\ quiet' = (quiet \/ givenUp \cap alive = {})
  BY DEF DisableAll, At
<1>2. UNCHANGED <<session, thread, alive, givenUp, handle, asked, fb>>
  BY <1>1 DEF objectVars
<1>3. Head(todo[App]) \in CallSteps /\ Arg(App) \in Int
  <2>1. todo[App] \in Seq(CallSteps)
    BY DEF Inv, TypeOK, Threads
  <2>2. Head(todo[App]) \in CallSteps
    BY <2>1, <1>1
  <2> QED  BY <2>2 DEF Arg, CallSteps
<1>4. /\ IsRest(todo'[App])
      /\ thread' = {} \/ DisableAfterJoin(todo'[App])
      /\ At(App, "closeSession")' => Arg(App) = 1
  BY <1>1, <1>2, AppGoes DEF Arg
<1>5. thread = {}
  <2>1. todo[App] \in Seq(CallSteps) /\ 1 \in 1 .. Len(todo[App])
        /\ todo[App][1].do = "disable" /\ 1 .. 1 - 1 = {}
    <3>1. todo[App] \in Seq(CallSteps)
      BY DEF Inv, TypeOK, Threads
    <3> QED  BY <3>1, <1>1
  <2>2. ~DisableAfterJoin(todo[App])
    BY <2>1 DEF DisableAfterJoin
  <2> QED  BY <2>2 DEF Inv, AppCall
<1>6. /\ todo' \in [Threads -> Seq(CallSteps)]
      /\ \A q \in Threads : q # App => todo'[q] = todo[q]
  BY <1>1, GoTodo DEF Threads
<1>7. \/ ~session.controller /\ UNCHANGED <<motor, failed>>
      \/ /\ session.controller
         /\ motor' = [motor EXCEPT !.on = FALSE] /\ failed' = 0
      \/ /\ session.controller
         /\ UNCHANGED motor /\ failed' = Arg(App)
  BY DEF DisableAll
<1>8. /\ motor' \in [on : BOOLEAN, pos : Contact .. MaxPos, target : Int,
                     zero : Contact .. MaxPos \cup {0}]
      /\ motor'.on => motor.on
      /\ session.controller => ~motor'.on \/ failed' = Arg(App)
      /\ ~session.controller => failed' = failed
  <2>1. motor \in [on : BOOLEAN, pos : Contact .. MaxPos, target : Int,
                   zero : Contact .. MaxPos \cup {0}]
    BY DEF Inv, TypeOK
  <2> QED  BY <2>1, <1>7
<1>9. failed' \in Int
  BY <1>7, <1>3 DEF Inv, TypeOK
<1>10. quiet' \in BOOLEAN /\ QuietIsStopped'
  BY <1>1, <1>2, <1>5 DEF Inv, TypeOK, QuietIsStopped, ThreadsKnown
<1>11. TypeOK'
  BY <1>2, <1>6, <1>8, <1>9, <1>10 DEF Inv, TypeOK
<1>12. /\ ThreadsKnown' /\ JointNeedsController'
       /\ ClosedIsOff'
  BY <1>2, <1>8 DEF Inv, ThreadsKnown, JointNeedsController, ClosedIsOff
<1>13. DeadAreIdle'
  BY <1>2, <1>6, ConstantsAssumption DEF Inv, DeadAreIdle, Threads
<1>14. AtClosing'
  BY <1>2, <1>4, <1>8 DEF AtClosing
<1> QED  BY <1>4, <1>10, <1>11, <1>12, <1>13, <1>14 DEF Inv, AppCall

(* set_zero() turns the motor off. *)
LEMMA ZeroOffInv == Inv /\ ZeroOff(App) => Inv'
<1> SUFFICES ASSUME Inv, ZeroOff(App) PROVE Inv'
  OBVIOUS
<1>1. /\ todo[App] # <<>> /\ Head(todo[App]).do = "zeroOff"
      /\ UNCHANGED <<objectVars, asked, fb, history>>
  BY DEF ZeroOff, At
<1>2. UNCHANGED <<session, thread, alive, givenUp, quiet, failed, handle,
                  asked, fb>>
  BY <1>1 DEF objectVars, history
<1>3. /\ motor \in [on : BOOLEAN, pos : Contact .. MaxPos, target : Int,
                    zero : Contact .. MaxPos \cup {0}]
      /\ todo \in [Threads -> Seq(CallSteps)] /\ App \in Threads
      /\ asked' \in BOOLEAN
      /\ fb' \in [on : BOOLEAN, pos : Int, torque : {-1, 0, 1}]
  BY <1>2 DEF Inv, TypeOK, Threads
<1>4. CASE motor' = [motor EXCEPT !.on = FALSE] /\ Go(App)
  <2>1. /\ motor' \in [on : BOOLEAN, pos : Contact .. MaxPos, target : Int,
                       zero : Contact .. MaxPos \cup {0}]
        /\ motor'.on => motor.on
    BY <1>3, <1>4
  <2> QED  BY <2>1, <1>1, <1>2, <1>3, <1>4, AppGoesInv
<1>5. CASE todo' = [todo EXCEPT ![App] = Tail(Tail(@))] /\ UNCHANGED motor
  <2> DEFINE s == todo[App]
             a == Tail(s)
             b == Tail(a)
  <2>1. IsRest(s) /\ (thread = {} \/ DisableAfterJoin(s))
    BY DEF Inv, AppCall
  <2>2. todo' = [todo EXCEPT ![App] = b]
    BY <1>5, <1>3
  <2>a. s # <<>> /\ Head(s).do = "zeroOff"
    BY <1>1
  <2> HIDE DEF s
  <2>3. /\ IsRest(a) /\ (thread = {} \/ DisableAfterJoin(a))
        /\ a # <<>> /\ Head(a).do = "zero"
    BY <2>a, <2>1, TailIsRest
  <2> HIDE DEF a
  <2>4. /\ IsRest(b) /\ (thread = {} \/ DisableAfterJoin(b))
        /\ b # <<>> => Head(b).do # "closeSession"
    <3>1. Head(a) # [do |-> "disable", arg |-> 1]
      BY <2>3
    <3> QED  BY <3>1, <2>3, TailIsRest
  <2> HIDE DEF b
  <2>5. b \in Seq(CallSteps)
    BY <2>4 DEF IsRest
  <2>6. /\ todo' \in [Threads -> Seq(CallSteps)] /\ todo'[App] = b
        /\ \A q \in Threads : q # App => todo'[q] = todo[q]
    BY <2>2, <2>5, <1>3
  <2>7. \A w \in Workers : w \notin alive => todo'[w] = todo[w]
    BY <2>6, ConstantsAssumption DEF Threads
  <2>8. AppCall' /\ AtClosing'
    BY <2>4, <2>6, <1>2 DEF AppCall, AtClosing, At
  <2>9. /\ motor' \in [on : BOOLEAN, pos : Contact .. MaxPos, target : Int,
                       zero : Contact .. MaxPos \cup {0}]
        /\ motor'.on => motor.on
    BY <1>3, <1>5
  <2> QED  BY <2>6, <2>7, <2>8, <2>9, <1>2, <1>3, QuietKeepsInv
<1> QED  BY <1>4, <1>5 DEF ZeroOff

(* set_zero() writes the zero. *)
LEMMA ZeroInv == Inv /\ Zero(App) => Inv'
<1> SUFFICES ASSUME Inv, Zero(App) PROVE Inv'
  OBVIOUS
<1>1. /\ todo[App] # <<>> /\ Head(todo[App]).do = "zero"
      /\ Go(App)
      /\ UNCHANGED <<objectVars, asked, fb, history>>
  BY DEF Zero, At
<1>2. UNCHANGED <<session, thread, alive, givenUp, quiet, failed, handle, fb,
                  asked>>
  BY <1>1 DEF objectVars, history
<1>3. /\ motor \in [on : BOOLEAN, pos : Contact .. MaxPos, target : Int,
                    zero : Contact .. MaxPos \cup {0}]
      /\ asked' \in BOOLEAN
  BY <1>2 DEF Inv, TypeOK
<1>4. /\ motor' \in [on : BOOLEAN, pos : Contact .. MaxPos, target : Int,
                     zero : Contact .. MaxPos \cup {0}]
      /\ motor'.on => motor.on
  BY <1>3 DEF Zero
<1> QED  BY <1>1, <1>2, <1>3, <1>4, AppGoesInv

(* session.close() ends with the motor off or both failures on record. *)
LEMMA CloseSessionInv == Inv /\ CloseSession(App) => Inv'
<1> SUFFICES ASSUME Inv, CloseSession(App) PROVE Inv'
  OBVIOUS
<1>1. /\ At(App, "closeSession")
      /\ todo[App] # <<>> /\ Head(todo[App]).do = "closeSession"
      /\ session' = [controller |-> FALSE, joint |-> FALSE]
      /\ Go(App)
      /\ UNCHANGED <<handle, thread, stopEvent, alive, asked, fb, calls,
                     givenUp, quiet>>
  BY DEF CloseSession, At
<1>2. /\ motor \in [on : BOOLEAN, pos : Contact .. MaxPos, target : Int,
                    zero : Contact .. MaxPos \cup {0}]
      /\ failed \in Int
      /\ session.controller => ~motor.on \/ failed = 1
      /\ ~session.controller => ~motor.on \/ failed = 2
  BY <1>1 DEF Inv, TypeOK, AtClosing, ClosedIsOff
<1>3. /\ motor' \in [on : BOOLEAN, pos : Contact .. MaxPos, target : Int,
                     zero : Contact .. MaxPos \cup {0}]
      /\ failed' \in Int
      /\ ~motor'.on \/ failed' = 2
  <2>1. CASE ~session.controller /\ UNCHANGED <<motor, failed>>
    BY <1>2, <2>1
  <2>2. CASE motor' = [motor EXCEPT !.on = FALSE] /\ failed' = 0
    <3>1. motor \in [on : BOOLEAN, pos : Contact .. MaxPos, target : Int,
                     zero : Contact .. MaxPos \cup {0}]
      BY <1>2
    <3>2. /\ motor' \in [on : BOOLEAN, pos : Contact .. MaxPos, target : Int,
                         zero : Contact .. MaxPos \cup {0}]
          /\ ~motor'.on
      BY <2>2, <3>1
    <3> QED  BY <2>2, <3>2
  <2>3. CASE session.controller /\ UNCHANGED motor /\ failed' = 2 * failed
    BY <1>2, <2>3
  <2> QED  BY <2>1, <2>2, <2>3 DEF CloseSession
<1>4. /\ todo' \in [Threads -> Seq(CallSteps)]
      /\ \A q \in Threads : q # App => todo'[q] = todo[q]
  BY <1>1, GoTodo DEF Threads
<1>5. session' \in [controller : BOOLEAN, joint : BOOLEAN]
  BY <1>1
<1>6. TypeOK'
  BY <1>1, <1>3, <1>4, <1>5 DEF Inv, TypeOK
<1>7. ThreadsKnown' /\ QuietIsStopped'
  BY <1>1 DEF Inv, ThreadsKnown, QuietIsStopped
<1>8. JointNeedsController' /\ ClosedIsOff' /\ AtClosing'
  BY <1>1, <1>3 DEF JointNeedsController, ClosedIsOff, AtClosing
<1>9. DeadAreIdle'
  BY <1>1, <1>4, ConstantsAssumption DEF Inv, DeadAreIdle, Threads
<1>10. AppCall'
  BY <1>1, AppGoes DEF AppCall
<1> QED  BY <1>6, <1>7, <1>8, <1>9, <1>10 DEF Inv

(* close() drops the session. *)
LEMMA DropInv == Inv /\ Drop(App) => Inv'
<1> SUFFICES ASSUME Inv, Drop(App) PROVE Inv'
  OBVIOUS
<1>1. /\ todo[App] # <<>> /\ Head(todo[App]).do = "drop"
      /\ Go(App) /\ handle' = FALSE
      /\ UNCHANGED <<session, thread, stopEvent, alive, busVars, history>>
  BY DEF Drop, At
<1>2. UNCHANGED <<session, thread, alive, givenUp, quiet, failed, motor,
                  asked, fb>>
  BY <1>1 DEF busVars, history
<1>3. /\ todo' \in [Threads -> Seq(CallSteps)]
      /\ \A q \in Threads : q # App => todo'[q] = todo[q]
  BY <1>1, GoTodo DEF Threads
<1>4. TypeOK'
  BY <1>1, <1>2, <1>3 DEF Inv, TypeOK
<1>5. /\ ThreadsKnown' /\ QuietIsStopped' /\ JointNeedsController'
      /\ ClosedIsOff'
  BY <1>2 DEF Inv, ThreadsKnown, QuietIsStopped, JointNeedsController,
     ClosedIsOff
<1>6. DeadAreIdle'
  BY <1>2, <1>3, ConstantsAssumption DEF Inv, DeadAreIdle, Threads
<1>7. AppCall'
  BY <1>1, <1>2, AppGoes DEF AppCall
<1>8. ~At(App, "closeSession")'
  <2>1. Head(todo[App]) # [do |-> "disable", arg |-> 1]
    BY <1>1
  <2> QED  BY <2>1, <1>1, AppGoes
<1> QED  BY <1>4, <1>5, <1>6, <1>7, <1>8 DEF Inv, AtClosing

(* A loop is only started when the thread of the one before it has ended   *)
(* or was given up.                                                        *)
LEMMA StartLoopInv == Inv /\ StartLoop(App) => Inv'
<1> SUFFICES ASSUME Inv, StartLoop(App) PROVE Inv'
  OBVIOUS
<1>1. /\ Return(App)
      /\ UNCHANGED <<session, handle, busVars, calls, givenUp, failed>>
  BY DEF StartLoop
<1>2. UNCHANGED <<session, handle, givenUp, failed, motor, asked, fb>>
  BY <1>1 DEF busVars
<1>3. CASE UNCHANGED <<thread, stopEvent, alive, quiet>>
  BY <1>1, <1>2, <1>3, AppReturnsInv
<1>4. ASSUME NEW w \in Workers \ alive, thread \cap alive = {},
             thread' = {w}, alive' = alive \cup {w}, quiet' = FALSE
      PROVE  Inv'
  <2>1. /\ todo' \in [Threads -> Seq(CallSteps)]
        /\ \A q \in Threads : q # App => todo'[q] = todo[q]
    BY <1>1, ReturnTodo DEF Threads
  <2>2. TypeOK'
    BY <1>2, <1>4, <2>1 DEF Inv, TypeOK
  <2>3. ThreadsKnown'
    BY <1>2, <1>4 DEF Inv, ThreadsKnown
  <2>4. QuietIsStopped' /\ JointNeedsController' /\ ClosedIsOff'
    BY <1>2, <1>4 DEF Inv, QuietIsStopped, JointNeedsController, ClosedIsOff
  <2>5. DeadAreIdle'
    BY <1>4, <2>1, ConstantsAssumption DEF Inv, DeadAreIdle, Threads
  <2>6. AppCall' /\ AtClosing'
    BY <1>1, AppReturns
  <2> QED  BY <2>2, <2>3, <2>4, <2>5, <2>6 DEF Inv
<1> QED  BY <1>3, <1>4 DEF StartLoop

(* stop_control_loop() clears the flag before it joins. *)
LEMMA StopBeginInv == Inv /\ StopBegin(App) => Inv'
<1> SUFFICES ASSUME Inv, StopBegin(App) PROVE Inv'
  OBVIOUS
<1>1. /\ todo[App] # <<>> /\ Head(todo[App]).do = "stop"
      /\ Go(App)
      /\ UNCHANGED <<session, handle, thread, alive, busVars, history>>
  BY DEF StopBegin, At
<1>2. UNCHANGED <<session, thread, alive, givenUp, quiet, failed, handle, fb,
                  asked, motor>>
  BY <1>1 DEF busVars, history
<1>3. /\ motor' \in [on : BOOLEAN, pos : Contact .. MaxPos, target : Int,
                     zero : Contact .. MaxPos \cup {0}]
      /\ motor'.on => motor.on
      /\ asked' \in BOOLEAN
  BY <1>2 DEF Inv, TypeOK
<1> QED  BY <1>1, <1>2, <1>3, AppGoesInv

(* After the join the thread is either gone or given up. *)
LEMMA StopJoinInv == Inv /\ StopJoin(App) => Inv'
<1> SUFFICES ASSUME Inv, StopJoin(App) PROVE Inv'
  OBVIOUS
<1>1. /\ todo[App] # <<>> /\ Head(todo[App]).do = "join"
      /\ Go(App) /\ thread' = {}
      /\ givenUp' = givenUp \cup (thread \cap alive)
      /\ UNCHANGED <<session, handle, stopEvent, alive, busVars, calls, failed,
                     quiet>>
  BY DEF StopJoin, At
<1>2. UNCHANGED <<session, handle, alive, failed, quiet, motor, asked, fb>>
  BY <1>1 DEF busVars
<1>3. /\ todo' \in [Threads -> Seq(CallSteps)]
      /\ \A q \in Threads : q # App => todo'[q] = todo[q]
  BY <1>1, GoTodo DEF Threads
<1>4. TypeOK'
  BY <1>1, <1>2, <1>3 DEF Inv, TypeOK
<1>5. ThreadsKnown'
  BY <1>1, <1>2 DEF Inv, ThreadsKnown
<1>6. QuietIsStopped' /\ JointNeedsController' /\ ClosedIsOff'
  BY <1>2 DEF Inv, QuietIsStopped, JointNeedsController, ClosedIsOff
<1>7. DeadAreIdle'
  BY <1>2, <1>3, ConstantsAssumption DEF Inv, DeadAreIdle, Threads
<1>8. AppCall'
  BY <1>1, AppGoes DEF AppCall
<1>9. ~At(App, "closeSession")'
  <2>1. Head(todo[App]) # [do |-> "disable", arg |-> 1]
    BY <1>1
  <2> QED  BY <2>1, <1>1, AppGoes
<1> QED  BY <1>4, <1>5, <1>6, <1>7, <1>8, <1>9 DEF Inv, AtClosing

(* One turn of a control loop. *)
LEMMA LoopTurnInv ==
  ASSUME Inv, NEW w \in Workers, LoopTurn(w)
  PROVE  Inv'
<1>1. /\ w \in alive /\ todo[w] = <<>> /\ w # App /\ w \in Threads
      /\ UNCHANGED <<session, handle, thread, busVars, calls, failed, quiet>>
  BY ConstantsAssumption DEF LoopTurn, Threads
<1>2. UNCHANGED <<session, handle, thread, failed, quiet, motor, asked, fb>>
  BY <1>1 DEF busVars
<1>3. CASE alive' = alive \ {w} /\ givenUp' = givenUp \ {w} /\ UNCHANGED todo
  <2>1. TypeOK'
    BY <1>2, <1>3 DEF Inv, TypeOK
  <2>2. ThreadsKnown' /\ QuietIsStopped'
    BY <1>2, <1>3 DEF Inv, ThreadsKnown, QuietIsStopped
  <2>3. JointNeedsController' /\ ClosedIsOff'
    BY <1>2 DEF Inv, JointNeedsController, ClosedIsOff
  <2>4. DeadAreIdle'
    BY <1>1, <1>3 DEF Inv, DeadAreIdle
  <2>5. AppCall' /\ AtClosing'
    BY <1>2, <1>3 DEF Inv, AppCall, AtClosing, At
  <2> QED  BY <2>1, <2>2, <2>3, <2>4, <2>5 DEF Inv
<1>4. ASSUME NEW call \in LoopCalls, todo' = [todo EXCEPT ![w] = call],
             UNCHANGED <<alive, givenUp>>
      PROVE  Inv'
  <2>1. call \in Seq(CallSteps)
    <3>1. Open \in Int /\ Closed \in Int
      BY ConstantsAssumption DEF Open, Closed
    <3> QED  BY <3>1, PlainCalls DEF LoopCalls, Plain
  <2>2. todo \in [Threads -> Seq(CallSteps)]
    BY DEF Inv, TypeOK
  <2>3. /\ todo' \in [Threads -> Seq(CallSteps)]
        /\ \A q \in Threads : q # w => todo'[q] = todo[q]
    BY <1>1, <1>4, <2>1, <2>2
  <2>4. \A v \in Workers : v \notin alive => todo'[v] = todo[v]
    BY <1>1, <2>3 DEF Threads
  <2>5. AppCall' /\ AtClosing'
    <3>1. todo'[App] = todo[App]
      BY <1>1, <2>3 DEF Threads
    <3> QED  BY <3>1, <1>2 DEF Inv, AppCall, AtClosing, At
  <2>6. /\ motor' \in [on : BOOLEAN, pos : Contact .. MaxPos, target : Int,
                       zero : Contact .. MaxPos \cup {0}]
        /\ motor'.on => motor.on
        /\ asked' \in BOOLEAN
        /\ fb' \in [on : BOOLEAN, pos : Int, torque : {-1, 0, 1}]
    BY <1>2 DEF Inv, TypeOK
  <2> QED  BY <1>2, <1>4, <2>3, <2>4, <2>5, <2>6, QuietKeepsInv
<1> QED  BY <1>3, <1>4 DEF LoopTurn

(* The motor reports, or moves. *)
LEMMA MotorInv ==
  ASSUME Inv, Feedback \/ Move
  PROVE  Inv'
<1>1. UNCHANGED <<objectVars, todo, history>>
  BY DEF Feedback, Move
<1>2. UNCHANGED <<session, thread, alive, givenUp, quiet, failed, handle, todo>>
  BY <1>1 DEF objectVars, history
<1>3. /\ motor \in [on : BOOLEAN, pos : Contact .. MaxPos, target : Int,
                    zero : Contact .. MaxPos \cup {0}]
      /\ fb \in [on : BOOLEAN, pos : Int, torque : {-1, 0, 1}]
      /\ asked \in BOOLEAN
      /\ todo' \in [Threads -> Seq(CallSteps)]
  BY <1>2 DEF Inv, TypeOK
<1>4. AppCall'
  BY <1>2 DEF Inv, AppCall
<1>5. CASE Feedback
  <2>1. UNCHANGED motor /\ asked' \in BOOLEAN
    BY <1>5 DEF Feedback
  <2>2. Torque \in {-1, 0, 1}
    BY DEF Torque
  <2>3. motor.pos - motor.zero \in Int
    BY <1>3, ConstantsAssumption
  <2>4. fb' \in [on : BOOLEAN, pos : Int, torque : {-1, 0, 1}]
    BY <1>3, <1>5, <2>2, <2>3 DEF Feedback
  <2>5. AtClosing'
    BY <1>2, <2>1 DEF Inv, AtClosing, At
  <2> QED  BY <1>2, <1>3, <1>4, <2>1, <2>4, <2>5, QuietKeepsInv
<1>6. CASE Move
  <2>1. UNCHANGED <<asked, fb>>
    BY <1>6 DEF Move
  <2>2. /\ motor' \in [on : BOOLEAN, pos : Contact .. MaxPos, target : Int,
                       zero : Contact .. MaxPos \cup {0}]
        /\ motor'.on = motor.on
    <3>1. CASE motor.pos > Contact /\ motor' = [motor EXCEPT !.pos = @ - 1]
      <4>1. motor.pos - 1 \in Contact .. MaxPos
        BY <3>1, <1>3, ConstantsAssumption
      <4> QED  BY <4>1, <3>1, <1>3
    <3>2. CASE motor.pos < MaxPos /\ motor' = [motor EXCEPT !.pos = @ + 1]
      <4>1. motor.pos + 1 \in Contact .. MaxPos
        BY <3>2, <1>3, ConstantsAssumption
      <4> QED  BY <4>1, <3>2, <1>3
    <3> QED  BY <3>1, <3>2, <1>6 DEF Move
  <2>3. AtClosing'
    BY <1>2, <2>2 DEF Inv, AtClosing, At
  <2> QED  BY <1>2, <1>3, <1>4, <2>1, <2>2, <2>3, QuietKeepsInv
<1> QED  BY <1>5, <1>6

(* Inv is inductive. *)
LEMMA NextInv == Inv /\ [Next]_vars => Inv'
<1> SUFFICES ASSUME Inv, [Next]_vars PROVE Inv'
  OBVIOUS
<1>1. CASE CallBegin
  BY <1>1, CallBeginInv
<1>2. CASE AppStep
  <2>1. App \in Threads
    BY DEF Threads
  <2> QED
    BY <1>2, <2>1, PosVelStepInv, NeedHandleOrDoneInv, ConnectInv, SetModeInv,
       EnableAllInv, DisableAllInv, AwaitStatusInv, ZeroOffInv, ZeroInv,
       CloseSessionInv, DropInv, StartLoopInv, StopBeginInv, StopJoinInv
       DEF AppStep
<1>3. ASSUME NEW w \in Workers, Worker(w)
      PROVE  Inv'
  <2>1. CASE LoopTurn(w)
    BY <2>1, LoopTurnInv
  <2>2. CASE PosVelStep(w)
    <3>1. w \in Threads
      BY DEF Threads
    <3>2. w \in alive
      BY <2>2, <3>1, PosVelStepPost DEF Inv, DeadAreIdle
    <3> QED  BY <2>2, <3>1, <3>2, PosVelStepInv
  <2> QED  BY <1>3, <2>1, <2>2 DEF Worker
<1>4. CASE Feedback \/ Move
  BY <1>4, MotorInv
<1>5. CASE UNCHANGED vars
  BY <1>5 DEF vars, objectVars, busVars, history, Inv, TypeOK, ThreadsKnown,
     QuietIsStopped, DeadAreIdle, AppCall, AtClosing, At,
     JointNeedsController, ClosedIsOff
<1> QED  BY <1>1, <1>2, <1>3, <1>4, <1>5 DEF Next

(* The state stays well typed; every thread of the loop that runs is known *)
(* to the object or was given up, and what is left of a call is well       *)
(* formed (gripper.py).                                                    *)
THEOREM GripperInvariant == Spec => []Inv
BY InitInv, NextInv, PTL DEF Spec

(* A gripper that is closed has left its motor disabled, if one of the two *)
(* attempts of close() got through (gripper.py:134, session.py:76).        *)
THEOREM ClosedGripperIsOff == Spec => []ClosedIsOff
<1>1. Inv => ClosedIsOff
  BY DEF Inv
<1> QED  BY <1>1, GripperInvariant, PTL

(* Once disable() or close() has disabled the motor, no command of the     *)
(* control loop reaches it until a loop is started again, unless the join  *)
(* of a thread timed out (gripper.py:474).                                 *)
THEOREM DisabledStaysQuiet == Spec => QuietOnceDisabled
<1>1. Inv /\ [Next]_vars =>
        [quiet => \A w \in Workers : ~(PosVelStep(w) /\ motor' # motor)]_vars
  <2> SUFFICES ASSUME Inv, quiet, NEW w \in Workers, PosVelStep(w)
               PROVE  FALSE
    OBVIOUS
  <2>1. todo[w] = <<>>
    BY DEF Inv, QuietIsStopped, DeadAreIdle
  <2> QED  BY <2>1, PosVelStepPost DEF Threads
<1> QED  BY <1>1, GripperInvariant, PTL DEF Spec, QuietOnceDisabled
=============================================================================
