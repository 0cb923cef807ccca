--------------------------- MODULE FrontEndProofs ---------------------------
(***************************************************************************)
(* Proofs about FrontEnd, for every set of images, every limit of the scan *)
(* and every number of relaunches.                                         *)
(***************************************************************************)
EXTENDS FrontEnd, FiniteSetTheorems, TLAPS

-----------------------------------------------------------------------------
(* The inductive invariant, one part for each thing a step relies on. *)

\* The steps behind a mode that was settled on, behind the question about the
\* risk, behind the dry run's exit, and behind the question about the flash.
Settled == {"risky", "dd", "copy", "confirm", "write", "writing"}
Braved  == Settled \ {"risky"}
Real    == {"confirm", "write", "writing"}
Sure    == {"write", "writing"}

\* Something may have been written only where all of this holds.
Behind(steps) == pc \in steps \/ wrote # "nothing"

Candidates == IF user.mode = {} THEN AutoModes ELSE user.mode

\* Every process of the chain has the options of the first.
Kept == options = user

\* No more than one mode was asked for once the options are parsed.
Single == pc \in {"rights", "sniff"} \/ Behind(Settled) => Cardinality(user.mode) # 2

Chosen == Behind(Settled) => mode \in Candidates

Brave == Behind(Braved) =>
            user.mode = {} \/ ~ModeRisky(mode) \/ user.force = "on" \/ "risky" \in agreed

Flashing ==
    /\ Behind(Real) => user.dryRun = "off"
    /\ Behind(Sure) => user.force = "on" \/ "flash" \in agreed
    /\ wrote # "nothing" => pc \in {"writing", "exit", "ended"}
    /\ pc = "writing" => wrote # "nothing"
    /\ wrote # "nothing" => (checked = "yes" <=> user.fakeCheck = "on")

\* Nothing is extracted from an image that copy mode cannot read.
Capable ==
    /\ pc \in {"dd", "copy"} => mode = pc
    /\ Behind(Real) /\ mode = "copy" => CopyCapable

\* An exit status of 0 is earned, and is what the first process exits with
\* unless it was gone before.
Honest ==
    /\ pc \notin {"exit", "ended"} => status = "none"
    /\ status = "ok" => Earned
    /\ os = "unix" \/ depth = 0 => told = IF pc = "ended" THEN status ELSE "none"
    /\ os = "windows" /\ depth > 0 => told = "ok"

Inv ==
    /\ TypeOK
    /\ Kept /\ Single /\ Chosen /\ Brave /\ Capable /\ Flashing /\ Honest

-----------------------------------------------------------------------------
\* The command line that is built from a process's options carries all of them.
LEMMA ArgvKeeps == options \in Options => Argv = options
<1> SUFFICES ASSUME options \in Options PROVE Argv = options
  OBVIOUS
<1>1. PICK m \in SUBSET Modes, l \in {"none", "given", "bad"}, b \in {"default", "given", "bad"},
           o \in {"zero", "given"}, f \in {"off", "on"}, d \in {"off", "on"}, c \in {"on", "off"} :
        options = [mode |-> m, label |-> l, blockSize |-> b, offset |-> o, force |-> f,
                   dryRun |-> d, fakeCheck |-> c]
  BY DEF Options
<1> QED
  BY <1>1 DEF Argv

\* auto() picks a mode the image is made for.
LEMMA AutoFacts == /\ AutoModes \subseteq Modes
                   /\ \A m \in AutoModes : ~ModeRisky(m)
BY DEF AutoModes, Modes, ModeRisky

LEMMA OptionsFacts ==
    ASSUME NEW o \in Options
    PROVE  /\ o.mode \subseteq Modes
           /\ o.dryRun \in {"off", "on"} /\ o.force \in {"off", "on"}
           /\ o.fakeCheck \in {"off", "on"}
BY DEF Options

\* Whatever image stays the same stays capable of the same.
LEMMA ImageFacts ==
    ASSUME image' = image
    PROVE  /\ AutoModes' = AutoModes
           /\ \A m : ModeRisky(m)' <=> ModeRisky(m)
           /\ CopyCapable' <=> CopyCapable
<1>1. (DdBootable' <=> DdBootable) /\ (CopyCapable' <=> CopyCapable)
  BY DEF DdBootable, CopyCapable, IsIso, IsUdf
<1> QED
  BY <1>1 DEF AutoModes, ModeRisky

\* One process more or less.
LEMMA DepthFacts ==
    ASSUME NEW d \in 0 .. MaxDepth
    PROVE  /\ d + 1 # 0 /\ d + 1 # d /\ (d < MaxDepth => d + 1 \in 0 .. MaxDepth)
           /\ d > 0 => d - 1 \in 0 .. MaxDepth
           /\ ~(d > 0) => d = 0
BY BoundAssumption

\* A step that changes nothing keeps the types.
LEMMA StutterKeepsType ==
    ASSUME TypeOK,
           UNCHANGED <<pc, os, user, image, grants>>, UNCHANGED <<options, rights, depth>>,
           UNCHANGED <<mode, agreed, checked, wrote, status, told>>
    PROVE  TypeOK'
<1>1. /\ (pc' = pc /\ os' = os /\ user' = user /\ image' = image /\ grants' = grants)
      /\ (options' = options /\ rights' = rights /\ depth' = depth)
      /\ (mode' = mode /\ agreed' = agreed /\ checked' = checked /\ wrote' = wrote)
      /\ (status' = status /\ told' = told)
  OBVIOUS
<1> QED
  BY <1>1 DEF TypeOK

LEMMA InitEstablishes == Init => Inv
<1> SUFFICES ASSUME Init PROVE Inv
  OBVIOUS
<1>1. TypeOK
  <2>1. 0 \in 0 .. MaxDepth
    BY BoundAssumption
  <2> QED
    BY <2>1 DEF Init, TypeOK
<1>2. Kept /\ Single /\ Chosen /\ Brave /\ Capable /\ Flashing
  BY DEF Init, Kept, Single, Chosen, Brave, Capable, Flashing, Behind, Settled, Braved, Real, Sure
<1>3. Honest
  <2>1. ~(0 > 0)
    OBVIOUS
  <2> QED
    BY <2>1 DEF Init, Honest
<1> QED
  BY <1>1, <1>2, <1>3 DEF Inv

\* Every step of every process preserves it.
LEMMA StepPreserves == Inv /\ [Next]_vars => Inv'
<1> SUFFICES ASSUME Inv, [Next]_vars PROVE Inv'
  OBVIOUS
<1>a. /\ user \in Options /\ options = user /\ depth \in 0 .. MaxDepth
      /\ user.mode \subseteq Modes
      /\ user.dryRun \in {"off", "on"} /\ user.force \in {"off", "on"}
      /\ user.fakeCheck \in {"off", "on"}
  BY OptionsFacts DEF Inv, TypeOK, Kept
<1> USE <1>a, BoundAssumption
    DEF Inv, TypeOK, Kept, Goto, Exit, setting, process, flash
<1>1. CASE Parse
  <2>0. /\ AutoModes' = AutoModes /\ (CopyCapable' <=> CopyCapable)
        /\ \A m : ModeRisky(m)' <=> ModeRisky(m)
    BY <1>1, ImageFacts DEF Parse
  <2>1. TypeOK' /\ Kept'
    <3>1. pc' \in {"exit", "rights"} /\ status' \in {"none", "ok", "error"}
      BY <1>1 DEF Parse
    <3>2. UNCHANGED <<setting, process, mode, agreed, flash, told>>
      BY <1>1 DEF Parse
    <3> QED
      BY <3>1, <3>2
  <2>2. Single' /\ Chosen' /\ Brave'
    BY <1>1, <2>0 DEF Parse, Single, Chosen, Brave, Flashing, Behind, Candidates, Settled, Braved,
       Modes
  <2>3. Flashing' /\ Honest'
    BY <1>1 DEF Parse, Flashing, Honest, Earned, Behind, Real, Sure
  <2>4. Capable'
    BY <1>1, <2>0 DEF Parse, Capable, Chosen, Flashing, Behind, Settled, Real, Modes
  <2> QED
    BY <2>1, <2>2, <2>3, <2>4
<1>2. CASE Relaunch
  <2>0. /\ AutoModes' = AutoModes /\ (CopyCapable' <=> CopyCapable)
        /\ \A m : ModeRisky(m)' <=> ModeRisky(m)
    BY <1>2, ImageFacts DEF Relaunch
  <2>1. TypeOK' /\ Kept'
    <3>1. options' = options
      BY <1>2, ArgvKeeps DEF Relaunch
    <3>2. depth' \in 0 .. MaxDepth
      BY <1>2, DepthFacts DEF Relaunch
    <3>3. /\ rights' \in {"user", "root"} /\ pc' \in {"start", "exit"}
          /\ status' \in {"none", "ok", "error"} /\ told' \in {"none", "ok", "error"}
      BY <1>2 DEF Relaunch
    <3>4. UNCHANGED <<os, user, image, grants, mode, agreed, checked, wrote>>
      BY <1>2 DEF Relaunch
    <3> QED
      BY <3>1, <3>2, <3>3, <3>4
  <2>2. Single' /\ Chosen' /\ Brave'
    BY <1>2, <2>0 DEF Relaunch, Single, Chosen, Brave, Flashing, Behind, Candidates, Settled, Braved,
       Modes
  <2>3. Flashing' /\ Honest'
    BY <1>2 DEF Relaunch, Flashing, Honest, Earned, Behind, Real, Sure
  <2>4. Capable'
    BY <1>2, <2>0 DEF Relaunch, Capable, Chosen, Flashing, Behind, Settled, Real, Modes
  <2> QED
    BY <2>1, <2>2, <2>3, <2>4
<1>3. CASE RelaunchByUac
  <2>0. /\ AutoModes' = AutoModes /\ (CopyCapable' <=> CopyCapable)
        /\ \A m : ModeRisky(m)' <=> ModeRisky(m)
    BY <1>3, ImageFacts DEF RelaunchByUac
  <2>1. TypeOK' /\ Kept'
    <3>1. options' = options
      BY <1>3, ArgvKeeps DEF RelaunchByUac
    <3>2. depth' \in 0 .. MaxDepth
      BY <1>3, DepthFacts DEF RelaunchByUac
    <3>3. /\ rights' \in {"user", "root"} /\ pc' \in {"start", "exit"}
          /\ status' \in {"none", "ok", "error"} /\ told' \in {"none", "ok", "error"}
      BY <1>3 DEF RelaunchByUac
    <3>4. UNCHANGED <<os, user, image, grants, mode, agreed, checked, wrote>>
      BY <1>3 DEF RelaunchByUac
    <3> QED
      BY <3>1, <3>2, <3>3, <3>4
  <2>2. Single' /\ Chosen' /\ Brave'
    BY <1>3, <2>0 DEF RelaunchByUac, Single, Chosen, Brave, Flashing, Behind, Candidates, Settled, Braved,
       Modes
  <2>3. Flashing'
    BY <1>3 DEF RelaunchByUac, Flashing, Behind, Real, Sure
  <2>4. Honest'
    <3>a. depth + 1 # 0
      BY DepthFacts
    <3>1. \/ depth' = depth + 1 /\ os' = "windows" /\ pc' = "start"
          \/ depth' = depth /\ told' = told /\ pc' = "exit"
      <4>1. os' = os /\ os = "windows"
        BY <1>3 DEF RelaunchByUac
      <4> QED
        BY <1>3, <4>1 DEF RelaunchByUac
    <3>2. (status' = "ok" => Earned') /\ (pc' # "exit" => status' = "none") /\ pc' # "ended"
      BY <1>3 DEF RelaunchByUac, Honest, Earned
    <3>3. depth' = depth + 1 => told' = "ok"
      <4>1. depth + 1 # depth /\ (~(depth > 0) => depth = 0)
        BY DepthFacts
      <4> QED
        BY <1>3, <4>1 DEF RelaunchByUac, Honest
    <3> QED
      BY <1>3, <3>a, <3>1, <3>2, <3>3 DEF RelaunchByUac, Honest
  <2>5. Capable'
    BY <1>3, <2>0 DEF RelaunchByUac, Capable, Chosen, Flashing, Behind, Settled, Real, Modes
  <2> QED
    BY <2>1, <2>2, <2>3, <2>4, <2>5
<1>4. CASE Privileged
  <2>0. /\ AutoModes' = AutoModes /\ (CopyCapable' <=> CopyCapable)
        /\ \A m : ModeRisky(m)' <=> ModeRisky(m)
    BY <1>4, ImageFacts DEF Privileged
  <2>1. TypeOK' /\ Kept'
    BY <1>4 DEF Privileged, Modes
  <2>2. Single' /\ Chosen' /\ Brave'
    BY <1>4, <2>0 DEF Privileged, Single, Chosen, Brave, Flashing, Behind, Candidates, Settled, Braved,
       Modes
  <2>3. Flashing' /\ Honest'
    BY <1>4 DEF Privileged, Flashing, Honest, Earned, Behind, Real, Sure
  <2>4. Capable'
    BY <1>4, <2>0 DEF Privileged, Capable, Chosen, Flashing, Behind, Settled, Real, Modes
  <2> QED
    BY <2>1, <2>2, <2>3, <2>4
<1>5. CASE Settle
  <2>0. /\ AutoModes' = AutoModes /\ (CopyCapable' <=> CopyCapable)
        /\ \A m : ModeRisky(m)' <=> ModeRisky(m)
    BY <1>5, ImageFacts DEF Settle
  <2>1. TypeOK' /\ Kept'
    BY <1>5, AutoFacts DEF Settle, Modes
  <2>2. Single' /\ Chosen' /\ Brave'
    BY <1>5, <2>0, AutoFacts DEF Settle, Single, Chosen, Brave, Flashing, Behind, Candidates, Settled, Braved,
       Modes
  <2>3. Flashing' /\ Honest'
    BY <1>5, AutoFacts DEF Settle, Modes, Flashing, Honest, Earned, Behind, Real, Sure
  <2>4. Capable'
    BY <1>5, <2>0, AutoFacts DEF Settle, Capable, Chosen, Flashing, Behind, Settled, Real, Modes
  <2> QED
    BY <2>1, <2>2, <2>3, <2>4
<1>6. CASE AskRisky
  <2>0. /\ AutoModes' = AutoModes /\ (CopyCapable' <=> CopyCapable)
        /\ \A m : ModeRisky(m)' <=> ModeRisky(m)
    BY <1>6, ImageFacts DEF AskRisky
  <2>a. mode \in Modes
    BY <1>6, AutoFacts DEF AskRisky, Chosen, Behind, Settled, Candidates
  <2>1. TypeOK' /\ Kept'
    BY <1>6, <2>a DEF AskRisky, Modes
  <2>2. Single' /\ Chosen' /\ Brave'
    BY <1>6, <2>0 DEF AskRisky, Single, Chosen, Brave, Flashing, Behind, Candidates, Settled, Braved,
       Modes
  <2>3. Flashing' /\ Honest'
    BY <1>6, <2>a DEF AskRisky, Modes, Flashing, Honest, Earned, Behind, Real, Sure
  <2>4. Capable'
    BY <1>6, <2>0, <2>a DEF AskRisky, Capable, Chosen, Flashing, Behind, Settled, Real, Modes
  <2> QED
    BY <2>1, <2>2, <2>3, <2>4
<1>7. CASE Dd
  <2>0. /\ AutoModes' = AutoModes /\ (CopyCapable' <=> CopyCapable)
        /\ \A m : ModeRisky(m)' <=> ModeRisky(m)
    BY <1>7, ImageFacts DEF Dd
  <2>1. TypeOK' /\ Kept'
    <3>1. pc' \in {"exit", "write", "confirm"} /\ status' \in {"none", "ok", "error"}
      BY <1>7 DEF Dd, AfterChecks
    <3>2. UNCHANGED <<setting, process, mode, agreed, flash, told>>
      BY <1>7 DEF Dd
    <3> QED
      BY <3>1, <3>2
  <2>2. Single' /\ Chosen' /\ Brave'
    BY <1>7, <2>0 DEF Dd, Single, Chosen, Brave, Flashing, Behind, Candidates, Settled, Braved,
       Modes, AfterChecks
  <2>3. Flashing' /\ Honest'
    BY <1>7 DEF Dd, Flashing, Honest, Earned, Behind, Real, Sure, AfterChecks
  <2>4. Capable'
    BY <1>7, <2>0 DEF Dd, Capable, Chosen, Flashing, Behind, Settled, Real, Modes, AfterChecks
  <2> QED
    BY <2>1, <2>2, <2>3, <2>4
<1>8. CASE Copy
  <2>0. /\ AutoModes' = AutoModes /\ (CopyCapable' <=> CopyCapable)
        /\ \A m : ModeRisky(m)' <=> ModeRisky(m)
    BY <1>8, ImageFacts DEF Copy
  <2>1. TypeOK' /\ Kept'
    BY <1>8 DEF Copy, Modes, AfterChecks
  <2>2. Single' /\ Chosen' /\ Brave'
    BY <1>8, <2>0 DEF Copy, Single, Chosen, Brave, Flashing, Behind, Candidates, Settled, Braved,
       Modes, AfterChecks
  <2>3. Flashing' /\ Honest'
    BY <1>8 DEF Copy, Flashing, Honest, Earned, Behind, Real, Sure, AfterChecks
  <2>4. Capable'
    BY <1>8, <2>0 DEF Copy, Capable, Chosen, Flashing, Behind, Settled, Real, Modes, AfterChecks
  <2> QED
    BY <2>1, <2>2, <2>3, <2>4
<1>9. CASE Confirm
  <2>0. /\ AutoModes' = AutoModes /\ (CopyCapable' <=> CopyCapable)
        /\ \A m : ModeRisky(m)' <=> ModeRisky(m)
    BY <1>9, ImageFacts DEF Confirm
  <2>1. TypeOK' /\ Kept'
    BY <1>9 DEF Confirm, Modes
  <2>2. Single' /\ Chosen' /\ Brave'
    BY <1>9, <2>0 DEF Confirm, Single, Chosen, Brave, Flashing, Behind, Candidates, Settled, Braved,
       Modes
  <2>3. Flashing' /\ Honest'
    BY <1>9 DEF Confirm, Flashing, Honest, Earned, Behind, Real, Sure
  <2>4. Capable'
    BY <1>9, <2>0 DEF Confirm, Capable, Chosen, Flashing, Behind, Settled, Real, Modes
  <2> QED
    BY <2>1, <2>2, <2>3, <2>4
<1>10. CASE Write
  <2>0. /\ AutoModes' = AutoModes /\ (CopyCapable' <=> CopyCapable)
        /\ \A m : ModeRisky(m)' <=> ModeRisky(m)
    BY <1>10, ImageFacts DEF Write
  <2>1. TypeOK' /\ Kept'
    BY <1>10 DEF Write, Modes
  <2>2. Single' /\ Chosen' /\ Brave'
    BY <1>10, <2>0 DEF Write, Single, Chosen, Brave, Flashing, Behind, Candidates, Settled, Braved,
       Modes
  <2>3. Flashing' /\ Honest'
    BY <1>10 DEF Write, Flashing, Honest, Earned, Behind, Real, Sure
  <2>4. Capable'
    BY <1>10, <2>0 DEF Write, Capable, Chosen, Flashing, Behind, Settled, Real, Modes
  <2> QED
    BY <2>1, <2>2, <2>3, <2>4
<1>11. CASE Written
  <2>0. /\ AutoModes' = AutoModes /\ (CopyCapable' <=> CopyCapable)
        /\ \A m : ModeRisky(m)' <=> ModeRisky(m)
    BY <1>11, ImageFacts DEF Written
  <2>1. TypeOK' /\ Kept'
    BY <1>11 DEF Written, Modes
  <2>2. Single' /\ Chosen' /\ Brave'
    BY <1>11, <2>0 DEF Written, Single, Chosen, Brave, Flashing, Behind, Candidates, Settled, Braved,
       Modes
  <2>3. Flashing' /\ Honest'
    BY <1>11 DEF Written, Flashing, Honest, Earned, Behind, Real, Sure
  <2>4. Capable'
    BY <1>11, <2>0 DEF Written, Capable, Chosen, Flashing, Behind, Settled, Real, Modes
  <2> QED
    BY <2>1, <2>2, <2>3, <2>4
<1>12. CASE Killed
  <2>0. /\ AutoModes' = AutoModes /\ (CopyCapable' <=> CopyCapable)
        /\ \A m : ModeRisky(m)' <=> ModeRisky(m)
    BY <1>12, ImageFacts DEF Killed
  <2>1. TypeOK' /\ Kept'
    BY <1>12 DEF Killed, Modes
  <2>2. Single' /\ Chosen' /\ Brave'
    BY <1>12, <2>0 DEF Killed, Single, Chosen, Brave, Flashing, Behind, Candidates, Settled, Braved,
       Modes
  <2>3. Flashing' /\ Honest'
    BY <1>12 DEF Killed, Flashing, Honest, Earned, Behind, Real, Sure
  <2>4. Capable'
    BY <1>12, <2>0 DEF Killed, Capable, Chosen, Flashing, Behind, Settled, Real, Modes
  <2> QED
    BY <2>1, <2>2, <2>3, <2>4
<1>13. CASE Closed
  <2>0. /\ AutoModes' = AutoModes /\ (CopyCapable' <=> CopyCapable)
        /\ \A m : ModeRisky(m)' <=> ModeRisky(m)
    BY <1>13, ImageFacts DEF Closed
  <2>1. TypeOK' /\ Kept'
    BY <1>13 DEF Closed, Modes
  <2>2. Single' /\ Chosen' /\ Brave'
    BY <1>13, <2>0 DEF Closed, Single, Chosen, Brave, Flashing, Behind, Candidates, Settled, Braved,
       Modes
  <2>3. Flashing' /\ Honest'
    BY <1>13 DEF Closed, Flashing, Honest, Earned, Behind, Real, Sure
  <2>4. Capable'
    BY <1>13, <2>0 DEF Closed, Capable, Chosen, Flashing, Behind, Settled, Real, Modes
  <2> QED
    BY <2>1, <2>2, <2>3, <2>4
<1>14. CASE Unwind
  <2>0. /\ AutoModes' = AutoModes /\ (CopyCapable' <=> CopyCapable)
        /\ \A m : ModeRisky(m)' <=> ModeRisky(m)
    BY <1>14, ImageFacts DEF Unwind
  <2>1. TypeOK' /\ Kept'
    <3>1. depth' \in 0 .. MaxDepth
      BY <1>14, DepthFacts DEF Unwind
    <3>2. pc' \in {"exit", "ended"} /\ told' \in {"none", "ok", "error"}
      BY <1>14 DEF Unwind
    <3> QED
      BY <1>14, <3>1, <3>2 DEF Unwind
  <2>2. Single' /\ Chosen' /\ Brave'
    BY <1>14, <2>0 DEF Unwind, Single, Chosen, Brave, Flashing, Behind, Candidates, Settled, Braved,
       Modes
  <2>3. Flashing' /\ Honest'
    BY <1>14 DEF Unwind, Flashing, Honest, Earned, Behind, Real, Sure
  <2>4. Capable'
    BY <1>14, <2>0 DEF Unwind, Capable, Chosen, Flashing, Behind, Settled, Real, Modes
  <2> QED
    BY <2>1, <2>2, <2>3, <2>4
<1>15. CASE Vanish
  <2>0. /\ AutoModes' = AutoModes /\ (CopyCapable' <=> CopyCapable)
        /\ \A m : ModeRisky(m)' <=> ModeRisky(m)
    BY <1>15, ImageFacts DEF Vanish
  <2>1. TypeOK' /\ Kept'
    BY <1>15 DEF Vanish, Modes
  <2>2. Single' /\ Chosen' /\ Brave'
    BY <1>15, <2>0 DEF Vanish, Single, Chosen, Brave, Flashing, Behind, Candidates, Settled, Braved,
       Modes
  <2>3. Flashing' /\ Honest'
    BY <1>15 DEF Vanish, Flashing, Honest, Earned, Behind, Real, Sure
  <2>4. Capable'
    BY <1>15, <2>0 DEF Vanish, Capable, Chosen, Flashing, Behind, Settled, Real, Modes
  <2> QED
    BY <2>1, <2>2, <2>3, <2>4
<1>16. CASE UNCHANGED vars
  <2>0. /\ AutoModes' = AutoModes /\ (CopyCapable' <=> CopyCapable)
        /\ \A m : ModeRisky(m)' <=> ModeRisky(m)
    BY <1>16, ImageFacts DEF vars
  <2>a. UNCHANGED <<pc, os, user, image, grants>> /\ UNCHANGED <<options, rights, depth>>
    BY <1>16 DEF vars
  <2>b. UNCHANGED <<mode, agreed, checked, wrote, status, told>>
    BY <1>16 DEF vars
  <2>1. TypeOK' /\ Kept'
    BY <2>a, <2>b, StutterKeepsType
  <2>2. Single' /\ Chosen' /\ Brave'
    BY <1>16, <2>0 DEF vars, Single, Chosen, Brave, Behind, Candidates
  <2>3. Flashing' /\ Honest'
    BY <1>16 DEF vars, Flashing, Honest, Earned, Behind
  <2>4. Capable'
    BY <1>16, <2>0 DEF vars, Capable, Chosen, Flashing, Behind, Settled, Real, Modes
  <2> QED
    BY <2>1, <2>2, <2>3, <2>4
<1> QED
  BY <1>1, <1>2, <1>3, <1>4, <1>5, <1>6, <1>7, <1>8,
     <1>9, <1>10, <1>11, <1>12, <1>13, <1>14, <1>15, <1>16 DEF Next

LEMMA Inductive == Spec => []Inv
BY InitEstablishes, StepPreserves, PTL DEF Spec

-----------------------------------------------------------------------------
(* The theorems. *)

\* The type invariant of the front end, for every image and any number of
\* relaunches.
THEOREM TypeCorrect == Spec => []TypeOK
<1>1. Inv => TypeOK
  BY DEF Inv
<1> QED
  BY <1>1, Inductive, PTL

\* What is written is what the user asked for, through every relaunch.
THEOREM WrittenAsAsked == Spec => []WritesAsAsked
<1>1. Inv => WritesAsAsked
  BY OptionsFacts DEF Inv, TypeOK, Kept, Chosen, Flashing, Behind, Candidates, WritesAsAsked
<1> QED
  BY <1>1, Inductive, PTL

\* No image is written in a mode it is not made for, unless the user named that
\* mode, and took the risk where there was a choice.
THEOREM RiskOnlyWhenAsked == Spec => []NeverRiskyUnasked
<1>1. Inv => NeverRiskyUnasked
  <2> SUFFICES ASSUME Inv, wrote # "nothing", mode \notin Made
               PROVE  /\ user.mode = {mode}
                      /\ IF Made = {} THEN mode = "dd"
                         ELSE user.force = "on" \/ "risky" \in agreed
    BY DEF NeverRiskyUnasked
  <2>1. user.mode \subseteq Modes
    BY OptionsFacts DEF Inv, TypeOK
  <2>2. mode \in Candidates /\ mode \notin AutoModes
    BY DEF Inv, Chosen, Behind, AutoModes, Made
  <2>3. user.mode # {} /\ mode \in user.mode
    BY <2>2 DEF Candidates
  <2>4. mode \in {"dd", "copy"}
    BY <2>1, <2>3 DEF Modes
  <2>5. user.mode # Modes
    <3>1. Cardinality({"dd"}) = 1 /\ IsFiniteSet({"dd"})
      BY FS_Singleton
    <3>2. Cardinality({"dd"} \cup {"copy"}) = 2
      BY <3>1, FS_AddElement
    <3>3. Cardinality(Modes) = 2
      BY <3>2 DEF Modes
    <3> QED
      BY <3>3 DEF Inv, Single, Behind
  <2>6. user.mode = {mode}
    BY <2>1, <2>3, <2>5 DEF Modes
  <2>7. CASE Made = {}
    <3>1. mode # "copy"
      BY <2>7 DEF Inv, Capable, Behind, Made
    <3> QED
      BY <2>4, <2>6, <2>7, <3>1
  <2>8. CASE Made # {}
    <3>1. ModeRisky(mode)
      BY <2>4, <2>8 DEF ModeRisky, Made
    <3> QED
      BY <2>3, <2>6, <2>8, <3>1 DEF Inv, Brave, Behind
  <2> QED
    BY <2>7, <2>8
<1> QED
  BY <1>1, Inductive, PTL

\* An exit status of 0 of the last process means that all was written, or that
\* a dry run passed; of the first process it means so unless UAC launched
\* another one.
THEOREM ExitIsTrue == Spec => []ExitTellsTheEnd
<1>1. Inv => ExitTellsTheEnd
  BY DepthFacts DEF Inv, TypeOK, Honest, Earned, ExitTellsTheEnd
<1> QED
  BY <1>1, Inductive, PTL
=============================================================================
