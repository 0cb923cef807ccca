------------------------------ MODULE FrontEnd ------------------------------
(***************************************************************************)
(* The way from the command line to a flash: main(), run(), write_dd() and *)
(* write_copy() of buf-cli/src/main.rs, the choice of a mode of            *)
(* libbuf/src/mode.rs, and the relaunch of libbuf/src/privilege.rs: under  *)
(* sudo or one of its like on unix, by UAC on Windows.                     *)
(*                                                                         *)
(* A process without the rights builds a new command line from its options *)
(* and has it run by a process that starts all over again.  On unix it     *)
(* waits for that process, on Windows it does not.                         *)
(***************************************************************************)
EXTENDS Integers, Sequences, FiniteSets

CONSTANTS
    Images,    \* first bytes of the images somebody may flash
    ScanLimit, \* descriptors sniff() looks at
    MaxDepth   \* bound: relaunches

\* The identifiers of an image's volume descriptors, from sector 16 on.
Skippable == {"CD001", "BEA01"}   \* and TEA01, BOOT2, CDW02
Ids       == Skippable \cup {"NSR", "other"}

Modes   == {"dd", "copy"}
Header  == [boot : {"marked", "plain"}, ids : Seq(Ids)]
Options == [mode      : SUBSET Modes,
            label     : {"none", "given", "bad"},
            blockSize : {"default", "given", "bad"},
            offset    : {"zero", "given"},
            force     : {"off", "on"},
            dryRun    : {"off", "on"},
            fakeCheck : {"on", "off"}]

ASSUME ImagesAssumption == \A i \in Images : i \in Header
ASSUME BoundAssumption  == ScanLimit \in Nat /\ MaxDepth \in Nat

VARIABLES
    pc,       \* step of the process that runs
    os,       \* "unix" or "windows"
    user,     \* the options the user gave
    options,  \* the options of the process launched last
    image,    \* the header of the image
    rights,   \* "root" or "user", of the process launched last
    grants,   \* what the escalator gives: "nothing" if there is none
    depth,    \* processes that launched another one, and on unix wait for it
    mode,     \* the mode settled on
    agreed,   \* questions the user answered with y
    checked,  \* whether this flash includes the fake check
    wrote,    \* what became of the target
    status,   \* exit status of the process that ended last
    told      \* exit status of the first process

setting == <<os, user, image, grants>>
process == <<options, rights, depth>>
flash   == <<checked, wrote>>
vars    == <<pc, setting, process, mode, agreed, flash, status, told>>

Init ==
    /\ pc = "start"
    /\ os \in {"unix", "windows"}
    /\ user \in Options /\ options = user
    /\ image \in Images
    /\ rights \in {"user", "root"}
    /\ grants \in {"nothing", "the same", "root"}
    /\ depth = 0
    /\ mode = "none" /\ agreed = {}
    /\ checked = "no" /\ wrote = "nothing"
    /\ status = "none" /\ told = "none"

Goto(step) == pc' = step /\ UNCHANGED status
Exit(code) == pc' = "exit" /\ status' = code

-----------------------------------------------------------------------------
(* What an image is capable of, and the mode. *)

DdBootable == image.boot = "marked"
IsIso      == image.ids # <<>> /\ Head(image.ids) = "CD001"
IsUdf ==
    \E k \in DOMAIN image.ids :
        /\ k <= ScanLimit
        /\ image.ids[k] = "NSR"
        /\ \A j \in 1 .. k - 1 : image.ids[j] \in Skippable
CopyCapable == IsIso \/ IsUdf

\* Mutant of ModeRisky: only what cannot be extracted is a risk.
RiskyToCopy(chosen) == DdBootable /\ ~CopyCapable /\ chosen # "dd"

ModeRisky(chosen) ==
    \/ DdBootable /\ ~CopyCapable /\ chosen # "dd"
    \/ CopyCapable /\ ~DdBootable /\ chosen # "copy"

\* The modes auto() may pick: one, or none.
AutoModes ==
    IF DdBootable THEN {"dd"} ELSE IF CopyCapable THEN {"copy"} ELSE {}

-----------------------------------------------------------------------------
(* The steps of a process. *)

\* parse_modes(), validate_label() and the resolution of both paths.
Parse ==
    /\ pc = "start"
    /\ \/ IF Cardinality(options.mode) = 2 \/ options.label = "bad"
          THEN Exit("error") ELSE Goto("rights")
       \/ Exit("error")
    /\ UNCHANGED <<setting, process, mode, agreed, flash, told>>

\* Mutant of Argv: the new command line lacks --dry-run.
ArgvWithoutDryRun == [options EXCEPT !.dryRun = "off"]

\* The command line run() puts together.
Argv ==
    [mode      |-> options.mode,
     label     |-> options.label,
     blockSize |-> options.blockSize,
     offset    |-> options.offset,
     force     |-> options.force,
     dryRun    |-> options.dryRun,
     fakeCheck |-> options.fakeCheck]

\* unix_elevate(): the process that is launched gets the rights the escalator
\* gives, if there is one, if it can be run and the user can authenticate.
Relaunch ==
    /\ pc = "rights" /\ rights = "user" /\ os = "unix"
    /\ \/ /\ grants # "nothing" /\ depth < MaxDepth
          /\ depth' = depth + 1
          /\ options' = Argv
          /\ rights' = IF grants = "root" THEN "root" ELSE rights
          /\ Goto("start")
       \/ Exit("error") /\ UNCHANGED process
    /\ UNCHANGED <<setting, mode, agreed, flash, told>>

\* windows_elevate(): the user may decline, and so may the program when it
\* cannot quote an argument.  Otherwise this process exits with 0 at once: the
\* elevated one runs in a window of its own.
RelaunchByUac ==
    /\ pc = "rights" /\ rights = "user" /\ os = "windows"
    /\ \/ /\ grants # "nothing" /\ depth < MaxDepth
          /\ depth' = depth + 1
          /\ options' = Argv
          /\ rights' = IF grants = "root" THEN "root" ELSE rights
          /\ told' = IF depth = 0 THEN "ok" ELSE told
          /\ Goto("start")
       \/ Exit("error") /\ UNCHANGED <<process, told>>
    /\ UNCHANGED <<setting, mode, agreed, flash>>

Privileged ==
    /\ pc = "rights" /\ rights = "root"
    /\ Goto("sniff")
    /\ UNCHANGED <<setting, process, mode, agreed, flash, told>>

\* sniff(), and the mode that was asked for or auto().
Settle ==
    /\ pc = "sniff"
    /\ \/ \E m \in options.mode :
             /\ mode' = m
             /\ Goto(IF ModeRisky(m) /\ options.force = "off" THEN "risky" ELSE m)
       \/ /\ options.mode = {}
          /\ \/ \E m \in AutoModes : mode' = m /\ Goto(m)
             \/ AutoModes = {} /\ Exit("error") /\ UNCHANGED mode
       \/ Exit("error") /\ UNCHANGED mode
    /\ UNCHANGED <<setting, process, agreed, flash, told>>

\* confirm_risky_mode()
AskRisky ==
    /\ pc = "risky"
    /\ \/ agreed' = agreed \cup {"risky"} /\ Goto(mode)
       \/ agreed' = agreed /\ Exit("error")
    /\ UNCHANGED <<setting, process, mode, flash, told>>

\* What comes after the checks of either mode.
AfterChecks ==
    IF options.dryRun = "on" THEN Exit("ok")
    ELSE Goto(IF options.force = "on" THEN "write" ELSE "confirm")

\* write_dd() up to the question; validate() may refuse.
Dd ==
    /\ pc = "dd"
    /\ \/ IF options.blockSize = "bad" THEN Exit("error") ELSE AfterChecks
       \/ Exit("error")
    /\ UNCHANGED <<setting, process, mode, agreed, flash, told>>

\* write_copy() up to the question; a dry run of copy::run() may fail.
Copy ==
    /\ pc = "copy"
    /\ \/ IF ~CopyCapable THEN Exit("error") ELSE AfterChecks
       \/ options.dryRun = "on" /\ Exit("error")
    /\ UNCHANGED <<setting, process, mode, agreed, flash, told>>

Confirm ==
    /\ pc = "confirm"
    /\ \/ agreed' = agreed \cup {"flash"} /\ Goto("write")
       \/ agreed' = agreed /\ Exit("error")
    /\ UNCHANGED <<setting, process, mode, flash, told>>

\* write() or copy::run(): from here on the target may be another.
Write ==
    /\ pc = "write"
    /\ wrote' = "part"
    /\ checked' = IF options.fakeCheck = "on" THEN "yes" ELSE "no"
    /\ Goto("writing")
    /\ UNCHANGED <<setting, process, mode, agreed, told>>

Written ==
    /\ pc = "writing"
    /\ \/ wrote' = "all" /\ Exit("ok")
       \/ wrote' = wrote /\ Exit("error")
    /\ UNCHANGED <<setting, process, mode, agreed, checked, told>>

-----------------------------------------------------------------------------
(* The end of a process. *)

\* Mutant of Killed: a process that left no exit code is taken to have worked.
KilledUnnoticed ==
    /\ pc \notin {"exit", "ended"} /\ depth > 0 /\ os = "unix"
    /\ Exit("ok")
    /\ UNCHANGED <<setting, process, mode, agreed, flash, told>>

\* A process that is killed has no exit code: its parent exits with 1.
Killed ==
    /\ pc \notin {"exit", "ended"} /\ depth > 0 /\ os = "unix"
    /\ Exit("error")
    /\ UNCHANGED <<setting, process, mode, agreed, flash, told>>

\* The window of the elevated process is closed.
Closed ==
    /\ pc \notin {"exit", "ended"} /\ depth > 0 /\ os = "windows"
    /\ pc' = "ended"
    /\ UNCHANGED <<setting, process, mode, agreed, flash, status, told>>

\* Mutant of Unwind: somebody waits for the first process too.
UnwindPastFirst ==
    /\ pc = "exit" /\ os = "unix"
    /\ depth' = depth - 1
    /\ IF depth > 0 THEN UNCHANGED <<pc, told>> ELSE pc' = "ended" /\ told' = status
    /\ UNCHANGED <<setting, options, rights, mode, agreed, flash, status>>

\* The parent exits as the process it waited for.
Unwind ==
    /\ pc = "exit" /\ os = "unix"
    /\ IF depth > 0 THEN depth' = depth - 1 /\ UNCHANGED <<pc, told>>
                    ELSE pc' = "ended" /\ told' = status /\ depth' = depth
    /\ UNCHANGED <<setting, options, rights, mode, agreed, flash, status>>

\* Nobody waits.
Vanish ==
    /\ pc = "exit" /\ os = "windows"
    /\ pc' = "ended"
    /\ told' = IF depth = 0 THEN status ELSE told
    /\ UNCHANGED <<setting, process, mode, agreed, flash, status>>

Next ==
    \/ Parse \/ Relaunch \/ RelaunchByUac \/ Privileged \/ Settle \/ AskRisky \/ Dd \/ Copy
    \/ Confirm \/ Write \/ Written \/ Killed \/ Closed \/ Unwind \/ Vanish

Spec == Init /\ [][Next]_vars

-----------------------------------------------------------------------------
(* Correctness *)

TypeOK ==
    /\ pc \in {"start", "rights", "sniff", "risky", "dd", "copy", "confirm", "write",
               "writing", "exit", "ended"}
    /\ os \in {"unix", "windows"}
    /\ user \in Options /\ options \in Options
    /\ image \in Images
    /\ rights \in {"user", "root"} /\ grants \in {"nothing", "the same", "root"}
    /\ depth \in 0 .. MaxDepth
    /\ mode \in Modes \cup {"none"}
    /\ agreed \subseteq {"risky", "flash"}
    /\ checked \in {"no", "yes"} /\ wrote \in {"nothing", "part", "all"}
    /\ status \in {"none", "ok", "error"} /\ told \in {"none", "ok", "error"}

\* Through every relaunch, what is written is what the user asked for on the
\* first command line: not in a dry run, with consent, in the mode, with the
\* check and the parameters that were given.
WritesAsAsked ==
    wrote # "nothing" =>
        /\ user.dryRun = "off"
        /\ user.force = "on" \/ "flash" \in agreed
        /\ mode \in IF user.mode = {} THEN AutoModes ELSE user.mode
        /\ checked = "yes" <=> user.fakeCheck = "on"
        /\ mode = "dd" => options.offset = user.offset /\ options.blockSize = user.blockSize
        /\ mode = "copy" => options.label = user.label

\* The modes an image is made for.
Made == (IF DdBootable THEN {"dd"} ELSE {}) \cup (IF CopyCapable THEN {"copy"} ELSE {})

\* An image is written in a mode it is not made for only if the user named that
\* mode; when the other one would do, also only after the user agreed to the
\* risk or passed --force.  An image that neither mode is made for can be
\* written by --mode dd, with no question about the risk: mode_risky() lets it
\* pass.
NeverRiskyUnasked ==
    wrote # "nothing" /\ mode \notin Made =>
        /\ user.mode = {mode}
        /\ IF Made = {} THEN mode = "dd" ELSE user.force = "on" \/ "risky" \in agreed

\* What an exit status of 0 is to mean: all was written, or a dry run passed.
Earned == IF user.dryRun = "on" THEN wrote = "nothing" ELSE wrote = "all"

\* The last process exits with 0 only when that is earned, however the ones
\* before it were launched, killed or closed.  The first process exits as the
\* last one did, but for one that UAC launched another for: that one has exited
\* with 0 before, whatever comes of the flash.
ExitTellsTheEnd ==
    pc = "ended" =>
        /\ status = "ok" => Earned
        /\ told = IF os = "windows" /\ depth > 0 THEN "ok" ELSE status
=============================================================================
