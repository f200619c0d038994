---------------------------- MODULE RuntimeFile ----------------------------
(***************************************************************************)
(* internal/config/runtime_bootstrap.go and its callers: the file that     *)
(* keeps the local API key.  A start reads it and decides the mode; a      *)
(* setup or runtime form replaces it by four file operations, which other  *)
(* saves, a failing disk and the end of the process may interrupt.  Only   *)
(* Windows starts from the file, so the operations are those of Windows: a *)
(* file that another handle has open can be neither renamed nor removed.   *)
(***************************************************************************)
EXTENDS Naturals

CONSTANTS Saves,          \* save requests that may be under way at the same time
          Keys,           \* the keys that are submitted
          None,           \* no file
          Empty,          \* a file just truncated
          Broken,         \* a file without a readable key: cut off, or mixed
          IOFaults,       \* TRUE: a file operation may fail (disk full, file open elsewhere)
          Crashes         \* TRUE: the process may end at any point

ASSUME RuntimeAssumption == /\ None \notin Keys \cup {Empty, Broken}
                            /\ Empty \notin Keys \cup {Broken}
                            /\ Broken \notin Keys
                            /\ {IOFaults, Crashes} \subseteq BOOLEAN

VARIABLES file,           \* runtime.json
          tmp,            \* runtime.json.tmp
          mode,           \* "off", or the StartupMode of the process
          active,         \* the key of the running process
          save,           \* per save request: its pc, its key, and (history) whether it was alone
          last,           \* history: the key of the last save that reported success
          risk            \* history: a save has removed the file, and no save that was
                          \* alone has succeeded since

runtimeVars == <<file, tmp, mode, active, save, last, risk>>

Contents == Keys \cup {None, Empty, Broken}

Idle == [pc |-> "idle", key |-> None, alone |-> FALSE]

UnderWay(s) == save[s].pc # "idle"

\* Another save has the temporary file open.
TmpOpen(s) == \E r \in Saves \ {s} : save[r].pc = "write"

Answer(s) == save' = [save EXCEPT ![s] = Idle]

Step(s, pc) == save' = [save EXCEPT ![s].pc = pc]

RuntimeInit ==
  /\ file = None /\ tmp = None
  /\ mode = "off" /\ active = None
  /\ save = [s \in Saves |-> Idle]
  /\ last = None /\ risk = FALSE

-----------------------------------------------------------------------------
(* Start and end of the process *)

\* Mutant: a file that is there is taken for a good one.
Start_AnyFile ==
  /\ mode = "off"
  /\ IF file # None
     THEN mode' = "normal" /\ active' = file
     ELSE mode' = "setup" /\ active' = None
  /\ UNCHANGED <<file, tmp, save, last, risk>>

\* LoadWindowsBootstrap: no file or no key in it is a setup start.
Start ==
  /\ mode = "off"
  /\ IF file \in Keys
     THEN mode' = "normal" /\ active' = file
     ELSE mode' = "setup" /\ active' = None
  /\ UNCHANGED <<file, tmp, save, last, risk>>

\* A crash, or the end of a shutdown: what is under way stops where it is.
End ==
  /\ Crashes
  /\ mode # "off"
  /\ mode' = "off" /\ active' = None
  /\ save' = [s \in Saves |-> Idle]
  /\ \/ UNCHANGED tmp
     \/ (\E s \in Saves : save[s].pc = "write") /\ tmp' = Broken
  /\ UNCHANGED <<file, last, risk>>

-----------------------------------------------------------------------------
(* SaveRuntimeFile *)

\* The POST of a setup or runtime form with the write token of this process.
Submit(s) ==
  /\ mode # "off"
  /\ ~ UnderWay(s)
  /\ \E key \in Keys :
       save' = [r \in Saves |->
                  IF r = s THEN [pc |-> "open", key |-> key, alone |-> \A q \in Saves : ~ UnderWay(q)]
                  ELSE [save[r] EXCEPT !.alone = FALSE]]
  /\ UNCHANGED <<file, tmp, mode, active, last, risk>>

\* Mutant: runtime.json is the file that is truncated.
OpenTmp_InPlace(s) ==
  /\ save[s].pc = "open"
  /\ file' = Empty /\ tmp' = Empty
  /\ Step(s, "write")
  /\ UNCHANGED <<mode, active, last, risk>>

\* os.WriteFile opens and truncates, even under another save's handle ...
OpenTmp(s) ==
  /\ save[s].pc = "open"
  /\ tmp' = Empty
  /\ Step(s, "write")
  /\ UNCHANGED <<file, mode, active, last, risk>>

\* Mutant: an error of the write is not looked at.
WriteTmp_Unchecked(s) ==
  /\ save[s].pc = "write"
  /\ tmp' \in {save[s].key, Broken}
  /\ Step(s, "remove")
  /\ UNCHANGED <<file, mode, active, last, risk>>

\* ... and writes from the beginning.  Over what other saves wrote since, a body that
\* is shorter leaves the end of a longer one.
WriteTmp(s) ==
  /\ save[s].pc = "write"
  /\ \/ tmp' = save[s].key
     \/ tmp \notin {Empty, save[s].key} /\ tmp' = Broken
  /\ Step(s, "remove")
  /\ UNCHANGED <<file, mode, active, last, risk>>

\* The opening or the write fails: an error is answered, what was written stays.
WriteFails(s) ==
  /\ IOFaults
  /\ save[s].pc \in {"open", "write"}
  /\ Answer(s)
  /\ UNCHANGED tmp \/ (save[s].pc = "write" /\ tmp' = Broken)
  /\ UNCHANGED <<file, mode, active, last, risk>>

\* A file that is not there is as good as removed.
RemoveFile(s) ==
  /\ save[s].pc = "remove"
  /\ file' = None
  /\ Step(s, "rename")
  /\ risk' = TRUE
  /\ UNCHANGED <<tmp, mode, active, last>>

\* A page that reads runtime.json is enough to make the removal fail.
RemoveFails(s) ==
  /\ IOFaults
  /\ save[s].pc = "remove"
  /\ tmp' = IF TmpOpen(s) THEN tmp ELSE None
  /\ Answer(s)
  /\ UNCHANGED <<file, mode, active, last, risk>>

RenameTmp(s) ==
  /\ save[s].pc = "rename"
  /\ tmp # None /\ ~ TmpOpen(s)
  /\ file' = tmp /\ tmp' = None
  /\ Answer(s)
  /\ last' = save[s].key /\ risk' = ~ save[s].alone
  /\ UNCHANGED <<mode, active>>

\* The temporary file has gone under another save's name, or is open there.
RenameFails(s) ==
  /\ save[s].pc = "rename"
  /\ tmp = None \/ TmpOpen(s) \/ IOFaults
  /\ Answer(s)
  /\ UNCHANGED <<file, tmp, mode, active, last, risk>>

SaveStep(s) == \/ Submit(s) \/ OpenTmp(s) \/ WriteTmp(s) \/ WriteFails(s)
               \/ RemoveFile(s) \/ RemoveFails(s) \/ RenameTmp(s) \/ RenameFails(s)

RuntimeNext == Start \/ End \/ \E s \in Saves : SaveStep(s)

RuntimeSpec == RuntimeInit /\ [][RuntimeNext]_runtimeVars

-----------------------------------------------------------------------------
(* Properties *)

RuntimeTypeOK ==
  /\ file \in Contents /\ tmp \in Contents
  /\ mode \in {"off", "setup", "normal"}
  /\ active \in Keys \cup {None}
  /\ save \in [Saves -> [pc : {"idle", "open", "write", "remove", "rename"},
                         key : Keys \cup {None}, alone : BOOLEAN]]
  /\ last \in Keys \cup {None}
  /\ risk \in BOOLEAN

\* A saved key survives everything but the two operations that replace it: whatever
\* saves fail or are cut off by the end of the process while they write, and however
\* often, runtime.json holds the key of the last success, unless a save has removed it
\* and none that ran alone has succeeded since (SaveRuntimeFile).
KeySurvives == last # None /\ ~ risk => file = last

\* What the removal puts at risk is still there: as long as the save that removed the
\* file has run alone and has not failed, its complete key waits in the temporary file
\* (WriteFile before Remove before Rename).
NextKeyIsReady ==
  \A s \in Saves : save[s].alone /\ save[s].pc \in {"remove", "rename"} => tmp = save[s].key

\* "Runtime key changes are saved to `runtime.json`" (docs/usage.md): once saves have
\* reported success and none is under way, the file holds a key.
SavedKeyStays == last # None /\ (\A s \in Saves : ~ UnderWay(s)) => file \in Keys
=============================================================================
