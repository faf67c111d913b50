----------------------------- MODULE FfmpegBind -----------------------------
(* The run-time binding of src/src/ffmpeg-bind.c: ffb_load probes libavcodec of
   one major after another and fills a table with the address of every function,
   in order.  The file is not part of the build; no other file calls it, so one
   caller is modelled, which calls again and again.

   A library is named by its major.  The address of a function is abstracted to
   the library it is in.  External: which libraries are installed and what they
   export and report, and OBS, which maps libraries as it goes and never unmaps
   one.                                                                      *)
EXTENDS Integers

CONSTANTS
    MinMajor,     \* FFMPEG_BIND_MIN_MAJOR
    MaxMajor,     \* 66
    Slots         \* functions in the table; the last one is avcodec_version

ASSUME BindAssumption ==
    /\ MinMajor \in Nat \ {0} /\ MaxMajor \in Nat /\ Slots \in Nat \ {0}
    /\ MinMajor <= MaxMajor

VARIABLES
    platform,              \* "posix" or "windows"
    installed, obs,        \* libraries dlopen can find; libraries OBS has mapped
    exports, reports,      \* what a library exports; the major it reports
    g_ffb, g_loaded, g_load_attempted, g_major, g_err,
    pc, major, h, slot,    \* ffb_load: program point, loop, handle, next function
    handles                \* libraries that dlopen has given a handle of

env     == <<platform, installed, exports, reports>>
globals == <<g_ffb, g_loaded, g_load_attempted, g_major, g_err>>
local   == <<pc, major, h, slot>>
vars    == <<env, obs, globals, local, handles>>

Majors == MinMajor..MaxMajor
NULL   == 0
Zeroed == [s \in 1..Slots |-> NULL]

Init == /\ platform \in {"posix", "windows"}
        /\ installed \in SUBSET Majors /\ obs \in SUBSET Majors
        /\ exports \in [Majors -> SUBSET (1..Slots)]
        /\ reports \in [Majors -> (MinMajor - 1)..MaxMajor]
        /\ g_ffb = Zeroed /\ g_loaded = FALSE /\ g_load_attempted = FALSE
        /\ g_major = -1 /\ g_err = "ok"
        /\ pc = "idle" /\ major = MinMajor /\ h = NULL /\ slot = 1
        /\ handles = {}

(* What is in the process: a library stays as long as somebody holds it. *)
Mapped == obs \cup handles

(* OBS loads a plugin or an encoder that needs another library. *)
ObsMaps == /\ \E m \in Majors \ obs : obs' = obs \cup {m}
           /\ UNCHANGED <<env, globals, local, handles>>

-----------------------------------------------------------------------------
(* ffb_load *)

StartLoad ==
    /\ pc = "idle"
    /\ g_load_attempted' = TRUE
    /\ g_ffb' = Zeroed /\ g_major' = -1 /\ g_err' = "ok"
    /\ pc' = "open" /\ major' = MinMajor
    /\ UNCHANGED <<env, obs, g_loaded, h, slot, handles>>

(* Mutant: a load that failed is not tried again. *)
LoadOnce == ~g_loaded /\ ~g_load_attempted /\ StartLoad

(* A call when the table is bound returns at once and changes nothing. *)
Load == ~g_loaded /\ StartLoad

GiveUp ==
    /\ pc = "open" /\ major > MaxMajor
    /\ pc' = "idle"
    /\ UNCHANGED <<env, obs, globals, major, h, slot, handles>>

(* ffb_open_lib: dlopen loads an installed library or finds a mapped one; Windows
   only looks among the mapped ones, for another major when this one is absent. *)
Openable ==
    IF platform = "posix"
    THEN {major} \cap (installed \cup Mapped)
    ELSE IF major \in obs THEN {major} ELSE obs

OpenLib ==
    /\ pc = "open" /\ major <= MaxMajor
    /\ \E lib \in Openable :
          /\ h' = lib
          /\ handles' = IF platform = "posix" THEN handles \cup {lib} ELSE handles
    /\ g_ffb' = Zeroed
    /\ pc' = "bind" /\ slot' = 1
    /\ UNCHANGED <<env, obs, g_loaded, g_load_attempted, g_major, g_err, major>>

OpenFails ==
    /\ pc = "open" /\ major <= MaxMajor /\ Openable = {}
    /\ g_err' = "not opened"
    /\ major' = major + 1
    /\ UNCHANGED <<env, obs, g_ffb, g_loaded, g_load_attempted, g_major, pc, h, slot,
                   handles>>

BindInto(table) ==
    /\ g_ffb' = table
    /\ slot' = IF slot = Slots THEN 1 ELSE slot + 1
    /\ pc' = IF slot = Slots THEN "version" ELSE "bind"
    /\ UNCHANGED <<env, obs, g_loaded, g_load_attempted, g_major, g_err, major, h, handles>>

Found == [g_ffb EXCEPT ![slot] = h]

(* Mutant: only the last function has to be there. *)
BindWhatIsThere ==
    /\ pc = "bind" /\ (slot = Slots => slot \in exports[h])
    /\ BindInto(IF slot \in exports[h] THEN Found ELSE g_ffb)

(* FFB_BIND, once for every function. *)
Bind ==
    /\ pc = "bind"
    /\ \/ slot \in exports[h] /\ BindInto(Found)
       \/ /\ slot \notin exports[h]
          /\ g_err' = "symbol not found"
          /\ pc' = "next_major" /\ slot' = 1
          /\ UNCHANGED <<env, obs, g_ffb, g_loaded, g_load_attempted, g_major, major, h,
                         handles>>

(* The library is asked for its version through the table. *)
CheckVersion ==
    /\ pc = "version"
    /\ g_major' = reports[g_ffb[Slots]]
    /\ IF g_major' >= MinMajor
       THEN g_err' = "loaded" /\ g_loaded' = TRUE /\ pc' = "idle"
       ELSE UNCHANGED <<g_err, g_loaded>> /\ pc' = "next_major"
    /\ UNCHANGED <<env, obs, g_ffb, g_load_attempted, major, h, slot, handles>>

LeaveMajor(table, closed) ==
    /\ pc = "next_major"
    /\ g_ffb' = table
    /\ handles' = IF platform = "posix" THEN handles \ closed ELSE handles
    /\ major' = major + 1
    /\ pc' = "open" /\ h' = NULL
    /\ UNCHANGED <<env, obs, g_loaded, g_load_attempted, g_major, g_err, slot>>

(* Mutants: the functions bound so far stay in the table; the handle is kept. *)
NextMajorUncleared == LeaveMajor(g_ffb, {h})
NextMajorUnclosed  == LeaveMajor(Zeroed, {})

(* The label next_major, reached by a goto or from above. *)
NextMajor == LeaveMajor(Zeroed, {h})

LoadStep == Load \/ GiveUp \/ OpenLib \/ OpenFails \/ Bind \/ CheckVersion \/ NextMajor

Next == ObsMaps \/ LoadStep

Spec == Init /\ [][Next]_vars

(* The caller keeps asking: ffb_ok and ffb_supported load when nothing is bound. *)
FairSpec == Spec /\ WF_vars(LoadStep)

-----------------------------------------------------------------------------
(* ffb_ok(), ffb_supported() once their load has returned. *)
ffb_ok == g_loaded
ffb_supported == g_loaded /\ g_major >= MinMajor

TypeOK ==
    /\ platform \in {"posix", "windows"}
    /\ installed \subseteq Majors /\ obs \subseteq Majors /\ handles \subseteq Majors
    /\ exports \in [Majors -> SUBSET (1..Slots)]
    /\ reports \in [Majors -> (MinMajor - 1)..MaxMajor]
    /\ g_ffb \in [1..Slots -> Majors \cup {NULL}]
    /\ g_loaded \in BOOLEAN /\ g_load_attempted \in BOOLEAN
    /\ g_major \in {-1} \cup (MinMajor - 1)..MaxMajor
    /\ g_err \in {"ok", "not opened", "symbol not found", "loaded"}
    /\ pc \in {"idle", "open", "bind", "version", "next_major"}
    /\ major \in MinMajor..(MaxMajor + 1) /\ slot \in 1..Slots
    /\ h \in Majors \cup {NULL}

(* A bound table is whole: every function, all from one library that reports at
   least the ABI floor, although several libraries may have been bound in part
   and given up before (ffb_load, "the very first one with every symbol present
   wins").                                                                   *)
LoadedIsWhole ==
    g_loaded => \E lib \in Mapped : /\ \A s \in 1..Slots : g_ffb[s] = lib
                                    /\ g_major = reports[lib] /\ ffb_supported

(* No address ever points into a library that may have left the process: not
   after the dlclose of a library that was given up, nor while the next one is
   bound.                                                                    *)
NothingDangles == \A s \in 1..Slots : g_ffb[s] \in Mapped \cup {NULL}

(* ffmpeg-bind.h: "On failure the table stays zeroed"; and no handle is kept. *)
FailureLeavesNothing ==
    pc = "idle" /\ ~g_loaded => g_ffb = Zeroed /\ handles = {}

(* ffmpeg-bind.h: "Safe to call more than once (no-op if already loaded)": what
   is bound stays bound, to the same library.                                *)
StaysLoaded == [][g_loaded => UNCHANGED globals]_vars

Usable(m) == exports[m] = 1..Slots /\ reports[m] >= MinMajor

(* The comment in ffb_load, "a transient failure is retried on the next call": a
   usable library that OBS maps, at whatever moment, is bound in the end.     *)
RetrySucceeds == (\E m \in obs : Usable(m)) ~> ffb_ok
=============================================================================
