-------------------------- MODULE FfmpegBindProofs --------------------------
(* The table of ffmpeg-bind.c, for any range of majors and any number of
   functions.  What a step of ffb_load relies on (Progress): the functions bound
   so far are exactly those before `slot`, all in the library whose handle is
   held, and outside the loop's body nothing is bound and nothing is held, unless
   the load has succeeded.                                                    *)
EXTENDS FfmpegBind, TLAPS

Trying == pc \in {"bind", "version", "next_major"}

(* The table and the handles, at each point of ffb_load. *)
Progress ==
    /\ platform = "windows" => handles = {}
    /\ g_loaded => pc = "idle"
    /\ pc = "idle" /\ ~g_loaded => g_ffb = Zeroed /\ handles = {}
    /\ pc = "open" => g_ffb = Zeroed /\ handles = {}
    /\ Trying => h \in Mapped /\ handles \subseteq {h} /\ major <= MaxMajor
    /\ pc = "bind" => \A s \in 1..Slots : g_ffb[s] = IF s < slot THEN h ELSE NULL
    /\ pc = "version" => \A s \in 1..Slots : g_ffb[s] = h
    /\ pc = "next_major" => \A s \in 1..Slots : g_ffb[s] \in {h, NULL}

IInv == TypeOK /\ Progress /\ LoadedIsWhole

-----------------------------------------------------------------------------
LEMMA Numbers ==
    /\ 1 \in 1..Slots /\ Slots \in 1..Slots
    /\ MinMajor \in MinMajor..(MaxMajor + 1)
    /\ Zeroed \in [1..Slots -> Majors \cup {NULL}]
    /\ -1 \in {-1} \cup (MinMajor - 1)..MaxMajor
    /\ \A s \in 1..Slots : (IF s = Slots THEN 1 ELSE s + 1) \in 1..Slots
    /\ \A m \in MinMajor..(MaxMajor + 1) :
          m <= MaxMajor => m + 1 \in MinMajor..(MaxMajor + 1) /\ m \in Majors
    /\ NULL \notin Majors
BY BindAssumption DEF Zeroed, NULL, Majors

LEMMA InitHolds == Init => IInv
<1> SUFFICES ASSUME Init PROVE IInv  OBVIOUS
<1>1. TypeOK
  <2> USE DEF Init
  <2>1. g_ffb \in [1..Slots -> Majors \cup {NULL}]  BY Numbers
  <2>2. major \in MinMajor..(MaxMajor + 1) /\ slot \in 1..Slots /\ h \in Majors \cup {NULL}
    BY Numbers
  <2>3. g_major \in {-1} \cup (MinMajor - 1)..MaxMajor  BY Numbers
  <2> QED  BY <2>1, <2>2, <2>3 DEF TypeOK
<1>2. Progress  BY DEF Init, Progress, Trying
<1>3. LoadedIsWhole  BY DEF Init, LoadedIsWhole
<1> QED  BY <1>1, <1>2, <1>3 DEF IInv

(* While a library is tried, its handle is a library; NULL is nowhere. *)
LEMMA HandleIsLibrary == TypeOK /\ Progress /\ Trying => h \in Majors
BY DEF TypeOK, Progress, Mapped

LEMMA TypeKept == TypeOK /\ Progress /\ [Next]_vars => TypeOK'
<1> SUFFICES ASSUME TypeOK, Progress, [Next]_vars PROVE TypeOK'  OBVIOUS
<1> USE DEF TypeOK, env, globals, local
<1>1. CASE ObsMaps  BY <1>1 DEF ObsMaps
<1>2. CASE Load  BY <1>2, Numbers DEF Load, StartLoad
<1>3. CASE GiveUp  BY <1>3 DEF GiveUp
<1>4. CASE OpenLib
  <2>1. Openable \subseteq Majors  BY Numbers, <1>4 DEF OpenLib, Openable, Mapped
  <2>2. h' \in Majors /\ handles' \subseteq Majors  BY <1>4, <2>1 DEF OpenLib
  <2> QED  BY <1>4, <2>2, Numbers DEF OpenLib
<1>5. CASE OpenFails  BY <1>5, Numbers DEF OpenFails
<1>6. CASE Bind
  <2>1. h \in Majors  BY <1>6, HandleIsLibrary DEF Bind, Trying
  <2>2. Found \in [1..Slots -> Majors \cup {NULL}]  BY <2>1 DEF Found
  <2>3. slot' \in 1..Slots  BY <1>6, Numbers DEF Bind, BindInto
  <2>4. g_ffb' \in [1..Slots -> Majors \cup {NULL}]  BY <1>6, <2>2 DEF Bind, BindInto
  <2> QED  BY <1>6, <2>3, <2>4 DEF Bind, BindInto
<1>7. CASE CheckVersion
  <2>1. g_ffb[Slots] = h /\ h \in Majors
    BY <1>7, HandleIsLibrary, Numbers DEF CheckVersion, Progress, Trying
  <2>2. g_major' \in (MinMajor - 1)..MaxMajor  BY <1>7, <2>1 DEF CheckVersion
  <2> QED  BY <1>7, <2>2 DEF CheckVersion
<1>8. CASE NextMajor  BY <1>8, Numbers DEF NextMajor, LeaveMajor, Progress, Trying
<1>9. CASE UNCHANGED vars  BY <1>9 DEF vars
<1> QED  BY <1>1, <1>2, <1>3, <1>4, <1>5, <1>6, <1>7, <1>8, <1>9 DEF Next, LoadStep

(* What the load reports is what it left. *)
LEMMA ProgressKept == IInv /\ [Next]_vars => Progress'
<1> SUFFICES ASSUME IInv, [Next]_vars PROVE Progress'  OBVIOUS
<1>0. TypeOK /\ Progress  BY DEF IInv
<1> USE DEF env, globals, local, Trying
<1>1. CASE ObsMaps  BY <1>0, <1>1 DEF ObsMaps, Progress, Mapped
<1>2. CASE Load  BY <1>0, <1>2 DEF Load, StartLoad, Progress
<1>3. CASE GiveUp  BY <1>0, <1>3 DEF GiveUp, Progress
<1>4. CASE OpenLib
  <2>1. h' \in Mapped' /\ handles' \subseteq {h'} /\ (platform = "windows" => handles' = {})
    BY <1>0, <1>4 DEF OpenLib, Openable, Progress, Mapped, TypeOK
  <2>2. slot' = 1 /\ \A s \in 1..Slots : g_ffb'[s] = NULL /\ ~(s < 1)
    BY <1>4 DEF OpenLib, Zeroed
  <2> QED  BY <1>0, <1>4, <2>1, <2>2 DEF OpenLib, Progress
<1>5. CASE OpenFails  BY <1>0, <1>5 DEF OpenFails, Progress
<1>6. CASE Bind
  <2>0. /\ h \in Mapped /\ handles \subseteq {h} /\ major <= MaxMajor /\ ~g_loaded
        /\ \A s \in 1..Slots : g_ffb[s] = IF s < slot THEN h ELSE NULL
    BY <1>0, <1>6 DEF Bind, Progress
  <2>1. CASE slot \in exports[h] /\ BindInto(Found)
    <3>1. \A s \in 1..Slots : g_ffb'[s] = IF s = slot \/ s < slot THEN h ELSE NULL
      BY <1>0, <2>0, <2>1 DEF BindInto, Found, TypeOK
    <3>2. slot \in 1..Slots /\ Slots \in Nat  BY <1>0, BindAssumption DEF TypeOK
    <3>3. CASE slot = Slots
      <4>1. \A s \in 1..Slots : s = slot \/ s < slot  BY <3>2, <3>3
      <4> QED  BY <1>0, <2>0, <2>1, <3>1, <3>3, <4>1 DEF BindInto, Progress, Mapped
    <3>4. CASE slot # Slots
      <4>1. \A s \in 1..Slots : (s = slot \/ s < slot) <=> s < slot + 1  BY <3>2
      <4>2. slot' = slot + 1  BY <2>1, <3>4 DEF BindInto
      <4>3. \A s \in 1..Slots : g_ffb'[s] = IF s < slot' THEN h ELSE NULL
        BY <3>1, <4>1, <4>2
      <4> QED  BY <1>0, <2>0, <2>1, <3>4, <4>3 DEF BindInto, Progress, Mapped
    <3> QED  BY <3>3, <3>4
  <2>2. CASE slot \notin exports[h]
    <3>1. /\ pc' = "next_major"
          /\ UNCHANGED <<platform, obs, g_ffb, g_loaded, major, h, handles>>
      BY <1>6, <2>2 DEF Bind
    <3>2. \A s \in 1..Slots : g_ffb'[s] \in {h', NULL}  BY <2>0, <3>1
    <3> QED  BY <1>0, <2>0, <3>1, <3>2 DEF Progress, Mapped
  <2> QED  BY <1>6, <2>1, <2>2 DEF Bind
<1>7. CASE CheckVersion  BY <1>0, <1>7 DEF CheckVersion, Progress, Mapped
<1>8. CASE NextMajor  BY <1>0, <1>8 DEF NextMajor, LeaveMajor, Progress, TypeOK
<1>9. CASE UNCHANGED vars  BY <1>0, <1>9 DEF vars, Progress, Mapped
<1> QED  BY <1>1, <1>2, <1>3, <1>4, <1>5, <1>6, <1>7, <1>8, <1>9 DEF Next, LoadStep

LEMMA WholeKept == IInv /\ [Next]_vars => LoadedIsWhole'
<1> SUFFICES ASSUME IInv, [Next]_vars, g_loaded' PROVE LoadedIsWhole'
  BY DEF LoadedIsWhole
<1>0. TypeOK /\ Progress /\ LoadedIsWhole  BY DEF IInv
<1>1. CASE CheckVersion
  <2>1. h \in Mapped /\ \A s \in 1..Slots : g_ffb[s] = h
    BY <1>0, <1>1 DEF CheckVersion, Progress, Trying
  <2>2. g_major' = reports[h]  BY <1>1, <2>1, Numbers DEF CheckVersion
  <2>3. g_loaded' /\ g_major' >= MinMajor
    BY <1>0, <1>1 DEF CheckVersion, Progress
  <2>4. Mapped' = Mapped /\ g_ffb' = g_ffb /\ reports' = reports
    BY <1>1 DEF CheckVersion, Mapped, env
  <2> QED  BY <2>1, <2>2, <2>3, <2>4 DEF LoadedIsWhole, ffb_supported
<1>2. CASE ~CheckVersion
  <2>1. g_loaded /\ pc = "idle"
    BY <1>0, <1>2 DEF Next, LoadStep, ObsMaps, Load, StartLoad, GiveUp, OpenLib, OpenFails,
      Bind, BindInto, NextMajor, LeaveMajor, vars, globals, Progress
  <2>2. /\ UNCHANGED <<g_ffb, g_loaded, g_major, reports>>
        /\ Mapped \subseteq Mapped'
    BY <1>2, <2>1 DEF Next, LoadStep, ObsMaps, Load, GiveUp, OpenLib, OpenFails, Bind,
      NextMajor, LeaveMajor, vars, globals, env, Mapped
  <2> QED  BY <1>0, <2>1, <2>2 DEF LoadedIsWhole, ffb_supported
<1> QED  BY <1>1, <1>2

LEMMA IInvHolds == Spec => []IInv
<1>1. IInv /\ [Next]_vars => IInv'
  BY TypeKept, ProgressKept, WholeKept DEF IInv
<1> QED  BY InitHolds, <1>1, PTL DEF Spec

-----------------------------------------------------------------------------
(* Every variable of the binding keeps to its range; the loop never passes the
   major after the last.                                                      *)
THEOREM BindTypeCorrect == Spec => []TypeOK
<1>1. IInv => TypeOK  BY DEF IInv
<1> QED  BY IInvHolds, <1>1, PTL

(* A bound table is whole, from one library of at least the ABI floor. *)
THEOREM BoundTableIsWhole == Spec => []LoadedIsWhole
<1>1. IInv => LoadedIsWhole  BY DEF IInv
<1> QED  BY IInvHolds, <1>1, PTL

(* No function of the table is in a library that was closed. *)
THEOREM NoAddressDangles == Spec => []NothingDangles
<1>1. IInv => NothingDangles
  <2> SUFFICES ASSUME IInv, NEW s \in 1..Slots PROVE g_ffb[s] \in Mapped \cup {NULL}
    BY DEF NothingDangles
  <2>1. pc \in {"idle", "open", "bind", "version", "next_major"} /\ g_loaded \in BOOLEAN
    BY DEF IInv, TypeOK
  <2>2. CASE g_loaded  BY <2>2 DEF IInv, LoadedIsWhole
  <2>3. CASE ~g_loaded /\ pc \in {"idle", "open"}  BY <2>3 DEF IInv, Progress, Zeroed
  <2>4. CASE ~g_loaded /\ Trying  BY <2>4 DEF IInv, Progress, Trying
  <2> QED  BY <2>1, <2>2, <2>3, <2>4 DEF Trying
<1> QED  BY IInvHolds, <1>1, PTL

(* A load that failed leaves no function bound and no library held. *)
THEOREM FailureIsClean == Spec => []FailureLeavesNothing
<1>1. IInv => FailureLeavesNothing  BY DEF IInv, Progress, FailureLeavesNothing
<1> QED  BY IInvHolds, <1>1, PTL

(* A bound table is never bound again. *)
THEOREM BoundStaysBound == Spec => StaysLoaded
<1>1. IInv /\ [Next]_vars => [g_loaded => UNCHANGED globals]_vars
  <2> SUFFICES ASSUME IInv, Next, g_loaded PROVE UNCHANGED globals
    BY DEF vars
  <2>1. pc = "idle"  BY DEF IInv, Progress
  <2> QED
    BY <2>1 DEF Next, LoadStep, ObsMaps, Load, GiveUp, OpenLib, OpenFails, Bind, CheckVersion,
      NextMajor, LeaveMajor, globals
<1> QED  BY IInvHolds, <1>1, PTL DEF Spec, StaysLoaded
=============================================================================
