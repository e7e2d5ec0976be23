----------------------- MODULE CoupledInterfaces_proofs -----------------------
(* Theorems about CoupledInterfaces, for any interfaces, inputs and bounds,  *)
(* and their proofs.                                                         *)
EXTENDS CoupledInterfaces, TLAPS

-----------------------------------------------------------------------------
(* Histories. *)

LEMMA HistoriesAreSequences ==
    ASSUME InterfaceAssumption, NEW h \in Histories
    PROVE  h \in Seq(Loads) /\ Len(h) <= MaxSteps
<1>1. PICK n \in 0..MaxSteps : h \in [1..n -> Loads]
  BY DEF Histories
<1>2. n \in Nat /\ n <= MaxSteps
  BY <1>1 DEF InterfaceAssumption
<1>3. h \in Seq(Loads) /\ Len(h) = n
  BY <1>1, <1>2
<1>4. QED BY <1>2, <1>3

LEMMA ShortSequencesAreHistories ==
    ASSUME InterfaceAssumption, NEW s \in Seq(Loads), Len(s) <= MaxSteps
    PROVE  s \in Histories
<1>1. Len(s) \in 0..MaxSteps /\ s \in [1..Len(s) -> Loads]
  BY DEF InterfaceAssumption
<1>2. QED BY <1>1 DEF Histories

LEMMA EmptyIsHistory ==
    ASSUME InterfaceAssumption
    PROVE  << >> \in Contents /\ << >> # Broken
<1>1. << >> \in Seq(Loads) /\ Len(<< >>) <= MaxSteps
  BY DEF InterfaceAssumption
<1>2. << >> \in Histories
  BY <1>1, ShortSequencesAreHistories
<1>3. QED BY <1>2 DEF Contents, InterfaceAssumption

LEMMA ExtendIsContent ==
    ASSUME InterfaceAssumption, NEW p \in Contents, NEW l \in Loads,
           p # Broken => Len(p) < MaxSteps
    PROVE  Extend(p, l) \in Contents
<1>1. CASE p = Broken
  BY <1>1 DEF Extend, Contents
<1>2. CASE p # Broken
  <2>1. p \in Seq(Loads) /\ Len(p) < MaxSteps
    BY <1>2, HistoriesAreSequences DEF Contents
  <2>2. Append(p, l) \in Seq(Loads) /\ Len(Append(p, l)) <= MaxSteps
    BY <2>1 DEF InterfaceAssumption
  <2>3. QED BY <1>2, <2>2, ShortSequencesAreHistories DEF Extend, Contents
<1>3. QED BY <1>1, <1>2

\* Extending a point keeps its prefixes.
LEMMA ExtendKeepsPrefixes ==
    ASSUME NEW p \in Seq(Loads), NEW l \in Loads
    PROVE  /\ Len(Append(p, l)) = Len(p) + 1
           /\ SubSeq(Append(p, l), 1, Len(p) + 1) = Append(p, l)
           /\ \A i \in 1..Len(p) : SubSeq(Append(p, l), 1, i) = SubSeq(p, 1, i)
<1>1. Len(Append(p, l)) = Len(p) + 1
  OBVIOUS
<1>2. SubSeq(Append(p, l), 1, Len(p) + 1) = Append(p, l)
  OBVIOUS
<1>3. ASSUME NEW i \in 1..Len(p)
      PROVE  SubSeq(Append(p, l), 1, i) = SubSeq(p, 1, i)
  OBVIOUS
<1>4. QED BY <1>1, <1>2, <1>3

-----------------------------------------------------------------------------
(* Types. *)

States == [Fields -> Contents]

\* The fields a step starts from, which depend on the interface and the build
\* only.
LEMMA LiveAreFields ==
    /\ LiveFields \subseteq Fields \ {"x0", "x"}
    /\ {"q", "v", "vd", "a"} \subseteq LiveFields
    /\ MotionFields \subseteq Fields
BY DEF LiveFields, Fields, MotionFields

LEMMA LiveStays ==
    ASSUME kind' = kind, aliased' = aliased
    PROVE  LiveFields' = LiveFields
BY DEF LiveFields

LEMMA PointIsContent ==
    ASSUME NEW s \in States
    PROVE  Point(s) \in Contents
BY DEF Point, States, Fields, Contents

\* A State with a field that belongs to no point is at none.
LEMMA BrokenFieldBreaks ==
    ASSUME NEW s \in States, NEW c \in LiveFields, s[c] = Broken
    PROVE  Point(s) = Broken
BY DEF Point

LEMMA AllIsState ==
    ASSUME NEW c \in Contents
    PROVE  /\ All(c) \in States
           /\ Motion(All(c)) \in [MotionFields -> Contents]
           /\ Point(All(c)) = c
           /\ All(c)["q"] = c /\ All(c)["x"] = c /\ All(c)["x0"] = c
<1>1. All(c) \in States
  BY DEF All, States
<1>2. \A f \in Fields : All(c)[f] = c
  BY DEF All
<1>3. {"q", "x", "x0"} \subseteq Fields
  BY DEF Fields
<1>4. Motion(All(c)) \in [MotionFields -> Contents]
  BY <1>2, LiveAreFields DEF Motion
<1>5. Point(All(c)) = c
  BY <1>2, <1>3, LiveAreFields DEF Point
<1>6. QED BY <1>1, <1>2, <1>3, <1>4, <1>5

\* What a solve that led to p leaves.
LEMMA SolvedIsState ==
    ASSUME TypeOK, NEW p \in Contents
    PROVE  /\ Solved(p) \in States
           /\ Point(Solved(p)) = p
           /\ Solved(p)["q"] = p
           /\ Solved(p)["x"] = Placed(p, state["x0"])
           /\ Solved(p)["x0"] = state["x0"]
           /\ Placed(p, state["x0"]) \in Contents
<1>1. state["x0"] \in Contents /\ Placed(p, state["x0"]) \in Contents
  BY DEF TypeOK, Fields, Placed, Contents
<1>2. Solved(p)["x0"] = state["x0"] /\ Solved(p)["x"] = Placed(p, state["x0"])
  BY DEF Solved, Fields
<1>3. \A c \in Fields \ {"x0", "x"} : Solved(p)[c] = p
  BY DEF Solved
<1>4. Solved(p) \in States
  <2>1. \A c \in Fields : Solved(p)[c] \in Contents
    BY <1>1, <1>2, <1>3
  <2>2. Solved(p) = [c \in Fields |-> Solved(p)[c]]
    BY DEF Solved
  <2> HIDE DEF Solved
  <2>3. QED BY <2>1, <2>2 DEF States
<1>5. Point(Solved(p)) = p /\ Solved(p)["q"] = p
  BY <1>3, LiveAreFields DEF Point
<1>6. QED BY <1>1, <1>2, <1>4, <1>5

LEMMA MotionIsTyped ==
    ASSUME NEW s \in States
    PROVE  Motion(s) \in [MotionFields -> Contents]
BY DEF Motion, MotionFields, States, Fields

LEMMA StartedIsState ==
    ASSUME TypeOK
    PROVE  Started \in States
BY DEF TypeOK, Started, States, Fields, MotionFields

LEMMA CopiedIsState ==
    ASSUME NEW old \in States, NEW copy \in States
    PROVE  /\ CopiedFields(old, copy) \in States
           /\ Point(CopiedFields(old, copy)) = Point(old)
           /\ \A c \in Fields \ {"x0"} : CopiedFields(old, copy)[c] = old[c]
           /\ CopiedFields(old, copy)["x0"] = copy["x0"]
<1> DEFINE new == CopiedFields(old, copy)
<1>1. new \in States /\ new["x0"] = copy["x0"]
  BY DEF CopiedFields, States, Fields
<1>2. \A c \in Fields \ {"x0"} : new[c] = old[c]
  BY DEF CopiedFields, States
<1>3. Point(new) = Point(old)
  <2> HIDE DEF new
  <2>1. \A c \in LiveFields : new[c] = old[c]
    BY <1>2, LiveAreFields
  <2>2. new["q"] = old["q"]
    BY <2>1, LiveAreFields
  <2>3. QED BY <2>1, <2>2 DEF Point
<1>4. QED BY <1>1, <1>2, <1>3

LEMMA WrittenIsTyped ==
    ASSUME InterfaceAssumption, TypeOK, NEW index \in 0..MaxTime[kind],
           host_state'["q"] \in Contents
    PROVE  /\ DOMAIN Written(index) = DOMAIN rows \cup {index}
           /\ DOMAIN Written(index) \subseteq 0..MaxTime[kind]
           /\ \A i \in DOMAIN Written(index) : Written(index)[i] \in Contents
BY DEF Written, TypeOK

LEMMA InitTypes == ASSUME InterfaceAssumption, Init PROVE TypeOK
<1>1. All(<< >>) \in States /\ Motion(All(<< >>)) \in [MotionFields -> Contents]
  BY EmptyIsHistory, AllIsState
<1>2. 0 \in 0..MaxTime[kind]
  <2>1. kind \in Kinds
    BY DEF Init
  <2>2. MaxTime[kind] \in Nat
    BY <2>1 DEF InterfaceAssumption
  <2>3. QED BY <2>2
<1>3. QED
  BY <1>1, <1>2, EmptyIsHistory DEF Init, Constructed, TypeOK, Returns, States

LEMMA RestartedTypes ==
    ASSUME InterfaceAssumption, TypeOK, Restarted,
           file' \in States \cup {Unreadable}
    PROVE  TypeOK'
<1>1. All(<< >>) \in States /\ Motion(All(<< >>)) \in [MotionFields -> Contents]
  BY EmptyIsHistory, AllIsState
<1>2. 0 \in 0..MaxTime[kind] /\ kind' = kind
  BY DEF InterfaceAssumption, Restarted, TypeOK
<1>3. QED
  BY <1>1, <1>2, EmptyIsHistory DEF Restarted, TypeOK, Returns, States

\* A file cut short: its fields are those of the state or Broken.
LEMMA CutShortIsState ==
    ASSUME TypeOK, NEW count \in 0..6
    PROVE  /\ CutShort(count) \in States
           /\ \A c \in Fields : CutShort(count)[c] \in {state[c], Broken}
           /\ count < 6 => CutShort(count)["a"] = Broken
           /\ CutShort(count)["f"] = Broken
           /\ count = 6 => \A c \in Fields \ {"f"} : CutShort(count)[c] = state[c]
<1>1. CutShort(count) \in States
  BY DEF CutShort, TypeOK, States, Contents
<1>2. \A c \in Fields : CutShort(count)[c] \in {state[c], Broken}
  BY DEF CutShort
<1>3. count < 6 => CutShort(count)["a"] = Broken
  BY DEF CutShort, WriteOrder, Fields
<1>4. CutShort(count)["f"] = Broken
  BY DEF CutShort, WriteOrder, Fields
<1>5. ASSUME count = 6, NEW c \in Fields \ {"f"}
      PROVE  CutShort(count)[c] = state[c]
  <2>1. \E i \in 1..6 : WriteOrder[i] = c
    BY <1>5 DEF WriteOrder, Fields
  <2>2. QED BY <1>5, <2>1 DEF CutShort
<1>6. QED BY <1>1, <1>2, <1>3, <1>4, <1>5

LEMMA IncompleteIsState ==
    ASSUME InterfaceAssumption, TypeOK, NEW content \in Incomplete
    PROVE  content \in States \cup {Unreadable}
BY CutShortIsState DEF Incomplete, InterfaceAssumption, TypeOK, States

LEMMA StepSucceedsTypes ==
    ASSUME InterfaceAssumption, TypeOK, NEW l \in Loads, Step(l), StepSucceeds(l)
    PROVE  TypeOK'
<1> DEFINE p == Extend(Point(Started), l)
<1>1. p \in Contents
  BY StartedIsState, PointIsContent, ExtendIsContent DEF Step
<1> HIDE DEF p
<1>2. state' = Solved(p) /\ host_output' \in Contents
  <2>1. state' = Solved(p) /\ host_output' = state'["x"]
    BY DEF StepSucceeds, Converged, p
  <2>2. QED BY <1>1, <2>1, SolvedIsState
<1>3. /\ state' \in States /\ state'["q"] = p
      /\ nodes' = Motion(state') /\ host_state' = nodes'
      /\ nodes' \in [MotionFields -> Contents]
  BY <1>1, <1>2, SolvedIsState, MotionIsTyped DEF StepSucceeds, Refresh
<1>4. host_state'["q"] \in Contents
  BY <1>3 DEF MotionFields
<1>5. /\ MaxTime[kind] \in Nat /\ kind' = kind /\ aliased' = aliased
      /\ time_step' \in 0..MaxTime[kind] /\ current_timestep' \in 0..MaxTime[kind]
  BY DEF Step, StepSucceeds, Publish, TypeOK, InterfaceAssumption
<1>6. reaction' \in Contents
  BY <1>1, <1>3 DEF StepSucceeds, Publish, TypeOK
<1>7. DOMAIN rows' \subseteq 0..MaxTime[kind] /\ \A i \in DOMAIN rows' : rows'[i] \in Contents
  <2>1. kind \in {"cfd", "blade", "turbine"}
    BY DEF TypeOK, InterfaceAssumption
  <2>2. CASE kind = "cfd"
    <3>1. rows' = Written(current_timestep)
      BY <2>2 DEF StepSucceeds, Publish
    <3>2. QED BY <3>1, <1>4, WrittenIsTyped DEF TypeOK
  <2>3. CASE kind = "blade"
    <3>1. rows' = Written(time_step')
      BY <2>3 DEF StepSucceeds, Publish
    <3>2. QED BY <3>1, <1>4, <1>5, WrittenIsTyped
  <2>4. CASE kind = "turbine"
    <3>1. rows' = rows
      BY <2>4 DEF StepSucceeds, Publish
    <3>2. QED BY <3>1 DEF TypeOK
  <2>5. QED BY <2>1, <2>2, <2>3, <2>4
<1>8. QED
  BY <1>1, <1>2, <1>3, <1>5, <1>6, <1>7
     DEF TypeOK, Step, StepSucceeds, States, Returns

LEMMA StepFailsTypes ==
    ASSUME InterfaceAssumption, TypeOK, NEW l \in Loads, Step(l), StepFails
    PROVE  TypeOK'
<1>1. Broken \in Contents
  BY DEF Contents
<1>2. state' \in States /\ host_output' \in Contents \cup {Unset}
  <2>1. CASE RanOut
    BY <1>1, <2>1 DEF RanOut, TypeOK, States
  <2>2. CASE TurnedNaN
    BY <1>1, <2>2, SolvedIsState DEF TurnedNaN
  <2>3. QED BY <2>1, <2>2 DEF StepFails
<1>3. host_state' \in [MotionFields -> Contents]
  <2>1. Motion(state') \in [MotionFields -> Contents]
    BY <1>2, MotionIsTyped
  <2>2. QED BY <2>1 DEF StepFails, TypeOK, MotionFields, InterfaceAssumption
<1>4. time_step' \in 0..MaxTime[kind] /\ kind' = kind
  BY DEF Step, TypeOK, InterfaceAssumption
<1>5. QED
  BY <1>2, <1>3, <1>4 DEF TypeOK, Step, StepFails, States, Returns

LEMMA NextTypes == ASSUME InterfaceAssumption, TypeOK, [Next]_vars PROVE TypeOK'
<1>1. CASE \E l \in Loads : Step(l)
  <2>1. PICK l \in Loads : Step(l)
    BY <1>1
  <2>2. CASE StepSucceeds(l)
    BY <2>1, <2>2, StepSucceedsTypes
  <2>3. CASE StepFails
    BY <2>1, <2>3, StepFailsTypes
  <2>4. QED BY <2>1, <2>2, <2>3 DEF Step
<1>2. CASE SaveState
  <2>1. state_save' \in States /\ save_time' \in 0..MaxTime[kind]
    BY <1>2, CopiedIsState DEF SaveState, TypeOK, CopiedTime, States
  <2>2. QED BY <1>2, <2>1 DEF SaveState, TypeOK, States
<1>3. CASE RestoreState
  <2>1. state' \in States /\ time_step' \in 0..MaxTime[kind]
    BY <1>3, CopiedIsState DEF RestoreState, TypeOK, CopiedTime, States
  <2>2. nodes' \in [MotionFields -> Contents] /\ host_state' \in [MotionFields -> Contents]
    BY <1>3, <2>1, MotionIsTyped DEF RestoreState, Refresh
  <2>3. QED BY <1>3, <2>1, <2>2 DEF RestoreState, TypeOK, States, Returns
<1>4. CASE WriteRestart
  <2>1. file' \in States \cup {Unreadable}
    BY <1>4, IncompleteIsState DEF WriteRestart, TypeOK, States
  <2>2. QED BY <1>4, <2>1 DEF WriteRestart, TypeOK, States
<1>5. CASE ReadRestart
  <2>1. state' \in States
    BY <1>5 DEF ReadRestart, TypeOK, States
  <2>2. nodes' \in [MotionFields -> Contents] /\ host_state' \in [MotionFields -> Contents]
    BY <1>5, <2>1, MotionIsTyped DEF ReadRestart, Refresh
  <2>3. QED BY <1>5, <2>1, <2>2 DEF ReadRestart, TypeOK, States, Returns
<1>6. CASE NewRun
  BY <1>6, RestartedTypes DEF NewRun, TypeOK, States
<1>7. CASE CrashWhileWriting
  <2>1. file' \in States \cup {Unreadable}
    BY <1>7, IncompleteIsState DEF CrashWhileWriting
  <2>2. QED BY <1>7, <2>1, RestartedTypes DEF CrashWhileWriting
<1>8. CASE UNCHANGED vars
  BY <1>8 DEF vars, TypeOK
<1>9. QED
  BY <1>1, <1>2, <1>3, <1>4, <1>5, <1>6, <1>7, <1>8 DEF Next

\* Type correctness, for any interfaces, inputs and bounds.
THEOREM TypeCorrect == ASSUME InterfaceAssumption PROVE Spec => []TypeOK
<1>1. Init => TypeOK
  BY InitTypes
<1>2. TypeOK /\ [Next]_vars => TypeOK'
  BY NextTypes
<1>3. QED BY <1>1, <1>2, PTL DEF Spec

-----------------------------------------------------------------------------
(* The inductive invariant.                                                *)

\* After a step that failed, the state is lost.
LostInv == returned = "false" => state["q"] = Broken

\* The blade interface reads no file: its fields belong together, or q shows
\* that they do not.  So do the saved ones.
WholeInv ==
    kind = "blade" =>
        /\ Point(state) = state["q"]
        /\ Point(state_save) = state_save["q"]

\* The rows up to index t are the steps that led to point p.
RowsLeadTo(p, t) ==
    /\ t = Len(p)
    /\ \A i \in 1..t : i \in DOMAIN rows /\ rows[i] = SubSeq(p, 1, i)

\* The saved state is no later than the state, so that what is done to rows
\* after it was saved leaves its rows alone; both have their rows.
PathInv ==
    kind = "blade" =>
        /\ save_time <= time_step
        /\ Point(state) # Broken => RowsLeadTo(Point(state), time_step)
        /\ Point(state_save) # Broken => RowsLeadTo(Point(state_save), save_time)

Inv == /\ TypeOK
       /\ MotionMatchesState
       /\ FeedbackIsOfOneStep
       /\ LostInv
       /\ WholeInv
       /\ PathInv

LEMMA PointIfWhole ==
    ASSUME NEW s \in States, Point(s) # Broken
    PROVE  \A c \in LiveFields : s[c] = Point(s)
BY DEF Point

\* A step of any interface goes on from the point the state is at.
LEMMA StartsFromPoint ==
    ASSUME InterfaceAssumption, Inv
    PROVE  Point(Started) = Point(state)
<1>1. CASE kind # "blade"
  BY <1>1 DEF Started
<1>2. CASE kind = "blade" /\ state["q"] = Broken
  <2>1. Started["q"] = Broken
    BY <1>2 DEF Started, Inv, TypeOK, Fields
  <2>2. Point(Started) = Broken
    BY <2>1 DEF Point
  <2>3. QED BY <1>2, <2>2 DEF Inv, WholeInv
<1>3. CASE kind = "blade" /\ state["q"] # Broken
  <2>1. returned # "false"
    BY <1>3 DEF Inv, LostInv
  <2>2. nodes["v"] = state["v"]
    BY <2>1 DEF Inv, MotionMatchesState, Motion, MotionFields
  <2>3. Started = state
    BY <1>3, <2>2 DEF Started, Inv, TypeOK, Fields
  <2>4. QED BY <2>3
<1>4. QED BY <1>1, <1>2, <1>3

LEMMA InitInv == ASSUME InterfaceAssumption, Init PROVE Inv
<1>1. TypeOK
  BY InitTypes
<1>2. Point(All(<< >>)) = << >> /\ All(<< >>)["q"] = << >>
  BY EmptyIsHistory, AllIsState
<1>3. MotionMatchesState /\ FeedbackIsOfOneStep /\ LostInv /\ WholeInv
  BY <1>1, <1>2 DEF Init, Constructed, MotionMatchesState, FeedbackIsOfOneStep, LostInv, WholeInv
<1>4. PathInv
  BY <1>2 DEF Init, Constructed, PathInv, RowsLeadTo
<1>5. QED BY <1>1, <1>3, <1>4 DEF Inv

LEMMA RestartedInv ==
    ASSUME InterfaceAssumption, Inv, Restarted, TypeOK'
    PROVE  Inv'
<1>1. Point(All(<< >>)) = << >> /\ All(<< >>)["q"] = << >>
  BY EmptyIsHistory, AllIsState
<1>2. (MotionMatchesState /\ FeedbackIsOfOneStep /\ LostInv)'
  BY DEF Restarted, MotionMatchesState, FeedbackIsOfOneStep, LostInv
<1>3. Point(state)' = << >> /\ Point(state_save)' = << >>
  BY <1>1, LiveStays DEF Restarted, Point
<1>4. WholeInv'
  BY <1>1, <1>3 DEF Restarted, WholeInv
<1>5. time_step' = 0 /\ save_time' = 0
  BY DEF Restarted
<1>6. PathInv'
  BY <1>3, <1>5 DEF PathInv, RowsLeadTo
<1>7. QED BY <1>2, <1>4, <1>6 DEF Inv

\* After a step that converged, a state of the blade interface is whole and its
\* row stands at the index of the step.
LEMMA StepSucceedsPath ==
    ASSUME InterfaceAssumption, Inv, NEW l \in Loads, Step(l), StepSucceeds(l),
           kind = "blade",
           Point(state)' = Extend(Point(state), l),
           host_state'["q"] = Extend(Point(state), l)
    PROVE  PathInv'
<1> DEFINE p == Point(state)
           m == Point(state_save)
<1>1. rows' = Written(time_step')
  BY DEF StepSucceeds, Publish
<1>2. /\ time_step' = time_step + 1 /\ time_step \in Nat /\ save_time \in Nat
      /\ save_time' = save_time /\ Point(state_save)' = m /\ kind' = kind
      /\ save_time <= time_step
  <2>1. Point(state_save)' = m
    BY LiveStays DEF Step, Point
  <2>2. QED BY <2>1 DEF Step, Inv, TypeOK, PathInv
<1>3. ASSUME NEW i \in DOMAIN rows, i # time_step'
      PROVE  i \in DOMAIN rows' /\ rows'[i] = rows[i]
  BY <1>1, <1>3 DEF Written
<1>4. time_step' \in DOMAIN rows' /\ rows'[time_step'] = Extend(p, l)
  BY <1>1 DEF Written
<1>5. m # Broken => RowsLeadTo(m, save_time)'
  <2>1. SUFFICES ASSUME m # Broken PROVE RowsLeadTo(m, save_time)'
    OBVIOUS
  <2>2. RowsLeadTo(m, save_time)
    BY <2>1 DEF Inv, PathInv
  <2>3. ASSUME NEW i \in 1..save_time
        PROVE  i \in DOMAIN rows' /\ rows'[i] = SubSeq(m, 1, i)
    <3>1. i \in DOMAIN rows /\ rows[i] = SubSeq(m, 1, i)
      BY <2>2 DEF RowsLeadTo
    <3>2. i # time_step'
      BY <1>2
    <3>3. QED BY <3>1, <3>2, <1>3
  <2>4. QED BY <1>2, <2>2, <2>3 DEF RowsLeadTo
<1>6. Point(state)' # Broken => RowsLeadTo(Point(state), time_step)'
  <2>1. SUFFICES ASSUME Point(state)' # Broken PROVE RowsLeadTo(Point(state), time_step)'
    OBVIOUS
  <2>2. p # Broken
    BY <2>1 DEF Extend
  <2>3. p \in Seq(Loads)
    BY <2>2, PointIsContent, HistoriesAreSequences DEF Inv, TypeOK, States, Contents
  <2>4. Point(state)' = Append(p, l)
    BY <2>2 DEF Extend
  <2>5. RowsLeadTo(p, time_step)
    BY <2>2 DEF Inv, PathInv
  <2> HIDE DEF p
  <2>6. Len(Point(state)') = time_step'
    BY <1>2, <2>3, <2>4, <2>5, ExtendKeepsPrefixes DEF RowsLeadTo
  <2>7. ASSUME NEW i \in 1..time_step'
        PROVE  i \in DOMAIN rows' /\ rows'[i] = SubSeq(Point(state)', 1, i)
    <3>1. CASE i = time_step'
      <4>1. SubSeq(Append(p, l), 1, i) = Append(p, l)
        BY <1>2, <2>3, <2>5, <3>1, ExtendKeepsPrefixes DEF RowsLeadTo
      <4>2. QED BY <1>4, <2>2, <2>4, <3>1, <4>1 DEF Extend
    <3>2. CASE i # time_step'
      <4>1. i \in 1..Len(p) /\ i \in 1..time_step
        BY <1>2, <2>5, <3>2 DEF RowsLeadTo
      <4>2. i \in DOMAIN rows /\ rows[i] = SubSeq(p, 1, i)
        BY <2>5, <4>1 DEF RowsLeadTo
      <4>3. SubSeq(Append(p, l), 1, i) = SubSeq(p, 1, i)
        BY <2>3, <4>1, ExtendKeepsPrefixes
      <4>4. QED BY <1>3, <2>4, <3>2, <4>2, <4>3
    <3>3. QED BY <3>1, <3>2
  <2>8. QED BY <2>6, <2>7 DEF RowsLeadTo
<1>7. save_time' <= time_step'
  BY <1>2
<1>8. QED BY <1>2, <1>5, <1>6, <1>7 DEF PathInv

LEMMA StepSucceedsPoint ==
    ASSUME InterfaceAssumption, Inv, NEW l \in Loads, Step(l), StepSucceeds(l)
    PROVE  LET p == Extend(Point(state), l)
               x == Placed(p, state["x0"])
           IN  /\ Point(state)' = p
               /\ state'["q"] = p
               /\ state'["x"] = x
               /\ state'["x0"] = state["x0"]
               /\ host_output' = x
               /\ nodes' = Motion(state')
               /\ host_state' = nodes'
               /\ nodes'["q"] = p
               /\ nodes'["x"] = x
<1> DEFINE p == Extend(Point(state), l)
           x == Placed(p, state["x0"])
<1>1. Point(Started) = Point(state)
  BY StartsFromPoint
<1>2. p \in Contents
  BY <1>1, StartedIsState, PointIsContent, ExtendIsContent DEF Step, Inv
<1>3. state' = Solved(p) /\ host_output' = state'["x"]
  BY <1>1 DEF StepSucceeds, Converged
<1> HIDE DEF p
<1>4. Point(state') = p /\ state'["q"] = p /\ state'["x"] = x /\ state'["x0"] = state["x0"]
  BY <1>2, <1>3, SolvedIsState DEF Inv
<1>5. Point(state)' = p
  BY <1>4, LiveStays DEF Step, Point
<1>6. nodes' = Motion(state') /\ host_state' = nodes'
  BY DEF StepSucceeds, Refresh
<1>7. nodes'["q"] = p /\ nodes'["x"] = x
  BY <1>4, <1>6 DEF Motion, MotionFields
<1>8. QED BY <1>3, <1>4, <1>5, <1>6, <1>7 DEF p

LEMMA StepSucceedsInv ==
    ASSUME InterfaceAssumption, Inv, NEW l \in Loads, Step(l), StepSucceeds(l), TypeOK'
    PROVE  Inv'
<1> DEFINE p == Extend(Point(state), l)
           x == Placed(p, state["x0"])
<1>1. /\ Point(state)' = p /\ state'["q"] = p /\ state'["x0"] = state["x0"]
      /\ host_output' = x
      /\ nodes' = Motion(state') /\ host_state' = nodes'
      /\ nodes'["q"] = p /\ nodes'["x"] = x
  BY StepSucceedsPoint
<1> HIDE DEF p
<1>2. /\ returned' = "true" /\ kind' = kind /\ aliased' = aliased
      /\ state_save' = state_save
  BY DEF Step, StepSucceeds
<1>3. MotionMatchesState'
  <2>1. Motion(state)' = Motion(state')
    BY DEF Motion
  <2>2. QED BY <1>1, <2>1 DEF MotionMatchesState
<1>4. FeedbackIsOfOneStep'
  <2>1. kind = "turbine" => reaction' = p
    BY <1>1 DEF StepSucceeds, Publish
  <2>2. state["x0"] # Broken => x = p
    BY DEF Placed
  <2>3. QED BY <1>1, <1>2, <2>1, <2>2 DEF FeedbackIsOfOneStep, ControllerInput
<1>5. LostInv'
  BY <1>2 DEF LostInv
<1>6. WholeInv'
  <2>1. Point(state_save)' = Point(state_save)
    BY <1>2, LiveStays DEF Point
  <2>2. QED BY <1>1, <1>2, <2>1 DEF Inv, WholeInv
<1>7. PathInv'
  <2>1. CASE kind = "blade"
    BY <2>1, <1>1, StepSucceedsPath DEF p
  <2>2. CASE kind # "blade"
    BY <2>2, <1>2 DEF PathInv
  <2>3. QED BY <2>1, <2>2
<1>8. QED BY <1>3, <1>4, <1>5, <1>6, <1>7 DEF Inv

LEMMA StepFailsPoint ==
    ASSUME InterfaceAssumption, TypeOK, NEW l \in Loads, Step(l), StepFails
    PROVE  /\ state'["q"] = Broken
           /\ state'["x0"] = state["x0"]
           /\ Point(state)' = Broken
<1>1. Broken \in Contents
  BY DEF Contents
<1>2. state'["q"] = Broken /\ state'["x0"] = state["x0"]
  <2>1. CASE RanOut
    BY <2>1 DEF RanOut, Fields
  <2>2. CASE TurnedNaN
    BY <1>1, <2>2, SolvedIsState DEF TurnedNaN
  <2>3. QED BY <2>1, <2>2 DEF StepFails
<1>3. QED BY <1>2 DEF Point

LEMMA StepFailsInv ==
    ASSUME InterfaceAssumption, Inv, NEW l \in Loads, Step(l), StepFails, TypeOK'
    PROVE  Inv'
<1>1. state'["q"] = Broken /\ Point(state)' = Broken
  BY StepFailsPoint DEF Inv
<1>2. /\ returned' = "false" /\ kind' = kind /\ aliased' = aliased
      /\ state_save' = state_save /\ save_time' = save_time /\ rows' = rows
      /\ nodes' = nodes
  BY DEF Step, StepFails
<1>3. MotionMatchesState'
  <2>1. CASE aliased
    <3>1. host_state' = Motion(state')
      BY <2>1 DEF StepFails
    <3>2. QED BY <1>2, <2>1, <3>1 DEF MotionMatchesState, Motion
  <2>2. CASE ~aliased
    <3>1. host_state = nodes
      BY <2>2 DEF Inv, MotionMatchesState
    <3>2. host_state' = IF kind = "blade" THEN [host_state EXCEPT !["v"] = nodes["v"]]
                        ELSE host_state
      BY <2>2 DEF StepFails
    <3>3. host_state' = nodes
      BY <3>1, <3>2 DEF Inv, TypeOK, MotionFields
    <3>4. QED BY <1>2, <2>2, <3>3 DEF MotionMatchesState
  <2>3. QED BY <2>1, <2>2
<1>4. FeedbackIsOfOneStep' /\ LostInv'
  BY <1>1, <1>2 DEF FeedbackIsOfOneStep, LostInv
<1>5. Point(state_save)' = Point(state_save)
  BY <1>2, LiveStays DEF Point
<1>6. WholeInv'
  BY <1>1, <1>2, <1>5 DEF Inv, WholeInv
<1>7. PathInv'
  <2>1. kind = "blade" => save_time' <= time_step'
    BY DEF Step, Inv, PathInv, TypeOK
  <2>2. QED BY <1>1, <1>2, <1>5, <2>1 DEF Inv, PathInv, RowsLeadTo
<1>8. QED BY <1>3, <1>4, <1>6, <1>7 DEF Inv

LEMMA SaveInv ==
    ASSUME InterfaceAssumption, Inv, SaveState, TypeOK'
    PROVE  Inv'
<1>1. /\ state_save' = CopiedFields(state, state_save) /\ save_time' = time_step
      /\ kind' = kind /\ aliased' = aliased
      /\ state' = state /\ time_step' = time_step /\ rows' = rows
      /\ nodes' = nodes /\ host_state' = host_state /\ returned' = returned
      /\ host_output' = host_output /\ reaction' = reaction
  BY DEF SaveState, CopiedTime
<1>2. (MotionMatchesState /\ FeedbackIsOfOneStep /\ LostInv)'
  BY <1>1 DEF Inv, MotionMatchesState, Motion, FeedbackIsOfOneStep, ControllerInput, LostInv
<1>3. state_save'["q"] = state["q"] /\ Point(state_save') = Point(state)
  BY <1>1, CopiedIsState DEF Inv, TypeOK, States, Fields
<1>4. Point(state)' = Point(state) /\ Point(state_save)' = Point(state)
  BY <1>1, <1>3, LiveStays DEF Point
<1>5. WholeInv'
  BY <1>1, <1>3, <1>4 DEF Inv, WholeInv
<1>6. PathInv'
  BY <1>1, <1>4 DEF Inv, PathInv, RowsLeadTo, TypeOK
<1>7. QED BY <1>2, <1>5, <1>6 DEF Inv

LEMMA RestoreInv ==
    ASSUME InterfaceAssumption, Inv, RestoreState, TypeOK'
    PROVE  Inv'
<1>1. /\ state' = CopiedFields(state_save, state) /\ time_step' = save_time
      /\ kind' = kind /\ aliased' = aliased
      /\ state_save' = state_save /\ save_time' = save_time /\ rows' = rows
      /\ host_state' = Motion(state') /\ nodes' = host_state'
      /\ returned' = "restored"
  BY DEF RestoreState, CopiedTime, Refresh
<1>2. MotionMatchesState'
  BY <1>1 DEF MotionMatchesState, Motion
<1>3. FeedbackIsOfOneStep' /\ LostInv'
  BY <1>1 DEF FeedbackIsOfOneStep, LostInv
<1>4. state'["q"] = state_save["q"] /\ Point(state') = Point(state_save)
  BY <1>1, CopiedIsState DEF Inv, TypeOK, States, Fields
<1>5. Point(state)' = Point(state_save) /\ Point(state_save)' = Point(state_save)
  BY <1>1, <1>4, LiveStays DEF Point
<1>6. WholeInv'
  BY <1>1, <1>4, <1>5 DEF Inv, WholeInv
<1>7. PathInv'
  BY <1>1, <1>5 DEF Inv, PathInv, RowsLeadTo, TypeOK
<1>8. QED BY <1>2, <1>3, <1>6, <1>7 DEF Inv

LEMMA WriteInv ==
    ASSUME InterfaceAssumption, Inv, WriteRestart, TypeOK'
    PROVE  Inv'
<1>1. Point(state)' = Point(state) /\ Point(state_save)' = Point(state_save)
  BY LiveStays DEF WriteRestart, Point
<1>2. QED
  BY <1>1 DEF WriteRestart, Inv, MotionMatchesState, Motion, FeedbackIsOfOneStep,
     ControllerInput, LostInv, WholeInv, PathInv, RowsLeadTo

LEMMA ReadInv ==
    ASSUME InterfaceAssumption, Inv, ReadRestart, TypeOK'
    PROVE  Inv'
<1>1. /\ kind' = kind /\ kind # "blade" /\ returned' = "read"
      /\ host_state' = Motion(state') /\ nodes' = host_state'
  BY DEF ReadRestart, HasFile, Refresh
<1>2. MotionMatchesState'
  BY <1>1 DEF MotionMatchesState, Motion
<1>3. (FeedbackIsOfOneStep /\ LostInv /\ WholeInv /\ PathInv)'
  BY <1>1 DEF FeedbackIsOfOneStep, LostInv, WholeInv, PathInv
<1>4. QED BY <1>2, <1>3 DEF Inv

LEMMA NextInv == ASSUME InterfaceAssumption, Inv, [Next]_vars PROVE Inv'
<1>0. TypeOK'
  BY NextTypes DEF Inv
<1>1. CASE \E l \in Loads : Step(l)
  BY <1>0, <1>1, StepSucceedsInv, StepFailsInv DEF Step
<1>2. CASE SaveState
  BY <1>0, <1>2, SaveInv
<1>3. CASE RestoreState
  BY <1>0, <1>3, RestoreInv
<1>4. CASE WriteRestart
  BY <1>0, <1>4, WriteInv
<1>5. CASE ReadRestart
  BY <1>0, <1>5, ReadInv
<1>6. CASE NewRun
  BY <1>0, <1>6, RestartedInv DEF NewRun
<1>7. CASE CrashWhileWriting
  BY <1>0, <1>7, RestartedInv DEF CrashWhileWriting
<1>8. CASE UNCHANGED vars
  <2>1. Point(state)' = Point(state) /\ Point(state_save)' = Point(state_save)
    BY <1>8, LiveStays DEF vars, Point
  <2>2. QED
    BY <1>8, <2>1 DEF vars, Inv, TypeOK, MotionMatchesState, Motion, FeedbackIsOfOneStep,
       ControllerInput, LostInv, WholeInv, PathInv, RowsLeadTo
<1>9. QED
  BY <1>1, <1>2, <1>3, <1>4, <1>5, <1>6, <1>7, <1>8 DEF Next

LEMMA InvHolds == ASSUME InterfaceAssumption PROVE Spec => []Inv
<1>1. Init => Inv
  BY InitInv
<1>2. Inv /\ [Next]_vars => Inv'
  BY NextInv
<1>3. QED BY <1>1, <1>2, PTL DEF Spec

\* However steps, failures, snapshots and restarts follow each other, the motion
\* the caller sees is that of the state, unless a step has just failed.
THEOREM MotionMatches ==
    ASSUME InterfaceAssumption PROVE Spec => []MotionMatchesState
<1>1. Inv => MotionMatchesState
  BY DEF Inv
<1>2. QED BY <1>1, InvHolds, PTL

\* What a controller is shown after a converged step is of that step.
THEOREM FeedbackConsistent ==
    ASSUME InterfaceAssumption PROVE Spec => []FeedbackIsOfOneStep
<1>1. Inv => FeedbackIsOfOneStep
  BY DEF Inv
<1>2. QED BY <1>1, InvHolds, PTL

\* The rows of the blade interface are those of the accepted steps, for any
\* number of repeated and discarded steps.
THEOREM RowsFollow ==
    ASSUME InterfaceAssumption PROVE Spec => []RowsFollowPath
<1>1. Inv => RowsFollowPath
  BY DEF Inv, PathInv, RowsLeadTo, RowsFollowPath
<1>2. QED BY <1>1, InvHolds, PTL

-----------------------------------------------------------------------------
(* The interfaces keep the promise.                                        *)

Stored == IF file = Unreadable THEN Unreadable ELSE Situation(file)

\* A situation depends on four kinds of things that are read of a State.
LEMMA SituationStays ==
    ASSUME kind' = kind, aliased' = aliased
    PROVE  /\ state' = state => Situation(state)' = Situation(state)
           /\ state_save' = state_save => Situation(state_save)' = Situation(state_save)
           /\ file' = file => Stored' = Stored
           /\ Situation(state)' = Situation(state')
           /\ Situation(state_save)' = Situation(state_save')
           /\ Situation(file)' = Situation(file')
BY LiveStays DEF Situation, Point, Stored

LEMMA SituationIsRecord ==
    ASSUME InterfaceAssumption, NEW s \in States
    PROVE  Situation(s) # Unreadable
<1>1. Situation(s) \in [at : Contents, placed : BOOLEAN, anchored : BOOLEAN]
  BY PointIsContent DEF Situation
<1>2. QED BY <1>1 DEF InterfaceAssumption

\* A state the caller is shown the motion of is shown by its situation.
LEMMA MotionShowsSituation ==
    ASSUME NEW s \in States, nodes' = Motion(s)
    PROVE  /\ Situation(s).at # Broken => nodes'["q"] = Situation(s).at
           /\ Situation(s).placed => nodes'["x"] = Situation(s).at
<1>1. nodes'["q"] = s["q"] /\ nodes'["x"] = s["x"]
  BY DEF Motion, MotionFields
<1>2. Point(s) # Broken => s["q"] = Point(s)
  BY PointIfWhole, LiveAreFields
<1>3. QED BY <1>1, <1>2 DEF Situation

\* The situation after CopyStateData.
LEMMA CopiedSituation ==
    ASSUME NEW old \in States, NEW copy \in States
    PROVE  Situation(CopiedFields(old, copy)) = Promise!Copied(Situation(old), Situation(copy))
<1> DEFINE new == CopiedFields(old, copy)
<1>1. Point(new) = Point(old) /\ new["x"] = old["x"] /\ new["x0"] = copy["x0"]
  BY CopiedIsState DEF Fields
<1> HIDE DEF new
<1>2. Situation(new) = [at       |-> Point(old),
                        placed   |-> Point(old) # Broken /\ old["x"] = Point(old),
                        anchored |-> copy["x0"] # Broken]
  BY <1>1 DEF Situation
<1>3. Promise!Copied(Situation(old), Situation(copy))
        = [at       |-> Point(old),
           placed   |-> Point(old) # Broken /\ old["x"] = Point(old),
           anchored |-> copy["x0"] # Broken]
  BY DEF Promise!Copied, Situation
<1>4. QED BY <1>2, <1>3 DEF new

\* What the file holds after a write, whole, missing or cut short, is one of
\* what the promise allows.
LEMMA CutShortSituation ==
    ASSUME TypeOK, NEW count \in 0..6
    PROVE  Situation(CutShort(count)) \in {Situation(state)} \cup Promise!Damaged
<1> DEFINE cut == CutShort(count)
<1>1. cut \in States /\ state \in States
  BY CutShortIsState DEF TypeOK, States
<1>2. CASE Point(cut) = Broken
  <2>1. (cut["x0"] # Broken) \in {FALSE, Situation(state).anchored}
    <3>1. cut["x0"] \in {state["x0"], Broken}
      BY CutShortIsState DEF Fields
    <3>2. CASE cut["x0"] = Broken
      BY <3>2
    <3>3. CASE cut["x0"] = state["x0"]
      BY <3>3 DEF Situation
    <3>4. QED BY <3>1, <3>2, <3>3
  <2> DEFINE a == cut["x0"] # Broken
  <2>2. Situation(cut) = [at |-> Broken, placed |-> FALSE, anchored |-> a]
    BY <1>2 DEF Situation
  <2> HIDE DEF a, cut
  <2>3. a \in {FALSE, Situation(state).anchored}
    BY <2>1 DEF a
  <2>4. Situation(cut) \in Promise!Damaged
    BY <2>2, <2>3 DEF Promise!Damaged
  <2>5. QED BY <2>4 DEF cut
<1>3. CASE Point(cut) # Broken
  <2>1. count = 6
    <3>1. "a" \in LiveFields
      BY LiveAreFields
    <3>2. QED BY <1>1, <1>3, <3>1, CutShortIsState, BrokenFieldBreaks
  <2>2. "f" \notin LiveFields
    BY <1>1, <1>3, CutShortIsState, BrokenFieldBreaks
  <2>3. \A c \in Fields \ {"f"} : cut[c] = state[c]
    BY <2>1, CutShortIsState
  <2> HIDE DEF cut
  <2>4. \A c \in LiveFields : cut[c] = state[c]
    BY <2>2, <2>3, LiveAreFields
  <2>5. cut["q"] = state["q"] /\ cut["x"] = state["x"] /\ cut["x0"] = state["x0"]
    BY <2>3 DEF Fields
  <2>6. Point(cut) = Point(state)
    BY <2>4, <2>5 DEF Point
  <2>7. Situation(cut) = Situation(state)
    BY <2>5, <2>6 DEF Situation
  <2>8. QED BY <2>7 DEF cut
<1>4. QED BY <1>2, <1>3

LEMMA WrittenSituation ==
    ASSUME InterfaceAssumption, TypeOK, kind' = kind, aliased' = aliased,
           file' \in {file, state} \cup Incomplete
    PROVE  Stored' \in Promise!Written
<1>1. state \in States
  BY DEF TypeOK, States
<1>2. CASE file' = file
  BY <1>2, SituationStays DEF Promise!Written, Stored
<1>3. CASE file' = Unreadable
  BY <1>3 DEF Promise!Written, Stored
<1>4. CASE file' = state
  <2>1. Stored' = Situation(state)
    <3>1. state # Unreadable
      BY <1>1 DEF InterfaceAssumption, States
    <3>2. Situation(file)' = Situation(state)
      BY <1>4, SituationStays
    <3>3. QED BY <1>4, <3>1, <3>2 DEF Stored
  <2>2. QED BY <2>1 DEF Promise!Written
<1>5. CASE \E count \in Cuts : file' = CutShort(count)
  <2>1. PICK count \in 0..6 : file' = CutShort(count)
    BY <1>5 DEF InterfaceAssumption
  <2>2. CutShort(count) # Unreadable
    BY CutShortIsState DEF InterfaceAssumption, States
  <2>3. Situation(file)' = Situation(CutShort(count))
    BY <2>1, SituationStays
  <2>4. Stored' = Situation(CutShort(count))
    BY <2>1, <2>2, <2>3 DEF Stored
  <2>5. QED BY <2>4, CutShortSituation DEF Promise!Written
<1>6. QED BY <1>2, <1>3, <1>4, <1>5 DEF Incomplete

LEMMA StepKeepsPromise ==
    ASSUME InterfaceAssumption, Inv, NEW l \in Loads, Step(l)
    PROVE  Promise!Next
<1>1. Situation(state_save)' = Situation(state_save) /\ Stored' = Stored
  BY SituationStays DEF Step
<1>2. CASE StepSucceeds(l)
  <2> DEFINE p == Extend(Point(state), l)
             x == Placed(p, state["x0"])
  <2>1. /\ Point(state)' = p /\ state'["x"] = x /\ state'["x0"] = state["x0"]
        /\ nodes'["q"] = p /\ nodes'["x"] = x
    BY <1>2, StepSucceedsPoint
  <2>2. p = Promise!Extend(Situation(state).at, l)
    BY DEF Promise!Extend, Extend, Situation
  <2>3. (p # Broken /\ x = p) = (Situation(state).at # Broken /\ Situation(state).anchored)
    <3>1. p # Broken <=> Point(state) # Broken
      <4>1. CASE Point(state) = Broken
        BY <4>1 DEF Extend
      <4>2. CASE Point(state) # Broken
        <5>1. p \in Contents /\ p = Append(Point(state), l)
          BY <4>2, <1>2, StartsFromPoint, StartedIsState, PointIsContent, ExtendIsContent
             DEF Step, Inv, Extend
        <5>2. p \in Histories
          <6>1. Point(state) \in Histories
            BY <4>2, PointIsContent DEF Inv, TypeOK, States, Contents
          <6>2. Point(state) \in Seq(Loads) /\ Len(Point(state)) < MaxSteps
            BY <4>2, <6>1, StartsFromPoint, HistoriesAreSequences DEF Step
          <6>3. Append(Point(state), l) \in Seq(Loads)
                /\ Len(Append(Point(state), l)) <= MaxSteps
            BY <6>2 DEF InterfaceAssumption
          <6>4. QED BY <5>1, <6>3, ShortSequencesAreHistories
        <5>3. QED BY <4>2, <5>2 DEF InterfaceAssumption
      <4>3. QED BY <4>1, <4>2
    <3>2. p # Broken => (x = p <=> state["x0"] # Broken)
      BY DEF Placed
    <3>3. QED BY <3>1, <3>2 DEF Situation
  <2> HIDE DEF p, x
  <2>4. Situation(state)' = [at |-> p, placed |-> p # Broken /\ x = p,
                             anchored |-> state["x0"] # Broken]
    BY <2>1 DEF Situation
  <2>5. Situation(state)'
          = [at       |-> Promise!Extend(Situation(state).at, l),
             placed   |-> Situation(state).at # Broken /\ Situation(state).anchored,
             anchored |-> Situation(state).anchored]
    BY <2>2, <2>3, <2>4 DEF Situation
  <2>6. /\ Situation(state)'.at # Broken => nodes'["q"] = Situation(state)'.at
        /\ Situation(state)'.placed => nodes'["x"] = Situation(state)'.at
    <3>1. Situation(state)'.at = p /\ (Situation(state)'.placed = (p # Broken /\ x = p))
      BY <2>4
    <3>2. QED BY <2>1, <3>1
  <2>7. Promise!Advance(l)
    BY <1>1, <2>5, <2>6 DEF Promise!Advance, Promise!Shows, Stored
  <2>8. QED BY <2>7 DEF Promise!Next
<1>3. CASE StepFails
  <2>1. Point(state)' = Broken /\ state'["x0"] = state["x0"] /\ nodes' = nodes
    BY <1>3, StepFailsPoint DEF Inv, StepFails
  <2>2. Situation(state)' = [at |-> Broken, placed |-> FALSE,
                             anchored |-> Situation(state).anchored]
    BY <2>1 DEF Situation
  <2>3. Promise!Fail
    BY <1>1, <2>1, <2>2 DEF Promise!Fail, Stored
  <2>4. QED BY <2>3 DEF Promise!Next
<1>4. QED BY <1>2, <1>3 DEF Step

LEMMA StartSituation ==
    ASSUME InterfaceAssumption
    PROVE  Situation(All(<< >>)) = Promise!Start
<1>1. /\ Point(All(<< >>)) = << >> /\ All(<< >>)["x"] = << >> /\ All(<< >>)["x0"] = << >>
      /\ << >> # Broken
  BY EmptyIsHistory, AllIsState
<1>2. QED BY <1>1 DEF Situation, Promise!Start

LEMMA RestartKeepsPromise ==
    ASSUME InterfaceAssumption, Inv, Restarted, file' \in {file, state} \cup Incomplete
    PROVE  Promise!Next
<1>1. All(<< >>)["q"] = << >> /\ All(<< >>)["x"] = << >>
  BY EmptyIsHistory, AllIsState
<1>2. Situation(state)' = Promise!Start /\ Situation(state_save)' = Promise!Start
  BY StartSituation, SituationStays DEF Restarted
<1>3. nodes'["q"] = << >> /\ nodes'["x"] = << >>
  BY <1>1 DEF Restarted, Motion, MotionFields
<1>4. Stored' \in Promise!Written
  BY WrittenSituation DEF Restarted, Inv
<1>5. Promise!Restart
  BY <1>2, <1>3, <1>4 DEF Promise!Restart, Stored
<1>6. QED BY <1>5 DEF Promise!Next

LEMMA NextKeepsPromise ==
    ASSUME InterfaceAssumption, Inv, [Next]_vars
    PROVE  [Promise!Next]_(Promise!vars)
<1>0. state \in States /\ state_save \in States /\ file \in States \cup {Unreadable}
  BY DEF Inv, TypeOK, States
<1>1. CASE \E l \in Loads : Step(l)
  BY <1>1, StepKeepsPromise
<1>2. CASE SaveState
  <2>1. /\ Situation(state)' = Situation(state) /\ Stored' = Stored /\ nodes' = nodes
        /\ Situation(state_save)' = Situation(CopiedFields(state, state_save))
    BY <1>2, SituationStays DEF SaveState
  <2>2. Promise!Mark
    BY <1>0, <2>1, CopiedSituation DEF Promise!Mark, Stored
  <2>3. QED BY <2>2 DEF Promise!Next
<1>3. CASE RestoreState
  <2> DEFINE new == CopiedFields(state_save, state)
  <2>1. /\ Situation(state_save)' = Situation(state_save) /\ Stored' = Stored
        /\ Situation(state)' = Situation(new)
        /\ nodes' = Motion(new)
    BY <1>3, SituationStays DEF RestoreState, Refresh, Motion
  <2>2. new \in States /\ Situation(new) = Promise!Copied(Situation(state_save), Situation(state))
    BY <1>0, CopiedIsState, CopiedSituation
  <2> HIDE DEF new
  <2>3. /\ Situation(new).at # Broken => nodes'["q"] = Situation(new).at
        /\ Situation(new).placed => nodes'["x"] = Situation(new).at
    BY <2>1, <2>2, MotionShowsSituation
  <2>4. Promise!Return
    BY <2>1, <2>2, <2>3 DEF Promise!Return, Promise!Shows, Stored
  <2>5. QED BY <2>4 DEF Promise!Next
<1>4. CASE WriteRestart
  <2>1. /\ Situation(state)' = Situation(state) /\ Situation(state_save)' = Situation(state_save)
        /\ nodes' = nodes
    BY <1>4, SituationStays DEF WriteRestart
  <2>2. Stored' \in Promise!Written
    BY <1>4, WrittenSituation DEF WriteRestart, Inv
  <2>3. Promise!Store
    BY <2>1, <2>2 DEF Promise!Store, Stored
  <2>4. QED BY <2>3 DEF Promise!Next
<1>5. CASE ReadRestart
  <2>1. file # Unreadable /\ file \in States /\ state' = file /\ file' = file
    BY <1>0, <1>5 DEF ReadRestart
  <2>2. /\ Situation(state_save)' = Situation(state_save)
        /\ Situation(state)' = Situation(file)
        /\ Stored = Situation(file) /\ Stored' = Stored
        /\ nodes' = Motion(file)
    BY <1>5, <2>1, SituationStays DEF ReadRestart, Refresh, Motion, Stored
  <2>3. /\ Situation(file).at # Broken => nodes'["q"] = Situation(file).at
        /\ Situation(file).placed => nodes'["x"] = Situation(file).at
    BY <2>1, <2>2, MotionShowsSituation
  <2>4. Stored # Unreadable
    BY <2>1, <2>2, SituationIsRecord
  <2>5. Promise!Load
    BY <2>2, <2>3, <2>4 DEF Promise!Load, Promise!Shows, Stored
  <2>6. QED BY <2>5 DEF Promise!Next
<1>6. CASE NewRun
  BY <1>6, RestartKeepsPromise DEF NewRun
<1>7. CASE CrashWhileWriting
  BY <1>7, RestartKeepsPromise DEF CrashWhileWriting
<1>8. CASE UNCHANGED vars
  <2>1. /\ Situation(state)' = Situation(state) /\ Situation(state_save)' = Situation(state_save)
        /\ Stored' = Stored /\ nodes' = nodes
    BY <1>8, SituationStays DEF vars
  <2>2. UNCHANGED Promise!vars
    BY <2>1 DEF Promise!vars, Stored
  <2>3. QED BY <2>2
<1>9. QED
  BY <1>1, <1>2, <1>3, <1>4, <1>5, <1>6, <1>7, <1>8 DEF Next

LEMMA InitKeepsPromise == ASSUME InterfaceAssumption, Init PROVE Promise!Init
<1>1. All(<< >>)["q"] = << >> /\ All(<< >>)["x"] = << >>
  BY EmptyIsHistory, AllIsState
<1>2. nodes["q"] = << >> /\ nodes["x"] = << >>
  BY <1>1 DEF Init, Constructed, Motion, MotionFields
<1>3. Situation(state) = Promise!Start /\ Situation(state_save) = Promise!Start
  BY StartSituation DEF Init, Constructed
<1>4. QED BY <1>2, <1>3 DEF Init, Promise!Init, Promise!InitRun

\* The interfaces implement the abstract simulation: every step of the code is
\* one of advancing, failing, marking, returning, storing, loading or starting
\* again, or leaves all of that alone.  What a file that was not written to its
\* end takes away is part of it: the point, until the simulation returns to the
\* mark, and the reference positions, until a whole file is loaded.
THEOREM KeepsPromise == ASSUME InterfaceAssumption PROVE Spec => KeepsCouplingPromise
<1>1. Init => Promise!Init
  BY InitKeepsPromise
<1>2. Inv /\ [Next]_vars => [Promise!Next]_(Promise!vars)
  BY NextKeepsPromise
<1>3. QED BY <1>1, <1>2, InvHolds, PTL DEF Spec, KeepsCouplingPromise, Promise!Spec
=============================================================================
