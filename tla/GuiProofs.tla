----------------------------- MODULE GuiProofs -----------------------------
(***************************************************************************)
(* That the window manager of Gui keeps windows, task bar and program       *)
(* states in agreement, for any number of windows and any set of programs.  *)
(* Each operation on the state has a lemma that says which of its fields    *)
(* change and one that says that Agrees is preserved; a click or a key is   *)
(* then one of these operations, or two.                                    *)
(***************************************************************************)
EXTENDS Gui, FiniteSetTheorems, TLAPS

Titles == Programs \cup Dialogs \cup {NoTitle, "none"}

----------------------------------------------------------------------------
(* Sequences                                                                *)

\* A sequence without its entry i has the entries behind it one place further down.
LEMMA RemoveAtSeq ==
  ASSUME NEW S, NEW s \in Seq(S), NEW i \in DOMAIN s
  PROVE  /\ RemoveAt(s, i) \in Seq(S) /\ Len(RemoveAt(s, i)) = Len(s) - 1 /\ Len(s) - 1 \in Nat
         /\ \A j \in 1..Len(s) - 1 : RemoveAt(s, i)[j] = IF j < i THEN s[j] ELSE s[j + 1]
<1>1. Len(s) \in Nat /\ i \in 1..Len(s) /\ DOMAIN s = 1..Len(s)
  OBVIOUS
<1> DEFINE a == SubSeq(s, 1, i - 1)
           b == SubSeq(s, i + 1, Len(s))
<1>2. a \in Seq(S) /\ Len(a) = i - 1 /\ \A j \in 1..i - 1 : a[j] = s[j]
  BY <1>1
<1>3. b \in Seq(S) /\ Len(b) = Len(s) - i /\ \A j \in 1..Len(s) - i : b[j] = s[i + j]
  BY <1>1
<1>4. RemoveAt(s, i) = a \o b
  BY DEF RemoveAt
<1> HIDE DEF a, b
<1>5. a \o b \in Seq(S) /\ Len(a \o b) = Len(s) - 1
  <2>1. a \o b \in Seq(S) /\ Len(a \o b) = Len(a) + Len(b)
    <3>1. a \in Seq(S) /\ b \in Seq(S)
      BY <1>2, <1>3
    <3> QED BY <3>1
  <2>2. Len(a) + Len(b) = Len(s) - 1
    BY <1>1, <1>2, <1>3
  <2> QED BY <2>1, <2>2
<1>6. \A j \in 1..Len(s) - 1 : (a \o b)[j] = IF j < i THEN s[j] ELSE s[j + 1]
  <2> SUFFICES ASSUME NEW j \in 1..Len(s) - 1 PROVE (a \o b)[j] = IF j < i THEN s[j] ELSE s[j + 1]
    OBVIOUS
  <2>1. CASE j < i
    BY <1>1, <1>2, <1>3, <2>1
  <2>2. CASE ~(j < i)
    <3>1. (a \o b)[j] = b[j - (i - 1)] /\ j - (i - 1) \in 1..Len(s) - i
      BY <1>1, <1>2, <1>3, <2>2, SMTT(40)
    <3>2. i + (j - (i - 1)) = j + 1
      BY <1>1
    <3> QED BY <1>3, <2>2, <3>1, <3>2
  <2> QED BY <2>1, <2>2
<1> QED BY <1>1, <1>4, <1>5, <1>6

\* Each entry of it is another entry of the sequence, and the other way round.
LEMMA RemoveAtPlaces ==
  ASSUME NEW S, NEW s \in Seq(S), NEW i \in DOMAIN s
  PROVE  /\ \A j \in DOMAIN RemoveAt(s, i) : \E k \in DOMAIN s \ {i} :
               RemoveAt(s, i)[j] = s[k] /\ k = IF j < i THEN j ELSE j + 1
         /\ \A k \in DOMAIN s \ {i} : \E j \in DOMAIN RemoveAt(s, i) : RemoveAt(s, i)[j] = s[k]
<1> DEFINE r == RemoveAt(s, i)
<1>1. Len(s) \in Nat /\ i \in 1..Len(s) /\ DOMAIN s = 1..Len(s)
  OBVIOUS
<1>2. /\ r \in Seq(S) /\ Len(r) = Len(s) - 1 /\ Len(s) - 1 \in Nat
      /\ \A j \in 1..Len(s) - 1 : r[j] = IF j < i THEN s[j] ELSE s[j + 1]
  BY RemoveAtSeq
<1> HIDE DEF r
<1>3. DOMAIN r = 1..Len(s) - 1
  BY <1>2
<1>4. ASSUME NEW j \in DOMAIN r PROVE \E k \in DOMAIN s \ {i} : r[j] = s[k] /\ k = IF j < i THEN j ELSE j + 1
  <2>1. CASE j < i
    BY <1>1, <1>2, <1>3, <2>1
  <2>2. CASE ~(j < i)
    <3>1. j + 1 \in DOMAIN s \ {i} /\ r[j] = s[j + 1]
      BY <1>1, <1>2, <1>3, <2>2
    <3> QED BY <2>2, <3>1
  <2> QED BY <2>1, <2>2
<1>5. ASSUME NEW k \in DOMAIN s \ {i} PROVE \E j \in DOMAIN r : r[j] = s[k]
  <2>1. CASE k < i
    <3>1. k \in DOMAIN r /\ r[k] = s[k]
      BY <1>1, <1>2, <1>3, <2>1
    <3> QED BY <3>1
  <2>2. CASE ~(k < i)
    <3>1. k - 1 \in DOMAIN r /\ ~(k - 1 < i) /\ (k - 1) + 1 = k
      BY <1>1, <1>3, <2>2
    <3>2. r[k - 1] = s[k]
      BY <1>2, <1>3, <3>1
    <3> QED BY <3>1, <3>2
  <2> QED BY <2>1, <2>2
<1> QED BY <1>4, <1>5 DEF r

----------------------------------------------------------------------------
(* gui_create_window                                                        *)

\* The fields of a window and of the state, and records made of such fields (gui_window_t, gui_state).
LEMMA WindowTypes ==
    ASSUME NEW w \in Window
    PROVE  /\ w.id \in Nat /\ w.title \in Titles /\ w.focused \in BOOLEAN /\ w.is \in SUBSET Programs
           /\ w.state \in {"normal", "minimized", "maximized"} /\ w.slot \in [Programs -> 0..MAX_WINDOWS]
BY DEF Window, Titles

LEMMA WindowMade ==
    ASSUME NEW id \in Nat, NEW title \in Titles, NEW focused \in BOOLEAN, NEW is \in SUBSET Programs,
           NEW state \in {"normal", "minimized", "maximized"}, NEW slot \in [Programs -> 0..MAX_WINDOWS]
    PROVE  [id |-> id, title |-> title, focused |-> focused, state |-> state, is |-> is, slot |-> slot] \in Window
BY DEF Window, Titles

LEMMA StateTypes ==
    ASSUME NEW g \in GuiStates
    PROVE  /\ g.windows \in [Index -> Window] /\ g.count \in 0..MAX_WINDOWS /\ g.bar \in Seq(Nat)
           /\ g.focused_id \in Nat /\ g.next_id \in Nat /\ g.used \in [Programs -> SUBSET Index]
           /\ g.drag \in [mode : {"none", "drag", "resize"}, at : 0..MAX_WINDOWS]
BY DEF GuiStates

\* Assigning to a field of a window leaves the others alone.
LEMMA FocusField ==
    ASSUME NEW w \in Window, NEW f \in BOOLEAN
    PROVE  /\ WithFocus(w, f) \in Window /\ WithFocus(w, f).id = w.id /\ WithFocus(w, f).title = w.title
           /\ WithFocus(w, f).slot = w.slot /\ WithFocus(w, f).focused = f
<1>1. WithFocus(w, f) = [id |-> w.id, title |-> w.title, focused |-> f, state |-> w.state, is |-> w.is, slot |-> w.slot]
  BY DEF Window, WithFocus
<1>2. WithFocus(w, f) \in Window
  BY <1>1, WindowTypes, WindowMade
<1> QED BY <1>1, <1>2

LEMMA NewFields ==
    ASSUME NEW w \in Window, NEW n \in Nat, NEW t \in Titles
    PROVE  /\ NewWindow(w, n, t) \in Window /\ NewWindow(w, n, t).id = n /\ NewWindow(w, n, t).title = t
           /\ NewWindow(w, n, t).slot = w.slot
<1>1. TRUE \in BOOLEAN /\ w.is \ {"Terminal"} \in SUBSET Programs
  BY WindowTypes
<1> QED BY <1>1, WindowMade, WindowTypes DEF NewWindow

\* What gui_create_window changes when there is room.
LEMMA CreatedFields ==
    ASSUME NEW g \in GuiStates, NEW title \in Titles, g.count < MAX_WINDOWS
    PROVE  /\ WithWindow(g, title) \in [Index -> Window]
           /\ Created(g, title) = [windows |-> WithWindow(g, title), count |-> g.count + 1, bar |-> g.bar,
                           focused_id |-> g.focused_id, next_id |-> g.next_id + 1, used |-> g.used, drag |-> g.drag]
<1>0. g.windows \in [Index -> Window] /\ g.next_id \in Nat /\ g.count \in 0..MAX_WINDOWS
  BY StateTypes
<1>1. WithWindow(g, title) \in [Index -> Window]
  <2> SUFFICES ASSUME NEW i \in Index PROVE WithWindow(g, title)[i] \in Window
    BY DEF WithWindow
  <2>2. g.windows[i] \in Window
    BY <1>0
  <2>3. WithFocus(g.windows[i], FALSE) \in Window
    BY <2>2, FocusField
  <2>4. NewWindow(g.windows[i], g.next_id, title) \in Window
    BY <2>2, <1>0, NewFields
  <2> QED BY <2>2, <2>3, <2>4 DEF WithWindow
<1>2. ~(g.count >= MAX_WINDOWS)
  BY <1>0, GuiAssumption
<1>3. Created(g, title) = [g EXCEPT !.count = @ + 1, !.next_id = @ + 1, !.windows = WithWindow(g, title)]
  BY <1>2 DEF Created
<1>4. Created(g, title) = [windows |-> WithWindow(g, title), count |-> g.count + 1, bar |-> g.bar,
                           focused_id |-> g.focused_id, next_id |-> g.next_id + 1, used |-> g.used, drag |-> g.drag]
  BY <1>3 DEF GuiStates
<1> QED BY <1>1, <1>4

\* Facts about the parts of Agrees, each under its own name.
AgreeParts(g, listed) ==
    /\ g.windows \in [Index -> Window] /\ g.count \in 0..MAX_WINDOWS /\ g.next_id \in Nat
    /\ g.bar \in Seq(Nat) /\ MAX_WINDOWS \in Nat /\ 1..g.count \subseteq Index

LEMMA AgreeTypes ==
    ASSUME NEW g, NEW listed, Agrees(g, listed)
    PROVE  g \in GuiStates /\ AgreeParts(g, listed)
<1>1. g \in GuiStates
  BY DEF Agrees
<1> QED BY <1>1, StateTypes, GuiAssumption DEF AgreeParts, Index

\* A new window has an id of its own and the only focus; the task bar has no button for it yet
\* (gui_create_window).
LEMMA CreatedAgrees ==
    ASSUME NEW g, NEW listed \in SUBSET (1..g.count), Agrees(g, listed), NEW title \in Titles, g.count < MAX_WINDOWS
    PROVE  Agrees(Created(g, title), listed)
<1> DEFINE h == Created(g, title)
<1>1. AgreeParts(g, listed) /\ g \in GuiStates
  BY AgreeTypes
<1>2. /\ h.windows = WithWindow(g, title) /\ h.count = g.count + 1 /\ h.bar = g.bar
      /\ h.next_id = g.next_id + 1 /\ h \in GuiStates
  <2>1. /\ WithWindow(g, title) \in [Index -> Window]
        /\ h = [windows |-> WithWindow(g, title), count |-> g.count + 1, bar |-> g.bar,
                focused_id |-> g.focused_id, next_id |-> g.next_id + 1, used |-> g.used, drag |-> g.drag]
    BY <1>1, CreatedFields
  <2> HIDE DEF h
  <2>2. g.count + 1 \in 0..MAX_WINDOWS /\ g.next_id + 1 \in Nat
    BY <1>1 DEF AgreeParts
  <2>3. h \in GuiStates
    BY <1>1, <2>1, <2>2, StateTypes DEF GuiStates
  <2> QED BY <2>1, <2>3
<1> HIDE DEF h
<1>3. \A i \in 1..h.count : i \in Index
  BY <1>1, <1>2 DEF AgreeParts, Index
<1>4. /\ \A i \in 1..g.count : /\ h.windows[i].id = g.windows[i].id /\ g.windows[i].id < g.next_id
                               /\ g.windows[i].id \in Nat
      /\ h.windows[g.count + 1].id = g.next_id
  <2>1. ASSUME NEW i \in 1..g.count PROVE h.windows[i].id = g.windows[i].id /\ g.windows[i].id \in Nat
    <3>1. i \in Index /\ i <= g.count /\ g.windows[i] \in Window
      BY <1>1 DEF AgreeParts
    <3>2. h.windows[i] = WithFocus(g.windows[i], FALSE)
      BY <1>2, <3>1 DEF WithWindow
    <3>3. FALSE \in BOOLEAN
      OBVIOUS
    <3> QED BY <3>1, <3>2, <3>3, FocusField, WindowTypes
  <2>2. h.windows[g.count + 1].id = g.next_id
    <3>1. g.count + 1 \in Index /\ ~(g.count + 1 <= g.count)
      BY <1>1 DEF AgreeParts, Index
    <3>2. h.windows[g.count + 1] = NewWindow(g.windows[g.count + 1], g.next_id, title)
      BY <1>2, <3>1 DEF WithWindow
    <3> QED BY <1>1, <3>1, <3>2, NewFields, SMTT(40) DEF AgreeParts
  <2>3. \A i \in 1..g.count : g.windows[i].id < g.next_id
    BY DEF Agrees
  <2> QED BY <2>1, <2>2, <2>3
<1>45. \A i \in 1..h.count : i \in 1..g.count \/ i = g.count + 1
  BY <1>1, <1>2 DEF AgreeParts
<1>5. IdsDistinct(h)
  <2> SUFFICES ASSUME NEW i \in 1..h.count, NEW j \in 1..h.count, h.windows[i].id = h.windows[j].id PROVE i = j
    BY DEF IdsDistinct
  <2>1. g.next_id \in Nat
    BY <1>1 DEF AgreeParts
  <2>2. CASE i \in 1..g.count /\ j \in 1..g.count
    <3>1. g.windows[i].id = g.windows[j].id
      BY <1>4, <2>2
    <3> QED BY <2>2, <3>1 DEF Agrees, IdsDistinct
  <2>3. CASE i \in 1..g.count /\ j = g.count + 1
    BY <1>4, <2>1, <2>3
  <2>4. CASE i = g.count + 1 /\ j \in 1..g.count
    BY <1>4, <2>1, <2>4
  <2> QED BY <1>45, <2>2, <2>3, <2>4
<1>6. OneFocus(h)
  <2>1. ASSUME NEW i \in FocusedWindows(h) PROVE i = g.count + 1
    <3>1. i \in 1..h.count /\ h.windows[i].focused
      BY DEF FocusedWindows
    <3> SUFFICES ASSUME i \in 1..g.count PROVE FALSE
      BY <1>45, <3>1
    <3>2. i \in Index /\ i <= g.count /\ g.windows[i] \in Window
      BY <1>1 DEF AgreeParts
    <3>3. h.windows[i] = WithFocus(g.windows[i], FALSE)
      BY <1>2, <3>2 DEF WithWindow
    <3>4. FALSE \in BOOLEAN
      OBVIOUS
    <3>5. h.windows[i].focused = FALSE
      BY <3>2, <3>3, <3>4, FocusField
    <3> QED BY <3>1, <3>5
  <2> QED BY <2>1 DEF OneFocus
<1>7. ButtonsFor(h, listed)
  <2>1. \A i \in listed : h.windows[i].id = g.windows[i].id
    BY <1>4
  <2>2. {h.windows[i].id : i \in listed} = {g.windows[i].id : i \in listed}
    BY <2>1
  <2> QED BY <1>2, <2>2 DEF Agrees, ButtonsFor
<1>8. \A i \in 1..h.count : h.windows[i].id < h.next_id
  <2> SUFFICES ASSUME NEW i \in 1..h.count PROVE h.windows[i].id < g.next_id + 1
    BY <1>2
  <2>1. g.next_id \in Nat
    BY <1>1 DEF AgreeParts
  <2>2. CASE i \in 1..g.count
    BY <1>4, <2>1, <2>2
  <2>3. CASE i = g.count + 1
    BY <1>4, <2>1, <2>3
  <2> QED BY <1>45, <2>2, <2>3
<1> QED BY <1>2, <1>5, <1>6, <1>7, <1>8 DEF Agrees, h

\* The window is of a program or not; it refers to no state that counts, and the others refer to
\* theirs (gui_create_window).
LEMMA CreatedRest ==
    ASSUME NEW g \in GuiStates, NEW title \in Titles, g.count < MAX_WINDOWS
    PROVE  /\ ProgramWindows(Created(g, title))
                = ProgramWindows(g) \cup (IF title \in Programs THEN {g.count + 1} ELSE {})
           /\ \A old : HeldBut(g, old) => HeldBut(Created(g, title), old)
           /\ \A i \in 1..g.count : Created(g, title).windows[i].slot = g.windows[i].slot
<1> DEFINE h == Created(g, title)
<1>1. /\ h.windows = WithWindow(g, title) /\ h.count = g.count + 1 /\ h.used = g.used
  BY CreatedFields
<1> HIDE DEF h
<1>2. /\ g.windows \in [Index -> Window] /\ g.count \in Nat /\ g.next_id \in Nat /\ MAX_WINDOWS \in Nat
      /\ 1..g.count \subseteq Index /\ g.count + 1 \in Index
  BY StateTypes, GuiAssumption DEF Index
<1>3. ASSUME NEW i \in 1..g.count
      PROVE  h.windows[i].title = g.windows[i].title /\ h.windows[i].slot = g.windows[i].slot
  <2>1. i \in Index /\ i <= g.count /\ g.windows[i] \in Window
    BY <1>2
  <2>2. h.windows[i] = WithFocus(g.windows[i], FALSE)
    BY <1>1, <2>1 DEF WithWindow
  <2>3. FALSE \in BOOLEAN
    OBVIOUS
  <2> QED BY <2>1, <2>2, <2>3, FocusField
<1>4. h.windows[g.count + 1].title = title
  <2>1. ~(g.count + 1 <= g.count) /\ g.windows[g.count + 1] \in Window
    BY <1>2
  <2>2. h.windows[g.count + 1] = NewWindow(g.windows[g.count + 1], g.next_id, title)
    BY <1>1, <1>2, <2>1 DEF WithWindow
  <2> QED BY <1>2, <2>1, <2>2, NewFields
<1>5. 1..h.count = 1..g.count \cup {g.count + 1}
  BY <1>1, <1>2
<1>6. ProgramWindows(h) = ProgramWindows(g) \cup (IF title \in Programs THEN {g.count + 1} ELSE {})
  BY <1>3, <1>4, <1>5 DEF ProgramWindows
<1>7. ASSUME NEW old, HeldBut(g, old) PROVE HeldBut(h, old)
  <2> SUFFICES ASSUME NEW p \in Programs, NEW s \in h.used[p] \ old[p]
               PROVE  \E i \in 1..h.count : h.windows[i].slot[p] = s
    BY DEF HeldBut
  <2>1. PICK i \in 1..g.count : g.windows[i].slot[p] = s
    BY <1>1, <1>7 DEF HeldBut
  <2>2. i \in 1..h.count /\ h.windows[i].slot[p] = s
    BY <1>3, <1>5, <2>1
  <2> QED BY <2>2
<1> QED BY <1>3, <1>6, <1>7 DEF h

----------------------------------------------------------------------------
(* gui_destroy_window                                                       *)

\* The task bar loses the button of the window and no other (gui_destroy_window).
LEMMA UnbuttonedBar ==
    ASSUME NEW bar \in Seq(Nat), IsInjective(bar), NEW id, NEW left \in Unbuttoned(bar, id)
    PROVE  left \in Seq(Nat) /\ IsInjective(left) /\ Range(left) = Range(bar) \ {id}
<1>1. CASE id \notin Range(bar)
  <2>1. {b \in DOMAIN bar : bar[b] = id} = {}
    BY <1>1 DEF Range
  <2>2. left = bar
    BY <1>1, <2>1 DEF Unbuttoned, FirstOf
  <2> QED BY <1>1, <2>2
<1>2. CASE id \in Range(bar)
  <2>1. PICK b \in DOMAIN bar : bar[b] = id /\ left = RemoveAt(bar, b)
    BY <1>2 DEF Unbuttoned, FirstOf
  <2>2. left \in Seq(Nat)
    BY <2>1, RemoveAtSeq
  <2>3. /\ \A j \in DOMAIN left : \E k \in DOMAIN bar \ {b} :
               left[j] = bar[k] /\ k = IF j < b THEN j ELSE j + 1
        /\ \A k \in DOMAIN bar \ {b} : \E j \in DOMAIN left : left[j] = bar[k]
    BY <2>1, RemoveAtPlaces
  <2>4. \A k, m \in DOMAIN bar : bar[k] = bar[m] => k = m
    BY DEF IsInjective
  <2>5. Range(left) = Range(bar) \ {id}
    <3>1. ASSUME NEW k \in DOMAIN bar \ {b} PROVE bar[k] # id
      BY <2>1, <2>4
    <3>2. ASSUME NEW k \in DOMAIN bar, bar[k] # id PROVE k \in DOMAIN bar \ {b}
      BY <2>1, <3>2
    <3> QED BY <2>1, <2>3, <3>1, <3>2 DEF Range
  <2>6. ASSUME NEW j \in DOMAIN left, NEW m \in DOMAIN left, left[j] = left[m] PROVE j = m
    <3>1. PICK k \in DOMAIN bar \ {b} : left[j] = bar[k] /\ k = IF j < b THEN j ELSE j + 1
      BY <2>3
    <3>2. PICK l \in DOMAIN bar \ {b} : left[m] = bar[l] /\ l = IF m < b THEN m ELSE m + 1
      BY <2>3
    <3>3. k = l
      BY <2>4, <2>6, <3>1, <3>2
    <3>4. j \in Nat /\ m \in Nat /\ b \in Nat /\ k # b /\ l # b
      <4>1. DOMAIN left = 1..Len(left) /\ DOMAIN bar = 1..Len(bar)
        BY <2>2
      <4> QED BY <2>1, <4>1
    <3> QED BY <3>1, <3>2, <3>3, <3>4
  <2> QED BY <2>2, <2>5, <2>6 DEF IsInjective
<1> QED BY <1>1, <1>2

\* The places that the windows come from when the one at i is taken out.
From(i, j) == IF j < i THEN j ELSE j + 1

\* The window is gone and those behind it have moved up; its state is free (gui_destroy_window).
LEMMA DestroyedFields ==
    ASSUME NEW g \in GuiStates, NEW i \in 1..g.count, NEW d \in Destroyed(g, i)
    PROVE  /\ d.count = g.count - 1 /\ d.next_id = g.next_id /\ d.drag = g.drag
           /\ d.bar \in Unbuttoned(g.bar, g.windows[i].id) /\ d.used = Released(g, i)
           /\ d.bar \in Seq(Nat) => d \in GuiStates
           /\ \A j \in 1..g.count - 1 : From(i, j) \in 1..g.count \ {i} /\ d.windows[j] = g.windows[From(i, j)]
<1> DEFINE freed == [g.windows EXCEPT ![i] = Stateless(@)]
           ws == ShiftedDown(freed, i, g.count)
<1>1. /\ g.windows \in [Index -> Window] /\ g.count \in 1..MAX_WINDOWS /\ g.next_id \in Nat /\ MAX_WINDOWS \in Nat
      /\ i \in Index /\ g.used \in [Programs -> SUBSET Index]
  BY StateTypes, GuiAssumption DEF Index
<1>2. PICK bar \in Unbuttoned(g.bar, g.windows[i].id) :
        d = [g EXCEPT !.used = Released(g, i), !.bar = bar, !.windows = ws, !.count = @ - 1]
  BY DEF Destroyed
<1>3. Stateless(g.windows[i]) \in Window
  <2>1. g.windows[i] \in Window
    BY <1>1
  <2>2. [p \in Programs |-> 0] \in [Programs -> 0..MAX_WINDOWS]
    BY <1>1
  <2> QED BY <2>1, <2>2 DEF Stateless, Window
<1>4. freed \in [Index -> Window] /\ \A j \in Index \ {i} : freed[j] = g.windows[j]
  BY <1>1, <1>3
<1> HIDE DEF freed
<1>5. ws \in [Index -> Window]
  BY <1>1, <1>4 DEF ShiftedDown, Index
<1>6. \A j \in 1..g.count - 1 : From(i, j) \in 1..g.count \ {i} /\ ws[j] = g.windows[From(i, j)]
  <2> SUFFICES ASSUME NEW j \in 1..g.count - 1
               PROVE  From(i, j) \in 1..g.count \ {i} /\ ws[j] = g.windows[From(i, j)]
    OBVIOUS
  <2>1. j \in Index /\ From(i, j) \in 1..g.count \ {i} /\ From(i, j) \in Index \ {i}
    BY <1>1 DEF From, Index
  <2>2. ws[j] = freed[From(i, j)]
    BY <1>1, <2>1 DEF ShiftedDown, From
  <2> QED BY <1>4, <2>1, <2>2
<1> HIDE DEF ws
<1>7. d = [windows |-> ws, count |-> g.count - 1, bar |-> bar, focused_id |-> g.focused_id, next_id |-> g.next_id,
           used |-> Released(g, i), drag |-> g.drag]
  BY <1>2 DEF GuiStates
<1>8. Released(g, i) \in [Programs -> SUBSET Index]
  BY <1>1 DEF Released
<1>9. bar \in Seq(Nat) => d \in GuiStates
  <2>1. g.count - 1 \in 0..MAX_WINDOWS
    BY <1>1
  <2> QED BY <1>5, <1>7, <1>8, <2>1, StateTypes DEF GuiStates
<1> QED BY <1>6, <1>7, <1>9

\* Closing a window leaves the others with their ids, their buttons and their states.  The window
\* need not have a button yet (gui_destroy_window, and launch_*_new when no state is free).
LEMMA DestroyedAgrees ==
    ASSUME NEW g, NEW i \in 1..g.count, NEW listed, Agrees(g, listed),
           listed \ {i} = ProgramWindows(g) \ {i}, NEW d \in Destroyed(g, i)
    PROVE  /\ Agrees(d, ProgramWindows(d))
           /\ \A old : HeldBut(g, old) => HeldBut(d, old)
<1>1. AgreeParts(g, listed) /\ g \in GuiStates
  BY AgreeTypes
<1>2. /\ d.count = g.count - 1 /\ d.next_id = g.next_id /\ d.used = Released(g, i)
      /\ d.bar \in Unbuttoned(g.bar, g.windows[i].id)
      /\ d.bar \in Seq(Nat) => d \in GuiStates
      /\ \A j \in 1..g.count - 1 : From(i, j) \in 1..g.count \ {i} /\ d.windows[j] = g.windows[From(i, j)]
  BY <1>1, DestroyedFields
<1>3. /\ \A j, k \in 1..g.count : g.windows[j].id = g.windows[k].id => j = k
      /\ g.count \in Nat /\ i \in Nat /\ g.count >= 1
  BY <1>1 DEF AgreeParts, Agrees, IdsDistinct
<1>4. /\ g.bar \in Seq(Nat) /\ IsInjective(g.bar) /\ Range(g.bar) = {g.windows[k].id : k \in listed}
  BY <1>1 DEF AgreeParts, Agrees, ButtonsFor
<1>5. d.bar \in Seq(Nat) /\ IsInjective(d.bar) /\ Range(d.bar) = Range(g.bar) \ {g.windows[i].id}
  BY <1>2, <1>4, UnbuttonedBar
<1>6. d \in GuiStates
  BY <1>2, <1>5
<1>7. \A j, k \in 1..g.count - 1 : From(i, j) = From(i, k) => j = k
  BY <1>3 DEF From
<1>8. \A k \in 1..g.count \ {i} : \E j \in 1..g.count - 1 : From(i, j) = k
  <2> SUFFICES ASSUME NEW k \in 1..g.count \ {i} PROVE \E j \in 1..g.count - 1 : From(i, j) = k
    OBVIOUS
  <2>1. CASE k < i
    <3>1. k \in 1..g.count - 1 /\ From(i, k) = k
      BY <1>3, <2>1 DEF From
    <3> QED BY <3>1
  <2>2. CASE ~(k < i)
    <3>1. k - 1 \in 1..g.count - 1 /\ From(i, k - 1) = k
      BY <1>3, <2>2 DEF From
    <3> QED BY <3>1
  <2> QED BY <2>1, <2>2
<1>9. IdsDistinct(d)
  <2> SUFFICES ASSUME NEW j \in 1..d.count, NEW k \in 1..d.count, d.windows[j].id = d.windows[k].id PROVE j = k
    BY DEF IdsDistinct
  <2>1. From(i, j) = From(i, k)
    BY <1>2, <1>3
  <2> QED BY <1>2, <1>7, <2>1
<1>10. OneFocus(d)
  <2> SUFFICES ASSUME NEW j \in FocusedWindows(d), NEW k \in FocusedWindows(d) PROVE j = k
    BY DEF OneFocus
  <2>1. From(i, j) \in FocusedWindows(g) /\ From(i, k) \in FocusedWindows(g) /\ j \in 1..g.count - 1 /\ k \in 1..g.count - 1
    BY <1>2 DEF FocusedWindows
  <2>2. From(i, j) = From(i, k)
    BY <2>1 DEF Agrees, OneFocus
  <2> QED BY <1>7, <2>1, <2>2
<1>11. ButtonsFor(d, ProgramWindows(d))
  <2>1. {g.windows[k].id : k \in listed} \ {g.windows[i].id} = {g.windows[k].id : k \in ProgramWindows(g) \ {i}}
    <3>1. ASSUME NEW k \in ProgramWindows(g) \ {i} PROVE g.windows[k].id # g.windows[i].id
      <4>1. k \in 1..g.count /\ k # i
        BY DEF ProgramWindows
      <4> QED BY <1>3, <4>1
    <3>2. \A k \in listed : g.windows[k].id # g.windows[i].id => k \in ProgramWindows(g) \ {i}
      OBVIOUS
    <3>3. \A k \in ProgramWindows(g) \ {i} : k \in listed
      OBVIOUS
    <3> QED BY <3>1, <3>2, <3>3
  <2>2. {g.windows[k].id : k \in ProgramWindows(g) \ {i}} = {d.windows[j].id : j \in ProgramWindows(d)}
    <3>1. ASSUME NEW j \in ProgramWindows(d)
          PROVE  From(i, j) \in ProgramWindows(g) \ {i} /\ d.windows[j].id = g.windows[From(i, j)].id
      BY <1>2 DEF ProgramWindows
    <3>2. ASSUME NEW k \in ProgramWindows(g) \ {i}
          PROVE  \E j \in ProgramWindows(d) : d.windows[j].id = g.windows[k].id
      <4>1. PICK j \in 1..g.count - 1 : From(i, j) = k
        BY <1>8 DEF ProgramWindows
      <4>2. d.windows[j] = g.windows[k] /\ j \in 1..d.count
        BY <1>2, <4>1
      <4>3. j \in ProgramWindows(d)
        BY <4>2 DEF ProgramWindows
      <4> QED BY <4>2, <4>3
    <3> QED BY <3>1, <3>2
  <2> QED BY <1>4, <1>5, <2>1, <2>2 DEF ButtonsFor
<1>12. \A j \in 1..d.count : d.windows[j].id < d.next_id
  <2> SUFFICES ASSUME NEW j \in 1..d.count PROVE d.windows[j].id < g.next_id
    BY <1>2
  <2> QED BY <1>2 DEF Agrees
<1>13. ASSUME NEW old, HeldBut(g, old) PROVE HeldBut(d, old)
  <2> SUFFICES ASSUME NEW p \in Programs, NEW s \in d.used[p] \ old[p]
               PROVE  \E j \in 1..d.count : d.windows[j].slot[p] = s
    BY DEF HeldBut
  <2>1. s \in g.used[p] \ old[p] /\ s # g.windows[i].slot[p]
    BY <1>2 DEF Released
  <2>2. PICK k \in 1..g.count : g.windows[k].slot[p] = s
    BY <1>13, <2>1 DEF HeldBut
  <2>3. PICK j \in 1..g.count - 1 : From(i, j) = k
    BY <1>8, <2>1, <2>2
  <2>4. d.windows[j].slot[p] = s /\ j \in 1..d.count
    BY <1>2, <2>2, <2>3
  <2> QED BY <2>4
<1> QED BY <1>6, <1>9, <1>10, <1>11, <1>12, <1>13 DEF Agrees

----------------------------------------------------------------------------
(* gui_focus_window                                                         *)

\* Where the window at each place was before the one at i went to the end.
Was(i, last, j) == IF j < i THEN j ELSE IF j < last THEN j + 1 ELSE i

\* The windows are the same in another order, and the flag is at i (gui_focus_window).
LEMMA FocusedFields ==
    ASSUME NEW g \in GuiStates, NEW i \in 1..g.count, g.focused_id # g.windows[i].id
    PROVE  LET h == Focused(g, i) IN
           /\ h \in GuiStates /\ h.count = g.count /\ h.next_id = g.next_id /\ h.drag = g.drag
           /\ h.bar = g.bar /\ h.used = g.used
           /\ \A j \in 1..g.count : /\ Was(i, g.count, j) \in 1..g.count
                                    /\ h.windows[j] = WithFocus(g.windows[Was(i, g.count, j)], j = i)
<1> DEFINE moved == [ShiftedDown(g.windows, i, g.count) EXCEPT ![g.count] = g.windows[i]]
           ws == [j \in Index |-> IF j <= g.count THEN WithFocus(moved[j], j = i) ELSE moved[j]]
           h == Focused(g, i)
<1>1. /\ g.windows \in [Index -> Window] /\ g.count \in 1..MAX_WINDOWS /\ MAX_WINDOWS \in Nat
      /\ i \in Index /\ g.count \in Index /\ g.focused_id \in Nat /\ 1..g.count \subseteq Index
  BY StateTypes, GuiAssumption DEF Index
<1>2. h = [g EXCEPT !.windows = ws, !.focused_id = moved[i].id]
  BY DEF Focused
<1>3. moved \in [Index -> Window]
  <2>1. ShiftedDown(g.windows, i, g.count) \in [Index -> Window]
    BY <1>1 DEF ShiftedDown, Index
  <2> QED BY <1>1, <2>1
<1>4. \A j \in 1..g.count : Was(i, g.count, j) \in 1..g.count /\ moved[j] = g.windows[Was(i, g.count, j)]
  <2> SUFFICES ASSUME NEW j \in 1..g.count
               PROVE  Was(i, g.count, j) \in 1..g.count /\ moved[j] = g.windows[Was(i, g.count, j)]
    OBVIOUS
  <2>1. j \in Index /\ Was(i, g.count, j) \in 1..g.count
    BY <1>1 DEF Was
  <2>2. CASE j = g.count
    BY <1>1, <2>1, <2>2 DEF Was, ShiftedDown
  <2>3. CASE j # g.count
    <3>1. moved[j] = ShiftedDown(g.windows, i, g.count)[j]
      BY <1>1, <2>1, <2>3 DEF ShiftedDown
    <3> QED BY <1>1, <2>1, <2>3, <3>1 DEF Was, ShiftedDown
  <2> QED BY <2>2, <2>3
<1> HIDE DEF moved
<1>5. ws \in [Index -> Window]
  <2> SUFFICES ASSUME NEW j \in Index PROVE ws[j] \in Window
    OBVIOUS
  <2>1. moved[j] \in Window
    BY <1>3
  <2>2. (j = i) \in BOOLEAN
    OBVIOUS
  <2>3. WithFocus(moved[j], j = i) \in Window
    BY <2>1, <2>2, FocusField
  <2> QED BY <2>1, <2>3
<1>6. \A j \in 1..g.count : ws[j] = WithFocus(moved[j], j = i)
  <2> SUFFICES ASSUME NEW j \in 1..g.count PROVE ws[j] = WithFocus(moved[j], j = i)
    OBVIOUS
  <2>1. j \in Index /\ j <= g.count
    BY <1>1
  <2> QED BY <2>1
<1> HIDE DEF ws
<1>7. moved[i].id \in Nat
  BY <1>1, <1>3, WindowTypes
<1>8. h = [windows |-> ws, count |-> g.count, bar |-> g.bar, focused_id |-> moved[i].id, next_id |-> g.next_id,
           used |-> g.used, drag |-> g.drag]
  BY <1>2 DEF GuiStates
<1> HIDE DEF h
<1>9. h \in GuiStates
  BY <1>5, <1>7, <1>8, StateTypes DEF GuiStates
<1>10. \A j \in 1..g.count : h.windows[j] = WithFocus(g.windows[Was(i, g.count, j)], j = i)
  BY <1>4, <1>6, <1>8
<1> QED BY <1>4, <1>8, <1>9, <1>10 DEF h

\* A state in which everything agrees (the state between any two operations).
Sound(g, old) == Agrees(g, ProgramWindows(g)) /\ HeldBut(g, old)

\* Focusing a window, whichever then has the flag, keeps ids, buttons and states (gui_focus_window).
LEMMA FocusedSound ==
    ASSUME NEW g, NEW old, Sound(g, old), NEW i \in 1..g.count
    PROVE  LET h == Focused(g, i) IN Sound(h, old) /\ h.count = g.count /\ h.drag = g.drag
<1> DEFINE h == Focused(g, i)
<1>1. CASE g.focused_id = g.windows[i].id
  BY <1>1 DEF Focused
<1>2. CASE g.focused_id # g.windows[i].id
  <2>1. g \in GuiStates /\ AgreeParts(g, ProgramWindows(g))
    BY AgreeTypes DEF Sound
  <2>2. /\ h \in GuiStates /\ h.count = g.count /\ h.next_id = g.next_id /\ h.drag = g.drag
        /\ h.bar = g.bar /\ h.used = g.used
        /\ \A j \in 1..g.count : /\ Was(i, g.count, j) \in 1..g.count
                                 /\ h.windows[j] = WithFocus(g.windows[Was(i, g.count, j)], j = i)
    BY <1>2, <2>1, FocusedFields
  <2> HIDE DEF h
  <2>3. ASSUME NEW j \in 1..g.count
        PROVE  LET w == g.windows[Was(i, g.count, j)] IN
               /\ h.windows[j].id = w.id /\ h.windows[j].title = w.title /\ h.windows[j].slot = w.slot
               /\ h.windows[j].focused = (j = i)
    <3>1. g.windows[Was(i, g.count, j)] \in Window
      BY <2>1, <2>2 DEF AgreeParts
    <3>2. (j = i) \in BOOLEAN
      OBVIOUS
    <3> QED BY <2>2, <3>1, <3>2, FocusField, ZenonT(60)
  <2>4. i \in Nat /\ g.count \in Nat
    BY <2>1 DEF AgreeParts
  <2>5. \A j, k \in 1..g.count : Was(i, g.count, j) = Was(i, g.count, k) => j = k
    BY <2>4 DEF Was
  <2>6. \A k \in 1..g.count : \E j \in 1..g.count : Was(i, g.count, j) = k
    <3> SUFFICES ASSUME NEW k \in 1..g.count PROVE \E j \in 1..g.count : Was(i, g.count, j) = k
      OBVIOUS
    <3>1. CASE k < i
      <4>1. Was(i, g.count, k) = k
        BY <2>4, <3>1 DEF Was
      <4> QED BY <4>1
    <3>2. CASE k = i
      <4>1. Was(i, g.count, g.count) = k /\ g.count \in 1..g.count
        BY <2>4, <3>2 DEF Was
      <4> QED BY <4>1
    <3>3. CASE k > i
      <4>1. Was(i, g.count, k - 1) = k /\ k - 1 \in 1..g.count
        BY <2>4, <3>3 DEF Was
      <4> QED BY <4>1
    <3> QED BY <2>4, <3>1, <3>2, <3>3
  <2>7. IdsDistinct(h)
    <3> SUFFICES ASSUME NEW j \in 1..g.count, NEW k \in 1..g.count, h.windows[j].id = h.windows[k].id PROVE j = k
      BY <2>2 DEF IdsDistinct
    <3>1. g.windows[Was(i, g.count, j)].id = g.windows[Was(i, g.count, k)].id
      BY <2>3
    <3>2. Was(i, g.count, j) = Was(i, g.count, k)
      BY <2>2, <3>1 DEF Sound, Agrees, IdsDistinct
    <3> QED BY <2>5, <3>2
  <2>8. OneFocus(h)
    <3>1. ASSUME NEW j \in FocusedWindows(h) PROVE j = i
      BY <2>2, <2>3 DEF FocusedWindows
    <3> QED BY <3>1 DEF OneFocus
  <2>9. ButtonsFor(h, ProgramWindows(h))
    <3>1. ASSUME NEW j \in ProgramWindows(h)
          PROVE  Was(i, g.count, j) \in ProgramWindows(g) /\ h.windows[j].id = g.windows[Was(i, g.count, j)].id
      BY <2>2, <2>3 DEF ProgramWindows
    <3>2. ASSUME NEW k \in ProgramWindows(g) PROVE \E j \in ProgramWindows(h) : h.windows[j].id = g.windows[k].id
      <4>1. PICK j \in 1..g.count : Was(i, g.count, j) = k
        BY <2>6 DEF ProgramWindows
      <4>2. j \in ProgramWindows(h) /\ h.windows[j].id = g.windows[k].id
        BY <2>2, <2>3, <4>1 DEF ProgramWindows
      <4> QED BY <4>2
    <3>3. {h.windows[j].id : j \in ProgramWindows(h)} = {g.windows[k].id : k \in ProgramWindows(g)}
      BY <3>1, <3>2
    <3> QED BY <2>2, <3>3 DEF Sound, Agrees, ButtonsFor
  <2>10. \A j \in 1..h.count : h.windows[j].id < h.next_id
    <3> SUFFICES ASSUME NEW j \in 1..g.count PROVE h.windows[j].id < g.next_id
      BY <2>2
    <3> QED BY <2>2, <2>3 DEF Sound, Agrees
  <2>11. HeldBut(h, old)
    <3> SUFFICES ASSUME NEW p \in Programs, NEW s \in g.used[p] \ old[p]
                 PROVE  \E j \in 1..g.count : h.windows[j].slot[p] = s
      BY <2>2 DEF HeldBut
    <3>1. PICK k \in 1..g.count : g.windows[k].slot[p] = s
      BY DEF Sound, HeldBut
    <3>2. PICK j \in 1..g.count : Was(i, g.count, j) = k
      BY <2>6
    <3> QED BY <2>3, <3>1, <3>2
  <2> QED BY <2>2, <2>7, <2>8, <2>9, <2>10, <2>11 DEF Sound, Agrees, h
<1> QED BY <1>1, <1>2

\* What agrees about a state does not depend on more than these fields of the windows (gui_state).
Alike(g, h) ==
    /\ h \in GuiStates
    /\ h.count = g.count /\ h.next_id = g.next_id /\ h.bar = g.bar /\ h.used = g.used
    /\ \A j \in 1..g.count : /\ h.windows[j].id = g.windows[j].id /\ h.windows[j].title = g.windows[j].title
                             /\ h.windows[j].slot = g.windows[j].slot
                             /\ h.windows[j].focused = g.windows[j].focused

LEMMA AlikeAgrees ==
    ASSUME NEW g, NEW h, Alike(g, h)
    PROVE  /\ ProgramWindows(h) = ProgramWindows(g)
           /\ \A listed \in SUBSET (1..g.count) : Agrees(g, listed) => Agrees(h, listed)
           /\ \A old : HeldBut(g, old) => HeldBut(h, old)
           /\ \A old : Sound(g, old) => Sound(h, old)
<1>1. ProgramWindows(h) = ProgramWindows(g)
  BY DEF Alike, ProgramWindows
<1>2. ASSUME NEW listed \in SUBSET (1..g.count), Agrees(g, listed) PROVE Agrees(h, listed)
  <2>1. IdsDistinct(h)
    BY <1>2 DEF Alike, Agrees, IdsDistinct
  <2>2. OneFocus(h)
    <3>1. FocusedWindows(h) \subseteq FocusedWindows(g)
      BY DEF Alike, FocusedWindows
    <3> QED BY <1>2, <3>1 DEF Agrees, OneFocus
  <2>3. ButtonsFor(h, listed)
    <3>1. \A j \in listed : h.windows[j].id = g.windows[j].id
      BY DEF Alike
    <3>2. {h.windows[j].id : j \in listed} = {g.windows[k].id : k \in listed}
      BY <3>1
    <3>3. h.bar = g.bar
      BY DEF Alike
    <3> QED BY <1>2, <3>2, <3>3 DEF Agrees, ButtonsFor
  <2>4. \A j \in 1..h.count : h.windows[j].id < h.next_id
    BY <1>2 DEF Alike, Agrees
  <2> QED BY <2>1, <2>2, <2>3, <2>4 DEF Alike, Agrees
<1>3. ASSUME NEW old, HeldBut(g, old) PROVE HeldBut(h, old)
  <2> SUFFICES ASSUME NEW p \in Programs, NEW s \in g.used[p] \ old[p]
               PROVE  \E j \in 1..g.count : h.windows[j].slot[p] = s
    BY DEF Alike, HeldBut
  <2>1. PICK k \in 1..g.count : g.windows[k].slot[p] = s
    BY <1>3 DEF HeldBut
  <2> QED BY <2>1 DEF Alike
<1>4. ProgramWindows(g) \in SUBSET (1..g.count)
  BY DEF ProgramWindows
<1> QED BY <1>1, <1>2, <1>3, <1>4 DEF Sound

\* A window's state or kind, and the drag, may change (gui_minimize_window, gui_maximize_window,
\* launch_*_new, drag_state).
LEMMA WindowChanged ==
    ASSUME NEW g \in GuiStates, NEW i \in 1..g.count, NEW w \in Window,
           w.id = g.windows[i].id, w.title = g.windows[i].title, w.slot = g.windows[i].slot,
           w.focused = g.windows[i].focused
    PROVE  LET h == [g EXCEPT !.windows = [g.windows EXCEPT ![i] = w]] IN Alike(g, h) /\ h.drag = g.drag
<1> DEFINE ws == [g.windows EXCEPT ![i] = w]
           h == [g EXCEPT !.windows = ws]
<1>1. g.windows \in [Index -> Window] /\ i \in Index /\ 1..g.count \subseteq Index
  BY StateTypes, GuiAssumption DEF Index
<1>2. ws \in [Index -> Window] /\ ws[i] = w /\ \A j \in 1..g.count : j # i => ws[j] = g.windows[j]
  BY <1>1
<1> HIDE DEF ws
<1>25. h = [g EXCEPT !.windows = ws]
  OBVIOUS
<1> HIDE DEF h
<1>3. h = [windows |-> ws, count |-> g.count, bar |-> g.bar, focused_id |-> g.focused_id, next_id |-> g.next_id,
           used |-> g.used, drag |-> g.drag]
  BY <1>25 DEF GuiStates
<1> HIDE DEF h
<1>4. h \in GuiStates
  BY <1>2, <1>3, StateTypes DEF GuiStates
<1>5. \A j \in 1..g.count : /\ ws[j].id = g.windows[j].id /\ ws[j].title = g.windows[j].title
                            /\ ws[j].slot = g.windows[j].slot /\ ws[j].focused = g.windows[j].focused
  BY <1>2
<1>6. Alike(g, h)
  BY <1>3, <1>4, <1>5 DEF Alike
<1> QED BY <1>3, <1>6 DEF h, ws

LEMMA DraggedAlike ==
    ASSUME NEW g \in GuiStates, NEW mode \in {"none", "drag", "resize"}, NEW i \in 0..MAX_WINDOWS
    PROVE  Alike(g, Dragged(g, mode, i)) /\ Dragged(g, mode, i).drag = [mode |-> mode, at |-> i]
<1> DEFINE drag == [mode |-> mode, at |-> i]
           h == Dragged(g, mode, i)
<1>1. drag \in [mode : {"none", "drag", "resize"}, at : 0..MAX_WINDOWS]
  OBVIOUS
<1>2. h = [g EXCEPT !.drag = drag]
  BY DEF Dragged
<1> HIDE DEF drag
<1>3. h = [windows |-> g.windows, count |-> g.count, bar |-> g.bar, focused_id |-> g.focused_id, next_id |-> g.next_id,
           used |-> g.used, drag |-> drag]
  BY <1>2 DEF GuiStates
<1> HIDE DEF h
<1>4. h \in GuiStates
  BY <1>1, <1>3, StateTypes DEF GuiStates
<1>5. Alike(g, h)
  BY <1>3, <1>4 DEF Alike
<1> QED BY <1>3, <1>5 DEF h, drag

LEMMA ToggledAlike ==
    ASSUME NEW g \in GuiStates, NEW i \in 1..g.count
    PROVE  /\ Alike(g, Minimized(g, i)) /\ Minimized(g, i).drag = g.drag
           /\ Alike(g, Maximized(g, i)) /\ Maximized(g, i).drag = g.drag
<1>1. g.windows[i] \in Window /\ i \in Index /\ g.windows \in [Index -> Window]
  BY StateTypes, GuiAssumption DEF Index
<1>2. ASSUME NEW state \in {"minimized", "maximized"}
      PROVE  LET w == Toggled(g.windows[i], state) IN
             /\ w \in Window /\ w.id = g.windows[i].id /\ w.title = g.windows[i].title
             /\ w.slot = g.windows[i].slot /\ w.focused = g.windows[i].focused
  <2> DEFINE v == g.windows[i]
             st == IF v.state = state THEN "normal" ELSE state
             w == Toggled(v, state)
  <2>1. st \in {"normal", "minimized", "maximized"} /\ v \in Window
    BY <1>1
  <2>2. w = [v EXCEPT !.state = st]
    BY DEF Toggled
  <2> HIDE DEF st, v
  <2>3. w = [id |-> v.id, title |-> v.title, focused |-> v.focused, state |-> st, is |-> v.is, slot |-> v.slot]
    BY <2>1, <2>2 DEF Window
  <2> HIDE DEF w
  <2>4. w \in Window
    BY <2>1, <2>3, WindowMade, WindowTypes
  <2> QED BY <2>3, <2>4 DEF w, v
<1>3. ASSUME NEW state \in {"minimized", "maximized"}
      PROVE  LET h == [g EXCEPT !.windows = [g.windows EXCEPT ![i] = Toggled(@, state)]]
             IN  Alike(g, h) /\ h.drag = g.drag
  <2>1. [g.windows EXCEPT ![i] = Toggled(@, state)] = [g.windows EXCEPT ![i] = Toggled(g.windows[i], state)]
    OBVIOUS
  <2> QED BY <1>2, <2>1, WindowChanged
<1> QED BY <1>3 DEF Minimized, Maximized

----------------------------------------------------------------------------
(* launch_*_new                                                             *)

\* There is room for a button whenever there was room for the window: the buttons are of
\* different windows that are open (launch_*_new).
LEMMA BarFits ==
    ASSUME NEW g, NEW listed \in SUBSET (1..g.count), Agrees(g, listed)
    PROVE  Len(g.bar) <= g.count
<1>1. /\ g.bar \in Seq(Nat) /\ g.count \in Nat /\ Len(g.bar) \in Nat /\ DOMAIN g.bar = 1..Len(g.bar)
  BY AgreeTypes DEF AgreeParts
<1>2. \A b \in 1..Len(g.bar) : \E i \in 1..g.count : g.windows[i].id = g.bar[b]
  BY <1>1 DEF Agrees, ButtonsFor, Range
<1> DEFINE f == [b \in 1..Len(g.bar) |-> CHOOSE i \in 1..g.count : g.windows[i].id = g.bar[b]]
<1>3. \A b \in 1..Len(g.bar) : f[b] \in 1..g.count /\ g.windows[f[b]].id = g.bar[b]
  BY <1>2
<1>4. f \in [1..Len(g.bar) -> 1..g.count]
  BY <1>3
<1> HIDE DEF f
<1>5. ~ \E b, c \in 1..Len(g.bar) : b # c /\ f[b] = f[c]
  <2> SUFFICES ASSUME NEW b \in 1..Len(g.bar), NEW c \in 1..Len(g.bar), f[b] = f[c] PROVE b = c
    OBVIOUS
  <2>1. g.bar[b] = g.bar[c]
    BY <1>3
  <2> QED BY <1>1, <2>1 DEF Agrees, ButtonsFor, IsInjective
<1>6. /\ IsFiniteSet(1..Len(g.bar)) /\ Cardinality(1..Len(g.bar)) = Len(g.bar)
      /\ IsFiniteSet(1..g.count) /\ Cardinality(1..g.count) = g.count
  <2>1. ASSUME NEW n \in Nat PROVE IsFiniteSet(1..n) /\ Cardinality(1..n) = n
    <3>1. 1 \in Int /\ n \in Int
      OBVIOUS
    <3>2. IsFiniteSet(1..n) /\ Cardinality(1..n) = IF 1 > n THEN 0 ELSE n - 1 + 1
      BY <3>1, FS_Interval
    <3>3. (IF 1 > n THEN 0 ELSE n - 1 + 1) = n
      OBVIOUS
    <3> QED BY <3>2, <3>3
  <2> QED BY <1>1, <2>1
<1>7. ~(Cardinality(1..g.count) < Cardinality(1..Len(g.bar)))
  <2> SUFFICES ASSUME Cardinality(1..g.count) < Cardinality(1..Len(g.bar)) PROVE FALSE
    OBVIOUS
  <2>1. \E b, c \in 1..Len(g.bar) : b # c /\ f[b] = f[c]
    <3> DEFINE B == 1..Len(g.bar)
               I == 1..g.count
    <3>1. IsFiniteSet(B) /\ IsFiniteSet(I) /\ Cardinality(I) < Cardinality(B) /\ f \in [B -> I]
      BY <1>4, <1>6
    <3> HIDE DEF B, I
    <3>2. \E b, c \in B : b # c /\ f[b] = f[c]
      BY <3>1, FS_PigeonHole
    <3> QED BY <3>2 DEF B
  <2> QED BY <1>5, <2>1
<1> QED BY <1>1, <1>6, <1>7

\* A window is marked as one of a program, and refers to a state (launch_*_new).
LEMMA ProgramFields ==
    ASSUME NEW v \in Window, NEW p \in Programs
    PROVE  /\ OfProgram(v, p) \in Window
           /\ OfProgram(v, p) = [id |-> v.id, title |-> v.title, focused |-> v.focused, state |-> v.state,
                                 is |-> v.is \cup {p}, slot |-> v.slot]
<1>1. OfProgram(v, p) = [id |-> v.id, title |-> v.title, focused |-> v.focused, state |-> v.state,
                         is |-> v.is \cup {p}, slot |-> v.slot]
  BY DEF Window, OfProgram
<1>2. /\ v.is \cup {p} \in SUBSET Programs /\ v.id \in Nat /\ v.title \in Titles /\ v.focused \in BOOLEAN
      /\ v.state \in {"normal", "minimized", "maximized"} /\ v.slot \in [Programs -> 0..MAX_WINDOWS]
  BY WindowTypes
<1>3. OfProgram(v, p) \in Window
  BY <1>1, <1>2 DEF Window, Titles
<1> QED BY <1>1, <1>3

LEMMA SlotField ==
    ASSUME NEW v \in Window, NEW slot \in [Programs -> 0..MAX_WINDOWS]
    PROVE  LET w == [v EXCEPT !.slot = slot] IN
           /\ w \in Window /\ w.id = v.id /\ w.title = v.title /\ w.focused = v.focused /\ w.slot = slot
<1> DEFINE w == [v EXCEPT !.slot = slot]
<1>1. w = [id |-> v.id, title |-> v.title, focused |-> v.focused, state |-> v.state, is |-> v.is, slot |-> slot]
  BY DEF Window
<1> HIDE DEF w
<1>2. w \in Window
  BY <1>1, WindowTypes, WindowMade, ZenonT(60)
<1> QED BY <1>1, <1>2 DEF w

\* What a launch that finds a state changes.
LEMMA WithStateFields ==
    ASSUME NEW g \in GuiStates, NEW p \in Programs, NEW i \in 1..g.count, NEW s \in Index, Len(g.bar) < MAX_WINDOWS
    PROVE  LET h == WithState(g, p, i, s) IN
           /\ h \in GuiStates /\ h.count = g.count /\ h.next_id = g.next_id /\ h.drag = g.drag
           /\ h.bar = Append(g.bar, g.windows[i].id) /\ h.used = [g.used EXCEPT ![p] = @ \cup {s}]
           /\ \A j \in 1..g.count : /\ h.windows[j].id = g.windows[j].id /\ h.windows[j].title = g.windows[j].title
                                    /\ h.windows[j].focused = g.windows[j].focused
           /\ \A j \in 1..g.count : j # i => h.windows[j].slot = g.windows[j].slot
           /\ h.windows[i].slot[p] = s
<1> DEFINE v == g.windows[i]
           slot == [v.slot EXCEPT ![p] = s]
           w == [OfProgram(v, p) EXCEPT !.slot[p] = s]
           ws == [g.windows EXCEPT ![i] = w]
           used == [g.used EXCEPT ![p] = @ \cup {s}]
           bar == Append(g.bar, v.id)
           h == WithState(g, p, i, s)
<1>1. /\ g.windows \in [Index -> Window] /\ i \in Index /\ 1..g.count \subseteq Index /\ MAX_WINDOWS \in Nat
      /\ v \in Window /\ g.used \in [Programs -> SUBSET Index] /\ g.bar \in Seq(Nat) /\ v.id \in Nat
  BY StateTypes, WindowTypes, GuiAssumption DEF Index
<1>2. slot \in [Programs -> 0..MAX_WINDOWS] /\ slot[p] = s
  BY <1>1, WindowTypes DEF Index
<1>3. w \in Window /\ w.id = v.id /\ w.title = v.title /\ w.focused = v.focused /\ w.slot = slot
  <2>1. /\ OfProgram(v, p) \in Window
        /\ OfProgram(v, p) = [id |-> v.id, title |-> v.title, focused |-> v.focused, state |-> v.state,
                              is |-> v.is \cup {p}, slot |-> v.slot]
    BY <1>1, ProgramFields
  <2>2. w = [OfProgram(v, p) EXCEPT !.slot = slot]
    BY <2>1
  <2> HIDE DEF slot, w, v
  <2>3. OfProgram(v, p).id = v.id /\ OfProgram(v, p).title = v.title /\ OfProgram(v, p).focused = v.focused
    BY <2>1
  <2> QED BY <1>2, <2>1, <2>2, <2>3, SlotField
<1>5. h = [g EXCEPT !.windows = ws, !.used = used, !.bar = bar]
  BY DEF WithState
<1>6. used \in [Programs -> SUBSET Index]
  BY <1>1
<1>7. bar \in Seq(Nat)
  <2>1. g.bar \in Seq(Nat) /\ v.id \in Nat
    BY <1>1
  <2> QED BY <2>1
<1> HIDE DEF w
<1>8. ws \in [Index -> Window] /\ ws[i] = w /\ \A j \in 1..g.count : j # i => ws[j] = g.windows[j]
  BY <1>1, <1>3
<1> HIDE DEF ws, used, bar, h
<1>9. h = [windows |-> ws, count |-> g.count, bar |-> bar, focused_id |-> g.focused_id, next_id |-> g.next_id,
           used |-> used, drag |-> g.drag]
  BY <1>5 DEF GuiStates
<1>10. h \in GuiStates
  BY <1>6, <1>7, <1>8, <1>9, StateTypes DEF GuiStates
<1> HIDE DEF slot, v
<1>12. \A j \in 1..g.count : /\ ws[j].id = g.windows[j].id /\ ws[j].title = g.windows[j].title
                             /\ ws[j].focused = g.windows[j].focused
  BY <1>3, <1>8 DEF v
<1>13. \A j \in 1..g.count : j # i => ws[j].slot = g.windows[j].slot
  BY <1>8
<1>14. ws[i].slot[p] = s
  BY <1>2, <1>3, <1>8
<1> QED BY <1>9, <1>10, <1>12, <1>13, <1>14 DEF h, used, bar, v

\* Launching a program keeps all in agreement, whether there is room for a window and a state for
\* it or not (launch_terminal_new, launch_text_editor_new, launch_file_manager_new).
LEMMA LaunchedSound ==
    ASSUME NEW g, NEW old, Sound(g, old), NEW p \in Programs, NEW l \in Launched(g, p)
    PROVE  Sound(l, old) /\ l.drag = g.drag
<1>1. g \in GuiStates /\ AgreeParts(g, ProgramWindows(g)) /\ p \in Titles
  BY AgreeTypes DEF Sound, Titles
<1>2. CASE g.count >= MAX_WINDOWS
  BY <1>2 DEF Launched
<1>3. CASE ~(g.count >= MAX_WINDOWS)
  <2> DEFINE h == Created(g, p)
             i == g.count + 1
             listed == ProgramWindows(g)
  <2>1. g.count < MAX_WINDOWS /\ g.count \in Nat
    BY <1>1, <1>3 DEF AgreeParts
  <2>2. listed \in SUBSET (1..g.count) /\ i \notin listed
    BY <2>1 DEF ProgramWindows
  <2>3. Agrees(h, listed)
    BY <2>1, <2>2, <1>1, CreatedAgrees DEF Sound
  <2>4. /\ ProgramWindows(h) = listed \cup {i} /\ HeldBut(h, old)
        /\ \A j \in 1..g.count : h.windows[j].slot = g.windows[j].slot
    BY <2>1, <1>1, CreatedRest DEF Sound
  <2>5. h.count = i /\ h.drag = g.drag /\ h.used = g.used /\ h.bar = g.bar
    BY <2>1, <1>1, CreatedFields
  <2>6. h \in GuiStates /\ AgreeParts(h, listed)
    BY <2>3, AgreeTypes
  <2>7. i \in 1..h.count /\ h.windows[i] \in Window /\ 1..h.count = 1..g.count \cup {i}
    BY <2>1, <2>5, <2>6 DEF AgreeParts
  <2> HIDE DEF h
  <2>8. CASE FreeSlots(h, p) = {}
    <3> DEFINE w == OfProgram(h.windows[i], p)
               k == [h EXCEPT !.windows = [h.windows EXCEPT ![i] = w]]
    <3>1. l \in Destroyed(k, i)
      BY <1>3, <2>5, <2>8 DEF Launched, h
    <3>2. /\ w \in Window /\ w.id = h.windows[i].id /\ w.title = h.windows[i].title
          /\ w.slot = h.windows[i].slot /\ w.focused = h.windows[i].focused
      <4> DEFINE v == h.windows[i]
      <4>1. w = [id |-> v.id, title |-> v.title, focused |-> v.focused, state |-> v.state, is |-> v.is \cup {p},
                 slot |-> v.slot]
        BY <2>7, ProgramFields
      <4>2. w \in Window
        BY <2>7, ProgramFields
      <4> HIDE DEF w
      <4> QED BY <4>1, <4>2
    <3> HIDE DEF w
    <3>3. Alike(h, k) /\ k.drag = h.drag
      BY <2>6, <2>7, <3>2, WindowChanged
    <3> HIDE DEF k
    <3>4. ProgramWindows(k) = listed \cup {i} /\ HeldBut(k, old) /\ k.count = i /\ k \in GuiStates
      BY <2>4, <2>5, <3>3, AlikeAgrees DEF Alike
    <3>5. Agrees(k, listed)
      <4>1. listed \in SUBSET (1..h.count)
        BY <2>2, <2>7
      <4> QED BY <2>3, <3>3, <4>1, AlikeAgrees
    <3>6. listed \ {i} = ProgramWindows(k) \ {i} /\ i \in 1..k.count
      BY <2>5, <2>7, <3>4
    <3>7. Agrees(l, ProgramWindows(l)) /\ HeldBut(l, old)
      BY <3>1, <3>4, <3>5, <3>6, DestroyedAgrees
    <3>8. l.drag = k.drag
      BY <3>1, <3>4, <3>6, DestroyedFields
    <3> QED BY <2>5, <3>3, <3>7, <3>8 DEF Sound
  <2>9. CASE FreeSlots(h, p) # {}
    <3>1. PICK s \in Index : l = WithState(h, p, i, s)
      BY <1>3, <2>5, <2>9 DEF Launched, FirstOf, FreeSlots, h
    <3>2. Len(h.bar) < MAX_WINDOWS
      <4>1. Len(g.bar) <= g.count /\ Len(g.bar) \in Nat
        BY <2>2, <1>1, BarFits DEF Sound, AgreeParts
      <4> QED BY <1>1, <2>1, <2>5, <4>1 DEF AgreeParts
    <3>3. /\ l \in GuiStates /\ l.count = h.count /\ l.next_id = h.next_id /\ l.drag = h.drag
          /\ l.bar = Append(h.bar, h.windows[i].id) /\ l.used = [h.used EXCEPT ![p] = @ \cup {s}]
          /\ \A j \in 1..h.count : /\ l.windows[j].id = h.windows[j].id /\ l.windows[j].title = h.windows[j].title
                                   /\ l.windows[j].focused = h.windows[j].focused
          /\ \A j \in 1..h.count : j # i => l.windows[j].slot = h.windows[j].slot
          /\ l.windows[i].slot[p] = s
      BY <2>6, <2>7, <3>1, <3>2, WithStateFields
    <3>4. IdsDistinct(l)
      BY <2>3, <3>3 DEF Agrees, IdsDistinct
    <3>5. OneFocus(l)
      <4>1. FocusedWindows(l) \subseteq FocusedWindows(h)
        BY <3>3 DEF FocusedWindows
      <4> QED BY <2>3, <4>1 DEF Agrees, OneFocus
    <3>6. ProgramWindows(l) = listed \cup {i}
      <4>1. ProgramWindows(l) = ProgramWindows(h)
        BY <3>3 DEF ProgramWindows
      <4> QED BY <2>4, <4>1
    <3>7. ButtonsFor(l, ProgramWindows(l))
      <4> DEFINE id == h.windows[i].id
      <4>1. /\ h.bar \in Seq(Nat) /\ IsInjective(h.bar) /\ Range(h.bar) = {h.windows[j].id : j \in listed}
        BY <2>3, <2>6 DEF Agrees, ButtonsFor, AgreeParts
      <4>2. id \in Nat
        BY <2>7, WindowTypes
      <4>3. id \notin Range(h.bar)
        <5>1. ASSUME NEW j \in listed PROVE h.windows[j].id # id
          <6>1. j \in 1..h.count /\ j # i
            BY <2>2, <2>7
          <6> QED BY <2>3, <2>7, <6>1 DEF Agrees, IdsDistinct
        <5> QED BY <4>1, <5>1
      <4> HIDE DEF id
      <4>4. l.bar = Append(h.bar, id)
        BY <3>3 DEF id
      <4>5. /\ DOMAIN l.bar = 1..Len(h.bar) + 1 /\ DOMAIN h.bar = 1..Len(h.bar) /\ Len(h.bar) \in Nat
            /\ \A b \in 1..Len(h.bar) : l.bar[b] = h.bar[b]
            /\ l.bar[Len(h.bar) + 1] = id
        <5>1. h.bar \in Seq(Nat)
          BY <4>1
        <5> QED BY <4>2, <4>4, <5>1
      <4>6. DOMAIN l.bar = DOMAIN h.bar \cup {Len(h.bar) + 1}
        BY <4>5
      <4>7. Range(l.bar) = Range(h.bar) \cup {id}
        BY <4>5, <4>6 DEF Range
      <4>8. IsInjective(l.bar)
        <5> SUFFICES ASSUME NEW b \in DOMAIN l.bar, NEW c \in DOMAIN l.bar, l.bar[b] = l.bar[c] PROVE b = c
          BY DEF IsInjective
        <5>1. \A e \in DOMAIN h.bar : l.bar[e] = h.bar[e] /\ h.bar[e] # id
          BY <4>3, <4>5 DEF Range
        <5>2. CASE b \in DOMAIN h.bar /\ c \in DOMAIN h.bar
          BY <4>1, <5>1, <5>2 DEF IsInjective
        <5> QED BY <4>5, <4>6, <5>1, <5>2
      <4>9. {l.windows[j].id : j \in listed \cup {i}} = {h.windows[j].id : j \in listed} \cup {id}
        <5>1. listed \cup {i} \subseteq 1..h.count
          BY <2>2, <2>7
        <5>2. \A j \in listed \cup {i} : l.windows[j].id = h.windows[j].id
          BY <3>3, <5>1
        <5> QED BY <5>2 DEF id
      <4> QED BY <3>6, <4>1, <4>7, <4>8, <4>9 DEF ButtonsFor
    <3>8. \A j \in 1..l.count : l.windows[j].id < l.next_id
      BY <2>3, <3>3 DEF Agrees
    <3>9. HeldBut(l, old)
      <4> SUFFICES ASSUME NEW q \in Programs, NEW t \in l.used[q] \ old[q]
                   PROVE  \E j \in 1..l.count : l.windows[j].slot[q] = t
        BY DEF HeldBut
      <4>1. CASE q = p /\ t = s
        BY <2>7, <3>3, <4>1
      <4>2. CASE t \in g.used[q]
        <5>1. PICK j \in 1..g.count : g.windows[j].slot[q] = t
          BY <4>2 DEF Sound, HeldBut
        <5>2. j \in 1..h.count /\ j # i
          BY <2>1, <2>7, <5>1
        <5> QED BY <2>4, <3>3, <5>1, <5>2
      <4>3. g.used \in [Programs -> SUBSET Index]
        BY <1>1, StateTypes
      <4> QED BY <2>5, <3>3, <4>1, <4>2, <4>3
    <3> QED BY <2>5, <3>3, <3>4, <3>5, <3>7, <3>8, <3>9 DEF Sound, Agrees
  <2> QED BY <2>8, <2>9
<1> QED BY <1>2, <1>3

----------------------------------------------------------------------------
(* Clicks and keys                                                          *)

\* A window without a program's state: a dialog or the start menu (gui_create_window).
LEMMA CreatedSound ==
    ASSUME NEW g, NEW old, Sound(g, old), NEW title \in Dialogs \cup {NoTitle}
    PROVE  Sound(Created(g, title), old) /\ Created(g, title).drag = g.drag
<1>1. g \in GuiStates /\ AgreeParts(g, ProgramWindows(g)) /\ title \in Titles /\ title \notin Programs
  BY AgreeTypes, GuiAssumption DEF Sound, Titles
<1>2. CASE g.count >= MAX_WINDOWS
  BY <1>2 DEF Created
<1>3. CASE ~(g.count >= MAX_WINDOWS)
  <2>1. g.count < MAX_WINDOWS
    BY <1>1, <1>3 DEF AgreeParts
  <2>2. ProgramWindows(g) \in SUBSET (1..g.count)
    BY DEF ProgramWindows
  <2>3. Agrees(Created(g, title), ProgramWindows(g))
    BY <1>1, <2>1, <2>2, CreatedAgrees DEF Sound
  <2>4. ProgramWindows(Created(g, title)) = ProgramWindows(g) /\ HeldBut(Created(g, title), old)
    BY <1>1, <2>1, CreatedRest DEF Sound
  <2>5. Created(g, title).drag = g.drag
    BY <1>1, <2>1, CreatedFields
  <2> QED BY <2>3, <2>4, <2>5 DEF Sound
<1> QED BY <1>2, <1>3

LEMMA DestroyedSound ==
    ASSUME NEW g, NEW old, Sound(g, old), NEW i \in 1..g.count, NEW d \in Destroyed(g, i)
    PROVE  Sound(d, old) /\ d.drag = g.drag
<1>1. Agrees(g, ProgramWindows(g)) /\ HeldBut(g, old) /\ g \in GuiStates
  BY AgreeTypes DEF Sound
<1>2. Agrees(d, ProgramWindows(d)) /\ HeldBut(d, old)
  BY <1>1, DestroyedAgrees
<1>3. d.drag = g.drag
  BY <1>1, DestroyedFields
<1> QED BY <1>2, <1>3 DEF Sound

\* The drag's pointer, in a state in which nothing is dragged, and after operations that keep it.
LEMMA DragKept ==
    ASSUME NEW g, g.drag.mode = "none", NEW h, h.drag = g.drag
    PROVE  DragPoints(h)
BY DEF DragPoints

\* A click, wherever it lands, leaves windows, task bar and states in agreement, and a drag, if
\* it begins one, points to an open window (gui_handle_mouse_click, on_start_button_click).
LEMMA ClickSound ==
    ASSUME NEW g, NEW old, Sound(g, old), NEW c \in gui_handle_mouse_click(g)
    PROVE  Sound(c, old) /\ DragPoints(c)
<1> DEFINE u == Undragged(g)
<1>1. g \in GuiStates /\ MAX_WINDOWS \in Nat
  BY AgreeTypes, GuiAssumption DEF Sound
<1>2. Alike(g, u) /\ u.drag = [mode |-> "none", at |-> 0]
  BY <1>1, DraggedAlike DEF Undragged
<1>3. Sound(u, old) /\ u.drag.mode = "none"
  BY <1>2, AlikeAgrees
<1>4. \/ \E b \in TaskbarHit(u) : c = Minimized(u, b)
      \/ \E i \in Hit(u) : c \in ClickOn(u, i)
      \/ c \in StartButton(u) \/ c = u
  <2>1. c \in {Minimized(u, b) : b \in TaskbarHit(u)} \cup (UNION {ClickOn(u, i) : i \in Hit(u)})
               \cup StartButton(u) \cup {u}
    BY DEF gui_handle_mouse_click
  <2> HIDE DEF u
  <2>2. \/ c \in {Minimized(u, b) : b \in TaskbarHit(u)}
        \/ c \in UNION {ClickOn(u, i) : i \in Hit(u)}
        \/ c \in StartButton(u) \/ c = u
    BY <2>1, Zenon
  <2>3. ASSUME c \in UNION {ClickOn(u, i) : i \in Hit(u)}
        PROVE  \E i \in Hit(u) : c \in ClickOn(u, i)
    BY <2>3, Zenon
  <2>4. ASSUME c \in {Minimized(u, b) : b \in TaskbarHit(u)}
        PROVE  \E b \in TaskbarHit(u) : c = Minimized(u, b)
    BY <2>4, Zenon
  <2> QED BY <2>2, <2>3, <2>4, Zenon
<1> HIDE DEF u
<1>5. u \in GuiStates /\ AgreeParts(u, ProgramWindows(u)) /\ Agrees(u, ProgramWindows(u))
  BY <1>3, AgreeTypes DEF Sound
<1>6. ASSUME NEW b \in TaskbarHit(u), c = Minimized(u, b) PROVE Sound(c, old) /\ DragPoints(c)
  <2>1. b \in 1..u.count
    <3>1. ProgramWindows(u) \in SUBSET (1..u.count)
      BY DEF ProgramWindows
    <3>2. Len(u.bar) <= u.count /\ Len(u.bar) \in Nat /\ u.count \in Nat
      BY <1>5, <3>1, BarFits DEF AgreeParts
    <3> QED BY <3>2 DEF TaskbarHit
  <2>2. Alike(u, c) /\ c.drag = u.drag
    BY <1>5, <1>6, <2>1, ToggledAlike
  <2> QED BY <1>3, <2>2, AlikeAgrees, DragKept
<1>7. ASSUME NEW i \in Hit(u), c \in ClickOn(u, i) PROVE Sound(c, old) /\ DragPoints(c)
  <2> DEFINE h == Focused(u, i)
  <2>1. i \in 1..u.count /\ i \in 0..MAX_WINDOWS
    BY <1>1, <1>5 DEF Hit, AgreeParts
  <2>2. Sound(h, old) /\ h.count = u.count /\ h.drag = u.drag
    BY <1>3, <2>1, FocusedSound
  <2>3. h.drag.mode = "none" /\ i \in 1..h.count
    BY <1>3, <2>1, <2>2
  <2>4. \/ c = h
        \/ \E d \in Dialogs : c = Created(h, d)
        \/ \E p \in Programs : c \in Launched(h, p)
        \/ c \in Destroyed(h, i)
        \/ c = Minimized(h, i) \/ c = Maximized(h, i)
        \/ c = Dragged(IF h.windows[i].state = "maximized" THEN Maximized(h, i) ELSE h, "drag", i)
        \/ c = Dragged(h, "resize", i)
    BY <1>7 DEF ClickOn
  <2> HIDE DEF h
  <2>5. h \in GuiStates
    BY <2>2, AgreeTypes DEF Sound
  <2>6. CASE c = h
    BY <2>2, <2>3, <2>6, DragKept
  <2>7. CASE \E d \in Dialogs : c = Created(h, d)
    BY <2>2, <2>3, <2>7, CreatedSound, DragKept
  <2>8. CASE \E p \in Programs : c \in Launched(h, p)
    BY <2>2, <2>3, <2>8, LaunchedSound, DragKept
  <2>9. CASE c \in Destroyed(h, i)
    BY <2>2, <2>3, <2>9, DestroyedSound, DragKept
  <2>10. CASE c = Minimized(h, i) \/ c = Maximized(h, i)
    <3>1. Alike(h, c) /\ c.drag = h.drag
      BY <2>3, <2>5, <2>10, ToggledAlike
    <3> QED BY <2>2, <2>3, <3>1, AlikeAgrees, DragKept
  <2>11. ASSUME NEW k, Sound(k, old), k.count = h.count, NEW mode \in {"drag", "resize"}, c = Dragged(k, mode, i)
         PROVE  Sound(c, old) /\ DragPoints(c)
    <3>1. k \in GuiStates
      BY <2>11, AgreeTypes DEF Sound
    <3>2. Alike(k, c) /\ c.drag = [mode |-> mode, at |-> i]
      BY <2>1, <2>11, <3>1, DraggedAlike
    <3>3. c.drag.at = i /\ c.count = h.count
      BY <2>11, <3>2 DEF Alike
    <3> QED BY <2>3, <2>11, <3>2, <3>3, AlikeAgrees DEF DragPoints
  <2>12. CASE c = Dragged(IF h.windows[i].state = "maximized" THEN Maximized(h, i) ELSE h, "drag", i)
    <3> DEFINE k == IF h.windows[i].state = "maximized" THEN Maximized(h, i) ELSE h
    <3>1. Alike(h, Maximized(h, i))
      BY <2>3, <2>5, ToggledAlike
    <3>2. Sound(Maximized(h, i), old) /\ Maximized(h, i).count = h.count
      BY <2>2, <3>1, AlikeAgrees DEF Alike
    <3>3. Sound(k, old) /\ k.count = h.count
      BY <2>2, <3>2
    <3> HIDE DEF k
    <3>4. c = Dragged(k, "drag", i)
      BY <2>12 DEF k
    <3> QED BY <2>11, <3>3, <3>4
  <2>13. CASE c = Dragged(h, "resize", i)
    BY <2>2, <2>11, <2>13
  <2> QED BY <2>4, <2>6, <2>7, <2>8, <2>9, <2>10, <2>12, <2>13
<1>8. ASSUME c \in StartButton(u) PROVE Sound(c, old) /\ DragPoints(c)
  <2>1. \/ \E i \in 1..u.count : c \in Destroyed(u, i)
        \/ c = Created(u, NoTitle)
    BY <1>8 DEF StartButton, FirstOf
  <2>2. CASE \E i \in 1..u.count : c \in Destroyed(u, i)
    BY <1>3, <2>2, DestroyedSound, DragKept
  <2>3. CASE c = Created(u, NoTitle)
    BY <1>3, <2>3, CreatedSound, DragKept
  <2> QED BY <2>1, <2>2, <2>3
<1>9. CASE c = u
  BY <1>3, <1>9, DragKept
<1> QED BY <1>4, <1>6, <1>7, <1>8, <1>9

\* A key may focus a terminal and changes nothing else of the windows (gui_handle_key).
LEMMA KeySound ==
    ASSUME NEW g, NEW old, Sound(g, old), NEW k \in KeyTo(g)
    PROVE  Sound(k.next, old) /\ k.next.count = g.count /\ k.next.drag = g.drag
<1>1. k.next = g \/ \E t \in 1..g.count : k.next = Focused(g, t)
  <2> DEFINE terminal == \E f \in FirstOf(FocusedWindows(g)) : Takes(g.windows[f], "Terminal")
             editor == \E f \in FirstOf(FocusedWindows(g)) : "Text Editor" \in Programs /\ Takes(g.windows[f], "Text Editor")
  <2>1. CASE terminal \/ editor \/ Terminals(g) = {}
    <3>1. k = [next |-> g, terminal |-> terminal]
      BY <2>1 DEF KeyTo
    <3> HIDE DEF terminal
    <3> QED BY <3>1
  <2>2. CASE ~(terminal \/ editor \/ Terminals(g) = {})
    <3>1. PICK t \in FirstOf(Terminals(g)) :
            k = [next |-> Focused(g, t), terminal |-> Focused(g, t).windows[t].slot["Terminal"] # 0]
      BY <2>2 DEF KeyTo
    <3>2. t \in 1..g.count
      BY DEF FirstOf, Terminals
    <3>3. k.next = Focused(g, t)
      BY <3>1
    <3> QED BY <3>2, <3>3
  <2> QED BY <2>1, <2>2
<1> QED BY <1>1, FocusedSound

----------------------------------------------------------------------------
(* The steps                                                                *)

\* Before the first session nothing is open (the initial values of gui.c).
LEMMA GuiInitInv == GuiInit => GuiInv
<1> SUFFICES ASSUME GuiInit PROVE GuiInv
  OBVIOUS
<1>1. MAX_WINDOWS \in Nat
  BY GuiAssumption
<1>2. Empty \in Window
  BY <1>1 DEF Empty, Window
<1>3. gui = [windows |-> [i \in Index |-> Empty], count |-> 0, bar |-> <<>>, focused_id |-> 0,
             next_id |-> 0, used |-> [p \in Programs |-> {}], drag |-> [mode |-> "none", at |-> 0]]
  BY DEF GuiInit
<1>4. [mode |-> "none", at |-> 0] \in [mode : {"none", "drag", "resize"}, at : 0..MAX_WINDOWS]
  BY <1>1
<1>5. [i \in Index |-> Empty] \in [Index -> Window] /\ [p \in Programs |-> {}] \in [Programs -> SUBSET Index]
  BY <1>2
<1>6. gui \in GuiStates
  BY <1>1, <1>3, <1>4, <1>5 DEF GuiStates
<1>7. gui.count = 0 /\ gui.bar = <<>> /\ \A p \in Programs : gui.used[p] = {}
  BY <1>3
<1>8. 1..gui.count = {}
  BY <1>7
<1>9. IdsDistinct(gui) /\ OneFocus(gui) /\ \A i \in 1..gui.count : gui.windows[i].id < gui.next_id
  BY <1>8 DEF IdsDistinct, OneFocus, FocusedWindows
<1>10. ButtonsFor(gui, ProgramWindows(gui))
  <2>1. ProgramWindows(gui) = {} /\ DOMAIN gui.bar = {}
    BY <1>7, <1>8 DEF ProgramWindows
  <2> QED BY <2>1 DEF ButtonsFor, IsInjective, Range
<1>11. HeldBut(gui, lost)
  BY <1>7 DEF HeldBut
<1> QED BY <1>6, <1>9, <1>10, <1>11 DEF GuiInv, Agrees

\* A new session forgets windows and buttons; what the pools still have in use is lost to it (gui_init).
LEMMA InitStep == GuiInv /\ gui_init => GuiInv'
<1> SUFFICES ASSUME GuiInv, gui_init PROVE GuiInv'
  OBVIOUS
<1> DEFINE drag == [gui.drag EXCEPT !.mode = IF @ = "drag" THEN "none" ELSE @]
<1>1. gui \in GuiStates
  BY AgreeTypes DEF GuiInv
<1>2. drag \in [mode : {"none", "drag", "resize"}, at : 0..MAX_WINDOWS]
  <2>1. gui.drag \in [mode : {"none", "drag", "resize"}, at : 0..MAX_WINDOWS]
    BY <1>1, StateTypes
  <2> QED BY <2>1
<1>3. gui' = [gui EXCEPT !.count = 0, !.bar = <<>>, !.focused_id = 0, !.next_id = 1, !.drag = drag]
  BY DEF gui_init
<1> HIDE DEF drag
<1>4. gui' = [windows |-> gui.windows, count |-> 0, bar |-> <<>>, focused_id |-> 0, next_id |-> 1,
              used |-> gui.used, drag |-> drag]
  BY <1>1, <1>3 DEF GuiStates
<1>5. gui' \in GuiStates
  BY <1>1, <1>2, <1>4, StateTypes, GuiAssumption DEF GuiStates
<1>6. gui'.count = 0 /\ gui'.bar = <<>> /\ gui'.used = gui.used /\ lost' = gui.used
  BY <1>4 DEF gui_init
<1>7. 1..gui'.count = {}
  BY <1>6
<1>8. IdsDistinct(gui') /\ OneFocus(gui') /\ \A i \in 1..gui'.count : gui'.windows[i].id < gui'.next_id
  BY <1>7 DEF IdsDistinct, OneFocus, FocusedWindows
<1>9. ButtonsFor(gui', ProgramWindows(gui'))
  <2>1. ProgramWindows(gui') = {} /\ DOMAIN gui'.bar = {}
    BY <1>6, <1>7 DEF ProgramWindows
  <2> QED BY <2>1 DEF ButtonsFor, IsInjective, Range
<1>10. HeldBut(gui', lost')
  BY <1>6 DEF HeldBut
<1> QED BY <1>5, <1>8, <1>9, <1>10 DEF GuiInv, Agrees

\* An event that leaves a sound state behind preserves the invariant.
LEMMA EventStep ==
    ASSUME NEW g, NEW content, Sound(g, lost), Event(g, content)
    PROVE  GuiInv'
<1>1. gui' = g /\ lost' = [p \in Programs |-> lost[p] \cap g.used[p]]
  BY DEF Event
<1>2. HeldBut(g, lost')
  <2> SUFFICES ASSUME NEW p \in Programs, NEW s \in g.used[p] \ lost'[p]
               PROVE  \E i \in 1..g.count : g.windows[i].slot[p] = s
    BY DEF HeldBut
  <2>1. s \in g.used[p] \ lost[p]
    BY <1>1
  <2> QED BY <2>1 DEF Sound, HeldBut
<1> QED BY <1>1, <1>2 DEF Sound, GuiInv

\* What a release does to the drag.
LEMMA ReleaseSound ==
    ASSUME NEW g, NEW old, Sound(g, old)
    PROVE  LET h == gui_handle_mouse_release(g) IN Sound(h, old) /\ (DragPoints(g) => DragPoints(h))
<1>1. g \in GuiStates /\ MAX_WINDOWS \in Nat
  BY AgreeTypes, GuiAssumption DEF Sound
<1>2. Alike(g, Undragged(g)) /\ Undragged(g).drag = [mode |-> "none", at |-> 0]
  BY <1>1, DraggedAlike DEF Undragged
<1>3. Sound(Undragged(g), old) /\ DragPoints(Undragged(g))
  BY <1>2, AlikeAgrees DEF DragPoints
<1> QED BY <1>3 DEF gui_handle_mouse_release

\* What the handling of an event does to the windows preserves the invariant, and leaves a drag that
\* points to an open window pointing to one (gui_mouse_event_handler, gui_handle_key).
LEMMA HandleStep ==
    ASSUME GuiInv, NEW e, Handle(e)
    PROVE  GuiInv' /\ (DragPoints(gui) => DragPoints(gui'))
<1>1. Sound(gui, lost)
  BY DEF GuiInv, Sound
<1>2. CASE Press
  <2>1. PICK g \in gui_handle_mouse_click(gui) : Event(g, g.drag.mode = "resize")
    BY <1>2 DEF Press
  <2>2. Sound(g, lost) /\ DragPoints(g)
    BY <1>1, ClickSound
  <2>3. GuiInv' /\ gui' = g
    <3>1. gui' = g
      BY <2>1 DEF Event
    <3>2. GuiInv'
      BY <2>1, <2>2, EventStep
    <3> QED BY <3>1, <3>2
  <2> QED BY <2>2, <2>3
<1>3. CASE Release
  <2> DEFINE g == gui_handle_mouse_release(gui)
  <2>1. Event(g, FALSE)
    BY <1>3 DEF Release
  <2>2. Sound(g, lost) /\ (DragPoints(gui) => DragPoints(g))
    BY <1>1, ReleaseSound
  <2> HIDE DEF g
  <2>3. GuiInv'
    BY <2>1, <2>2, EventStep
  <2>4. gui' = g
    BY <2>1 DEF Event
  <2> QED BY <2>2, <2>3, <2>4
<1>4. CASE Move(e = "move down")
  <2>1. PICK content : Event(gui, content)
    BY <1>4 DEF Move
  <2>2. GuiInv' /\ gui' = gui
    BY <1>1, <2>1, EventStep DEF Event
  <2> QED BY <2>2
<1>5. CASE gui_handle_key
  <2>1. PICK k \in KeyTo(gui) : Event(k.next, TRUE)
    BY <1>5 DEF gui_handle_key
  <2>2. Sound(k.next, lost) /\ k.next.count = gui.count /\ k.next.drag = gui.drag
    BY <1>1, KeySound
  <2>3. GuiInv'
    BY <2>1, <2>2, EventStep
  <2>4. gui' = k.next
    BY <2>1 DEF Event
  <2> QED BY <2>2, <2>3, <2>4 DEF DragPoints
<1> QED BY <1>2, <1>3, <1>4, <1>5 DEF Handle

\* Every step preserves the invariant, and a step of a running GUI leaves a drag that points to an
\* open window pointing to one.
LEMMA GuiStep ==
    ASSUME GuiInv, [GuiNext]_guiVars
    PROVE  GuiInv' /\ (running /\ DragPoints(gui) => DragPoints(gui'))
<1>1. CASE gui_init
  BY <1>1, InitStep DEF gui_init
<1>2. ASSUME UNCHANGED <<gui, lost>> PROVE GuiInv' /\ (running /\ DragPoints(gui) => DragPoints(gui'))
  BY <1>2 DEF GuiInv
<1>3. CASE EventBegins \/ EventReturns \/ InterruptInside \/ gui_run \/ Unknown \/ UNCHANGED guiVars
  BY <1>2, <1>3 DEF EventBegins, EventReturns, InterruptInside, gui_run, Unknown, guiVars
<1>4. CASE Interrupt
  BY <1>4, HandleStep DEF Interrupt
<1>5. CASE EventWorks
  BY <1>5, HandleStep DEF EventWorks
<1> QED BY <1>1, <1>3, <1>4, <1>5 DEF GuiNext, MainLoop

----------------------------------------------------------------------------
\* Windows, task bar and program states agree in every reachable state (gui.c), for any number of
\* windows and any programs and dialogs, until an interrupt enters a handler inside another.
THEOREM WindowsCorrect == GuiSpec => []WindowsAgree
<1>1. GuiInit => GuiInv
  BY GuiInitInv
<1>2. GuiInv /\ [GuiNext]_guiVars => GuiInv'
  BY GuiStep
<1>3. GuiInv => WindowsAgree
  BY DEF GuiInv, Agrees, WindowsAgree, WindowsConsistent, StatesHeld
<1> QED BY <1>1, <1>2, <1>3, PTL DEF GuiSpec

\* A drag that points to an open window goes on doing so while the GUI runs and no interrupt
\* has entered a handler inside another (drag_state in gui.c).
THEOREM DragCorrect == GuiSpec => DragInside
<1>1. GuiInit => GuiInv
  BY GuiInitInv
<1>2. GuiInv /\ [GuiNext]_guiVars => GuiInv' /\ [~raced /\ running /\ DragPoints(gui) => DragPoints(gui')]_guiVars
  BY GuiStep
<1> QED BY <1>1, <1>2, PTL DEF GuiSpec, DragInside
=============================================================================
