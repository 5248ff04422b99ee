---------------------------- MODULE EngineEditor ----------------------------
(***************************************************************************)
(* The editor of the engines in the web client: EditTree.java, on a grid   *)
(* of Ext JS whose cells are edited in place (EditorGridPanel, Editor,     *)
(* RowSelectionModel, Store in ext-all-debug.js).                          *)
(*                                                                         *)
(* A click on a cell does not open an editor: it asks for one 50 ms later, *)
(* for the record of the click, over the cell that is then in the row of   *)
(* the click. A column has one editor for all of its rows. When the mouse  *)
(* is pressed anywhere, the field of an open editor loses the focus and    *)
(* its edit is completed; a click is taken to last longer than the 10 ms   *)
(* after which the combo box of the categories learns of it.               *)
(*                                                                         *)
(* Names, categories and versions are numbers, 0 for the empty text.  The  *)
(* columns of the file and of the version are edited as the names are and  *)
(* are left out.                                                           *)
(***************************************************************************)
EXTENDS Integers, Sequences, SequencesExt, FiniteSets

CONSTANTS Lists,      \* what show_available_engines may list
          Names,      \* the names that may be typed
          MaxPending, \* bound: the editors asked for and not yet open
          NewEngine,  \* the name of a new engine
          MaxRows     \* bound: no engine is added to as many rows

Cols == {"name", "categ"} \* the columns with an editor
None == "none"

Engine == [select : BOOLEAN, categ : Nat, name : Nat, version : Nat]

ASSUME ListsAssumption == Lists \subseteq Seq(Engine)
ASSUME NamesAssumption == Names \subseteq Nat /\ NewEngine \in Nat

VARIABLES
  phase,    \* "loading", "shown", "saving", "stuck" behind a mask, "closed"
  grid,     \* the records, by number, the editor of each column, activeEditor
  items,    \* engineStore: the numbers of its records, in order
  categs,   \* categStore
  sortInfo, \* how the grid is sorted
  pending,  \* the calls of startEditing whose delay is not over
  posted,   \* the engines that were sent
  meant,    \* history: the records as the user sees to have made them, that is with
            \* what was typed over a cell, until Escape or a scroll gives it up
  hurried   \* history: an editor was asked for before another one was open, or rows
            \* moved between the click and its editor

editorVars == <<phase, grid, items, categs, sortInfo, pending, posted, meant, hurried>>
history == <<meant, hurried>>

Closed == [editing |-> FALSE, listening |-> FALSE, row |-> 0, record |-> 0,
           value |-> 0, start |-> 0, shown |-> 0]

EditorInit ==
  /\ phase = "loading"
  /\ grid = [data |-> <<>>, ed |-> [c \in Cols |-> Closed], active |-> None]
  /\ items = <<>> /\ categs = {} /\ posted = {}
  /\ sortInfo = [field |-> "name", direction |-> "ASC"]
  /\ pending = <<>>
  /\ meant = <<>> /\ hurried = FALSE

-----------------------------------------------------------------------------
(* The store. *)

Before(info, recs, i, j) ==
  IF info.direction = "ASC"
  THEN recs[i][info.field] < recs[j][info.field]
  ELSE recs[i][info.field] > recs[j][info.field]

\* applySort: ties stay in the order they were in.
Sorted(info, recs, seq) ==
  LET place(i) == Cardinality({j \in DOMAIN seq :
                    \/ Before(info, recs, seq[j], seq[i])
                    \/ ~Before(info, recs, seq[i], seq[j]) /\ j <= i})
  IN [n \in DOMAIN seq |-> seq[CHOOSE i \in DOMAIN seq : place(i) = n]]

\* Mutant: the name is only looked for in the last row.
LastNamed(recs, seq, name) ==
  {i \in {Len(seq)} \cap DOMAIN seq : recs[seq[i]].name = name}

\* The rows that the inner loop of generateAvailableEngineList stops at.
Named(recs, seq, name) == {i \in DOMAIN seq : recs[seq[i]].name = name}

\* One turn of its outer loop.  The row of the same name, as there is one at most,
\* gives way to a lower version; addSorted.
Listed(acc, engine) ==
  LET same == Named(acc.data, acc.items, engine.name)
      givesWay == {i \in same : acc.data[acc.items[i]].version > engine.version}
      kept == IF givesWay = {} THEN acc.items
              ELSE RemoveAt(acc.items, CHOOSE i \in givesWay : TRUE)
      recs == Append(acc.data, engine)
  IN IF givesWay = same
     THEN [data |-> recs, categs |-> acc.categs \cup {engine.categ},
           items |-> Sorted(sortInfo, recs, Append(kept, Len(recs)))]
     ELSE [acc EXCEPT !.items = kept]

\* The stores after all of its turns.
Stores(list) ==
  LET after[n \in 0 .. Len(list)] ==
        IF n = 0 THEN [data |-> <<>>, items |-> <<>>, categs |-> {}]
        ELSE Listed(after[n - 1], list[n])
  IN after[Len(list)]

generateAvailableEngineList(list) ==
  LET acc == Stores(list)
  IN /\ phase = "loading"
     /\ phase' = "shown"
     /\ grid' = [grid EXCEPT !.data = acc.data]
     /\ items' = acc.items /\ categs' = acc.categs
     /\ meant' = acc.data
     /\ UNCHANGED <<sortInfo, pending, posted, hurried>>

\* The list does not come: an alert, and the mask stays.
LoadFails ==
  /\ phase = "loading"
  /\ phase' = "stuck"
  /\ UNCHANGED <<grid, items, categs, sortInfo, pending, posted, history>>

-----------------------------------------------------------------------------
(* The editors.  These operators take a grid and return one. *)

Open(g) == {c \in Cols : g.ed[c].editing}

\* The editors of S complete: completeEdit, and onEditComplete for the one that
\* listens still.
Completed(g, S) ==
  LET heard == {c \in S \cap Open(g) : g.ed[c].listening}
      changed == {c \in heard : g.ed[c].value # g.ed[c].start}
      cell(r, f) == IF f \in changed /\ r = g.ed[f].record
                    THEN g.ed[f].value ELSE g.data[r][f]
  IN [data |-> [r \in DOMAIN g.data |-> [f \in DOMAIN g.data[r] |-> cell(r, f)]],
      ed |-> [c \in Cols |-> IF c \in S \cap Open(g) THEN Closed ELSE g.ed[c]],
      active |-> IF heard = {} THEN g.active ELSE None]

\* Mutant: an editor that loses the focus stays open.
BlurIgnored(g) == g

\* onBlur, when the mouse is pressed.
Blurred(g) == Completed(g, Open(g))

\* stopEditing()
Stopped(g) == [Completed(g, {g.active} \cap Cols) EXCEPT !.active = None]

\* cancelEdit: the first value again, and then as above.
Cancelled(g, S) ==
  Completed([g EXCEPT !.ed = [c \in Cols |->
               IF c \in S THEN [g.ed[c] EXCEPT !.value = g.ed[c].start] ELSE g.ed[c]]], S)

\* stopEditing(true)
StoppedByCancel(g) == [Cancelled(g, {g.active} \cap Cols) EXCEPT !.active = None]

\* What startEditing has deferred: the editor opens over the cell that is now in the
\* row of the click, for the record that was.  An editor of this column still open
\* is completed now, but for the new record, and its only listener is used up;
\* an open text field of the other column loses the focus.
Started(g, p) ==
  LET c == p.col
      v == g.data[p.record][c]
      told == [g EXCEPT !.ed[c] = [@ EXCEPT !.record = p.record, !.listening = TRUE],
                      !.active = c]
      free == Completed(told, {c})
      opened == [free EXCEPT !.ed[c] =
                   [editing |-> TRUE, listening |-> @.listening, row |-> p.row,
                    record |-> p.record, value |-> v, start |-> v, shown |-> items[p.row]]]
  IN Completed(opened, {"name"} \ {c})

-----------------------------------------------------------------------------
(* The user. *)

\* Another record is now in a row that an editor was asked for.
RowTaken(rows) == \E n \in DOMAIN pending : rows[pending[n].row] # pending[n].record

\* startEditing, behind its stopEditing, for the first of the cells, if there is one.
Ask(cells) ==
  IF cells = {} THEN UNCHANGED <<pending, hurried>>
  ELSE \E cell \in cells :
         /\ Len(pending) < MaxPending
         /\ pending' = Append(pending, [row |-> cell[1], col |-> cell[2],
                                        record |-> items[cell[1]]])
         /\ hurried' = (hurried \/ pending # <<>>)

StartEdit ==
  /\ phase # "closed" /\ pending # <<>>
  /\ pending' = Tail(pending)
  /\ grid' = Started(grid, Head(pending))
  /\ UNCHANGED <<phase, items, categs, sortInfo, posted, history>>

\* A click on a cell with an editor.
ClickCell(row, c) ==
  /\ phase = "shown" /\ row \in DOMAIN items
  /\ grid' = Stopped(Blurred(grid))
  /\ Ask({<<row, c>>})
  /\ UNCHANGED <<phase, items, categs, sortInfo, posted, meant>>

\* A click on a box: onCellClick, and then startEditing, whose column has no editor.
ClickBox(row) ==
  /\ phase = "shown" /\ row \in DOMAIN items
  /\ LET r == items[row]
         g == Blurred(grid)
     IN /\ grid' = Stopped([g EXCEPT !.data[r].select = ~@])
        /\ meant' = [meant EXCEPT ![r].select = ~@]
  /\ UNCHANGED <<phase, items, categs, sortInfo, pending, posted, hurried>>

\* What "All", "None" and "Invert" make of a box.
Selections == {[s \in BOOLEAN |-> TRUE], [s \in BOOLEAN |-> FALSE], [s \in BOOLEAN |-> ~s]}

\* selectAll, selectInvert: every record, and a refresh of the grid.
Select(new) ==
  /\ phase = "shown"
  /\ LET g == Blurred(grid)
         set(recs) == [r \in DOMAIN recs |-> IF r \in Range(items)
                         THEN [recs[r] EXCEPT !.select = new[@]] ELSE recs[r]]
     IN grid' = StoppedByCancel([g EXCEPT !.data = set(g.data)]) /\ meant' = set(meant)
  /\ UNCHANGED <<phase, items, categs, sortInfo, pending, posted, hurried>>

\* onHeaderClick
ClickHeader(field) ==
  /\ phase = "shown"
  /\ grid' = StoppedByCancel(Blurred(grid))
  /\ sortInfo' = [field |-> field,
                  direction |-> IF sortInfo = [field |-> field, direction |-> "ASC"]
                                THEN "DESC" ELSE "ASC"]
  /\ items' = Sorted(sortInfo', grid'.data, items)
  /\ hurried' = (hurried \/ RowTaken(items'))
  /\ UNCHANGED <<phase, categs, pending, posted, meant>>

\* The wheel scrolls the grid without a press: bodyscroll, which gives up the edit
\* as Escape does, before the user's eyes.
Scroll ==
  /\ phase = "shown" /\ grid.active # None
  /\ grid' = StoppedByCancel(grid)
  /\ meant' = [meant EXCEPT ![grid.ed[grid.active].shown][grid.active] =
                               grid.ed[grid.active].start]
  /\ UNCHANGED <<phase, items, categs, sortInfo, pending, posted, hurried>>

\* Mutant: a new engine has no category.
NoCategory == 0

\* The first category in the order of their names, or the empty text.
FirstCategory == IF categs = {} THEN 0 ELSE CHOOSE k \in categs : \A l \in categs : k <= l

\* "Add Engine": a record in front of the others; the first column, which is then
\* to be edited, has no editor.
AddEngine ==
  /\ phase = "shown" /\ Len(items) < MaxRows
  /\ LET new == [select |-> TRUE, categ |-> FirstCategory, name |-> NewEngine,
                 version |-> 1]
         g == Stopped(Blurred(grid))
     IN /\ grid' = [g EXCEPT !.data = Append(@, new)]
        /\ meant' = Append(meant, new)
        /\ items' = <<Len(grid'.data)>> \o items
        /\ hurried' = (hurried \/ RowTaken(items'))
  /\ UNCHANGED <<phase, categs, sortInfo, pending, posted>>

\* Text is typed into a field, or a category is picked.
Type(c, v) ==
  /\ phase = "shown" /\ grid.ed[c].editing /\ grid.ed[c].value # v
  /\ grid' = [grid EXCEPT !.ed[c].value = v]
  /\ meant' = [meant EXCEPT ![grid.ed[c].shown][c] = v]
  /\ UNCHANGED <<phase, items, categs, sortInfo, pending, posted, hurried>>

\* onEditorKey, of the editor that has the focus, for Enter and Tab, with and
\* without Shift: the cell below or above, the next or the one before.
Cells(row, c) ==
  {{<<row + 1, c>>}, {<<row - 1, c>>},
   IF c = "name" THEN {<<row, "categ">>} ELSE {<<row + 1, "name">>},
   IF c = "categ" THEN {<<row, "name">>} ELSE {<<row - 1, "categ">>}}

EnterOrTab ==
  /\ phase = "shown" /\ grid.active # None /\ grid.ed[grid.active].listening
  /\ Open(grid) = {grid.active}
  /\ \E next \in Cells(grid.ed[grid.active].row, grid.active) :
       Ask({cell \in next : cell[1] \in DOMAIN items})
  /\ grid' = Stopped(grid)
  /\ UNCHANGED <<phase, items, categs, sortInfo, posted, meant>>

Escape ==
  /\ phase = "shown" /\ grid.active # None /\ grid.ed[grid.active].listening
  /\ Open(grid) = {grid.active}
  /\ grid' = Cancelled(grid, {grid.active})
  /\ meant' = [meant EXCEPT ![grid.ed[grid.active].shown][grid.active] =
                               grid.ed[grid.active].start]
  /\ UNCHANGED <<phase, items, categs, sortInfo, pending, posted, hurried>>

\* "Save": generateOutput goes through the categories and the selected engines of
\* each, which the records hold; the grid is masked.
generateOutput ==
  /\ phase = "shown"
  /\ phase' = "saving"
  /\ grid' = Blurred(grid)
  /\ LET recs == grid'.data
     IN posted' = {[record |-> r, name |-> recs[r].name, categ |-> recs[r].categ] :
                     r \in {k \in Range(items) : recs[k].select /\ recs[k].categ \in categs}}
  /\ UNCHANGED <<items, categs, sortInfo, pending, history>>

\* The answer: the editor is closed and the tree loaded again, or an alert, and the
\* mask stays.
Saved ==
  /\ phase = "saving"
  /\ phase' \in {"closed", "stuck"}
  /\ UNCHANGED <<grid, items, categs, sortInfo, pending, posted, history>>

Close ==
  /\ phase # "closed"
  /\ phase' = "closed"
  /\ UNCHANGED <<grid, items, categs, sortInfo, pending, posted, history>>

EditorNext ==
  \/ \E list \in Lists : generateAvailableEngineList(list)
  \/ LoadFails
  \/ StartEdit
  \/ \E row \in DOMAIN items : ClickBox(row) \/ \E c \in Cols : ClickCell(row, c)
  \/ \E new \in Selections : Select(new)
  \/ \E field \in Cols : ClickHeader(field)
  \/ Scroll
  \/ AddEngine
  \/ \E name \in Names : Type("name", name)
  \/ \E categ \in categs : Type("categ", categ)
  \/ EnterOrTab
  \/ Escape
  \/ generateOutput
  \/ Saved
  \/ Close

EditorSpec == EditorInit /\ [][EditorNext]_editorVars

-----------------------------------------------------------------------------
\* Whatever the user has typed over a cell is in its record, or in the open editor of
\* its column, which will put it there, however keys, clicks, a sort or a new engine
\* end the edit and move the rows.  What Escape and a scroll give up is not meant
\* any more.  Nothing is said once two editors were asked for at once, or once a sort
\* or a new engine came within the 50 ms between a click and its editor: the editor
\* is then over one record and writes to another.
EditsLand ==
  ~hurried => \A r \in Range(items) : \A c \in Cols :
    \/ grid.data[r][c] = meant[r][c]
    \/ /\ grid.ed[c].editing /\ grid.ed[c].listening /\ grid.active = c
       /\ grid.ed[c].record = r /\ grid.ed[c].value = meant[r][c]

\* "Save the modifications" (EditTree.java): what is sent are the engines selected,
\* as the user has made them, although generateOutput reads the records only, and
\* does not end an edit.  An edit that a scroll or Escape has given up is not sent,
\* and the two cases of EditsLand are left out here too.
SavesWhatIsMeant ==
  [][phase = "shown" /\ phase' = "saving" /\ categs # {} /\ ~hurried =>
       posted' = {[record |-> r, name |-> meant[r].name, categ |-> meant[r].categ] :
                    r \in {k \in Range(items) : meant[k].select}}]_editorVars

\* However often an engine is listed, by the configuration and by the site of the
\* updates, the grid starts with one row for it, of the lowest version.
OneRowPerEngine ==
  [][\A list \in Lists : generateAvailableEngineList(list) =>
       /\ \A i, j \in DOMAIN items' :
            grid'.data[items'[i]].name = grid'.data[items'[j]].name => i = j
       /\ \A i \in DOMAIN list : \E r \in Range(items') :
            /\ grid'.data[r].name = list[i].name
            /\ grid'.data[r].version <= list[i].version]_editorVars
=============================================================================
