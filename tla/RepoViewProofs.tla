--------------------------- MODULE RepoViewProofs ---------------------------
(***************************************************************************)
(* Theorems about RepoView, for any folders, files and texts and any       *)
(* number of requests under way.                                           *)
(***************************************************************************)
EXTENDS RepoView, TLAPS

\* An upload is chosen for a leaf that an answer may have deselected meanwhile.
DialogOK == dialog = TRUE => tree.row \in Folders \cup {None}

\* GridShowsFolder with the requests that could disturb it: all that change the
\* rows are for the folder that is selected.
CalmOK ==
    calm = TRUE /\ LeafSelected =>
        /\ \A q \in pending : q.kind \in {"list", "upload"} => q.folder = tree.row
        /\ (\A q \in pending : q.kind # "list") => \A x \in grid.data : x.folder = tree.row

\* PanelMatchesSelection with the panel's requests: all ask for the selection.
PanelOK ==
    panel.open = TRUE /\ panelCalm = TRUE =>
        /\ \A q \in infos : q.of = Selection(tree, grid)
        /\ infos = {} => panel.info \in {None, Selection(tree, grid)}

Marked == reloaded = TRUE => tree.marked = {tree.row} \ {None}
Spinner == loading = TRUE => pending # {}

IInv == /\ TypeOK /\ DialogOK
        /\ Spinner /\ FlagMatchesRow /\ Marked /\ BoxShowsFilter
        /\ CalmOK /\ PanelOK

----------------------------------------------------------------------------
(* The reducers.                                                           *)

LEMMA Deselection ==
    ASSUME NEW g \in Grids
    PROVE  /\ Deselected(g) \in Grids
           /\ Deselected(g).row = g.row /\ Deselected(g).data = g.data
           /\ Deselected(g).flagged = g.flagged \ {g.row}
           /\ Deselected(g).filter = g.filter
BY DEF Deselected, Grids

LEMMA Loading ==
    ASSUME NEW g \in Grids, NEW rows \in SUBSET Rows
    PROVE  /\ GridDataLoad(g, rows) \in Grids
           /\ GridDataLoad(g, rows).row = None /\ GridDataLoad(g, rows).data = rows
           /\ GridDataLoad(g, rows).flagged = g.flagged \ {g.row}
           /\ GridDataLoad(g, rows).filter = g.filter
BY Deselection DEF GridDataLoad, Grids

LEMMA Cleaning ==
    ASSUME NEW g \in Grids
    PROVE  /\ GridSelectRowClean(g) \in Grids
           /\ GridSelectRowClean(g).row = None /\ GridSelectRowClean(g).data = g.data
           /\ GridSelectRowClean(g).flagged = g.flagged \ {g.row}
           /\ GridSelectRowClean(g).filter = g.filter
BY Deselection DEF GridSelectRowClean, Grids

LEMMA Selecting ==
    ASSUME NEW g \in Grids, NEW x \in Rows
    PROVE  /\ GridSelectRow(g, x) \in Grids
           /\ GridSelectRow(g, x).row = x /\ GridSelectRow(g, x).data = g.data
           /\ GridSelectRow(g, x).flagged = (g.flagged \ {g.row}) \cup {x}
           /\ GridSelectRow(g, x).filter = g.filter
BY Deselection DEF GridSelectRow, Grids

LEMMA Inserting ==
    ASSUME NEW g \in Grids, NEW x \in Rows
    PROVE  /\ GridInsertRow(g, x) \in Grids
           /\ GridInsertRow(g, x).row = g.row /\ GridInsertRow(g, x).data = g.data \cup {x}
           /\ GridInsertRow(g, x).flagged = g.flagged \ {g.row}
           /\ GridInsertRow(g, x).filter = g.filter
BY Deselection DEF GridInsertRow, Grids

LEMMA Refreshing ==
    ASSUME NEW g \in Grids
    PROVE  /\ GridRefreshRows(g) \in Grids
           /\ GridRefreshRows(g).row = Module /\ GridRefreshRows(g).data = g.data
           /\ GridRefreshRows(g).flagged = g.flagged \ {g.row}
           /\ GridRefreshRows(g).filter = g.filter
BY Deselection DEF GridRefreshRows, Grids

LEMMA Filtering ==
    ASSUME NEW g \in Grids, NEW text \in Texts \cup {None}
    PROVE  /\ GridFilteredRows(g, text) \in Grids
           /\ GridFilteredRows(g, text).row = g.row
           /\ GridFilteredRows(g, text).data = g.data
           /\ GridFilteredRows(g, text).flagged = g.flagged
           /\ GridFilteredRows(g, text).filter = text
BY DEF GridFilteredRows, Grids

LEMMA TreeSelecting ==
    ASSUME NEW t \in Trees, NEW f \in Nodes \cup {None}
    PROVE  /\ TreeSelectRow(t, f) \in Trees
           /\ TreeSelectRow(t, f).row = f /\ TreeSelectRow(t, f).marked = t.marked
BY DEF TreeSelectRow, Trees

LEMMA SelectEffect ==
    ASSUME TypeOK, NEW f \in Nodes, SelectNode(f)
    PROVE  /\ tree' \in Trees /\ tree'.row = f
           /\ tree'.marked = (tree.marked \cup {f}) \ {tree.row}
           /\ grid' \in Grids /\ grid'.row = None /\ grid'.data = grid.data
           /\ grid'.flagged = grid.flagged \ {grid.row} /\ grid'.filter = None
<1> DEFINE t == [tree EXCEPT !.marked = (@ \cup {f}) \ {tree.row}]
<1>1. /\ tree' = TreeSelectRow(t, f)
      /\ grid' = GridFilteredRows(GridSelectRowClean(grid), None)
  BY DEF SelectNode, Render
<1>2. tree \in Trees /\ grid \in Grids
  BY DEF TypeOK
<1>3. t \in Trees /\ t.marked = (tree.marked \cup {f}) \ {tree.row}
  BY <1>2 DEF Trees
<1> HIDE DEF t
<1>4. /\ tree' \in Trees /\ tree'.row = f
      /\ tree'.marked = (tree.marked \cup {f}) \ {tree.row}
  BY <1>1, <1>3, TreeSelecting
<1>5. /\ GridSelectRowClean(grid) \in Grids
      /\ GridSelectRowClean(grid).row = None /\ GridSelectRowClean(grid).data = grid.data
      /\ GridSelectRowClean(grid).flagged = grid.flagged \ {grid.row}
  BY <1>2, Cleaning
<1>6. /\ grid' \in Grids /\ grid'.row = None /\ grid'.data = grid.data
      /\ grid'.flagged = grid.flagged \ {grid.row} /\ grid'.filter = None
  BY <1>1, <1>5, Filtering
<1> QED
  BY <1>4, <1>6

LEMMA UploadEffect ==
    ASSUME TypeOK, NEW q \in pending, UploadAnswered(q)
    PROVE  \E x \in Rows :
              /\ x.folder = q.folder
              /\ grid' \in Grids /\ grid'.row = Module /\ grid'.data = grid.data \cup {x}
              /\ grid'.flagged = (grid.flagged \ {grid.row}) \ {grid.row}
              /\ grid'.filter = grid.filter
<1> DEFINE x == [id |-> q.id, folder |-> q.folder, name |-> q.name]
<1>1. q.id \in Ids /\ q.folder \in Nodes /\ q.name \in Files
  BY DEF TypeOK, UploadAnswered, Answered, StoreRequests, Nodes
<1>2. x \in Rows /\ x.folder = q.folder
  BY <1>1 DEF Rows
<1>3. grid' = GridRefreshRows(GridInsertRow(grid, x)) /\ grid \in Grids
  BY DEF TypeOK, UploadAnswered, Render
<1> HIDE DEF x
<1>4. /\ GridInsertRow(grid, x) \in Grids
      /\ GridInsertRow(grid, x).row = grid.row
      /\ GridInsertRow(grid, x).data = grid.data \cup {x}
      /\ GridInsertRow(grid, x).flagged = grid.flagged \ {grid.row}
      /\ GridInsertRow(grid, x).filter = grid.filter
  BY <1>2, <1>3, Inserting
<1> QED
  BY <1>2, <1>3, <1>4, Refreshing

LEMMA ListEffect ==
    ASSUME TypeOK, NEW q \in pending, NEW names \in SUBSET Files, ListAnswered(q, names)
    PROVE  /\ grid' \in Grids /\ grid'.row = None
           /\ \A x \in grid'.data : x.folder = q.folder
           /\ grid'.flagged = grid.flagged \ {grid.row}
           /\ grid'.filter = grid.filter
<1> DEFINE rows == [id : {q.id}, folder : {q.folder}, name : names]
<1>1. q.id \in Ids /\ q.folder \in Nodes
  BY DEF TypeOK, ListAnswered, Answered, StoreRequests, Nodes
<1>2. rows \in SUBSET Rows /\ \A x \in rows : x.folder = q.folder
  BY <1>1 DEF Rows
<1>3. grid' = GridDataLoad(grid, rows) /\ grid \in Grids
  BY DEF TypeOK, ListAnswered, Render
<1> HIDE DEF rows
<1> QED
  BY <1>2, <1>3, Loading

\* A step that changes the tree or the grid is one of these.
Renders ==
    \/ \E f \in Nodes : SelectNode(f)
    \/ Expand
    \/ \E text \in Texts \cup {None} : Search(text)
    \/ \E x \in Drawn(grid) : ClickRow(x)
    \/ CancelDialog /\ Render(tree, GridRefreshRows(grid))
    \/ \E q \in pending :
          \/ FoldersAnswered(q) \/ FoldersFailed(q) \/ UploadAnswered(q)
          \/ \E names \in SUBSET Files : ListAnswered(q, names)

LEMMA ViewCases ==
    ASSUME [Next]_vars
    PROVE  Renders \/ UNCHANGED <<tree, grid>>
<1>1. ASSUME UserActs PROVE Renders \/ UNCHANGED <<tree, grid>>
  <2>1. CASE Refresh \/ Download \/ Reindex \/ OpenDialog \/ \E n \in Files : PickFile(n)
    BY <2>1 DEF Refresh, Download, Reindex, OpenDialog, PickFile, SameView
  <2>2. CASE CancelDialog
    BY <2>2 DEF CancelDialog, SameView, Renders
  <2>3. CASE OpenPanel \/ ClosePanel \/ GoLogin \/ GoHome
    BY <2>3 DEF OpenPanel, ClosePanel, GoLogin, GoHome, SameView
  <2> QED
    BY <1>1, <2>1, <2>2, <2>3 DEF UserActs, Renders
<1>2. ASSUME NEW q \in pending, ListFailed(q) \/ UploadFailed(q) \/ OtherAnswered(q)
      PROVE  UNCHANGED <<tree, grid>>
  BY <1>2 DEF ListFailed, UploadFailed, OtherAnswered, SameView
<1>3. ASSUME NEW q \in infos, InfoAnswered(q) \/ InfoFailed(q)
      PROVE  UNCHANGED <<tree, grid>>
  BY <1>3 DEF InfoAnswered, InfoFailed
<1>4. ASSUME AnswerArrives PROVE Renders \/ UNCHANGED <<tree, grid>>
  BY <1>2, <1>3, <1>4 DEF AnswerArrives, Renders
<1>5. CASE UNCHANGED vars
  BY <1>5 DEF vars
<1> QED
  BY <1>1, <1>4, <1>5 DEF Next

----------------------------------------------------------------------------
(* The rows and their flags.                                               *)

LEMMA FlagStep ==
    ASSUME TypeOK, FlagMatchesRow, [Next]_vars
    PROVE  grid' \in Grids /\ FlagMatchesRow'
<1>0. /\ grid \in Grids /\ tree \in Trees
      /\ grid.flagged = {grid.row} \cap Rows /\ grid.flagged \subseteq grid.data
      /\ grid.flagged \ {grid.row} = {}
      /\ None \notin Rows /\ Module \notin Rows
  BY NamesAssumption DEF TypeOK, FlagMatchesRow
<1>1. CASE UNCHANGED <<tree, grid>>
  BY <1>0, <1>1 DEF FlagMatchesRow
<1>2. ASSUME NEW f \in Nodes, SelectNode(f)
      PROVE  grid' \in Grids /\ FlagMatchesRow'
  BY <1>0, <1>2, SelectEffect DEF FlagMatchesRow
<1>3. CASE Expand
  BY <1>0, <1>3 DEF Expand, Render, FlagMatchesRow
<1>4. ASSUME NEW text \in Texts \cup {None}, Search(text)
      PROVE  grid' \in Grids /\ FlagMatchesRow'
  BY <1>0, <1>4, Filtering DEF Search, Render, FlagMatchesRow
<1>5. ASSUME NEW x \in Drawn(grid), ClickRow(x)
      PROVE  grid' \in Grids /\ FlagMatchesRow'
  <2>1. x \in grid.data /\ x \in Rows
    BY <1>0 DEF Drawn, Grids
  <2>2. grid' = GridSelectRow(grid, x)
    BY <1>5 DEF ClickRow, Render
  <2> QED
    BY <1>0, <2>1, <2>2, Selecting DEF FlagMatchesRow
<1>6. CASE CancelDialog /\ Render(tree, GridRefreshRows(grid))
  BY <1>0, <1>6, Refreshing DEF Render, FlagMatchesRow
<1>7. ASSUME NEW q \in pending, FoldersAnswered(q) \/ FoldersFailed(q)
      PROVE  grid' \in Grids /\ FlagMatchesRow'
  BY <1>0, <1>7 DEF FoldersAnswered, FoldersFailed, Render, FlagMatchesRow
<1>8. ASSUME NEW q \in pending, UploadAnswered(q)
      PROVE  grid' \in Grids /\ FlagMatchesRow'
  <2>1. PICK x \in Rows :
              /\ grid' \in Grids /\ grid'.row = Module /\ grid'.data = grid.data \cup {x}
              /\ grid'.flagged = (grid.flagged \ {grid.row}) \ {grid.row}
    BY <1>8, UploadEffect
  <2> QED
    BY <1>0, <2>1 DEF FlagMatchesRow
<1>9. ASSUME NEW q \in pending, NEW names \in SUBSET Files, ListAnswered(q, names)
      PROVE  grid' \in Grids /\ FlagMatchesRow'
  BY <1>0, <1>9, ListEffect DEF FlagMatchesRow
<1> QED
  BY <1>1, <1>2, <1>3, <1>4, <1>5, <1>6, <1>7, <1>8, <1>9, ViewCases DEF Renders

----------------------------------------------------------------------------
(* The nodes and their flags.                                              *)

LEMMA TreeCases ==
    ASSUME [Next]_vars
    PROVE  \/ \E f \in Nodes : SelectNode(f)
           \/ Expand
           \/ \E q \in pending : FoldersAnswered(q) \/ FoldersFailed(q)
           \/ UNCHANGED <<tree, reloaded>>
<1>1. ASSUME UserActs
      PROVE  (\E f \in Nodes : SelectNode(f)) \/ Expand \/ UNCHANGED <<tree, reloaded>>
  BY <1>1 DEF UserActs, Search, Refresh, ClickRow, Download, Reindex, OpenDialog, PickFile,
        CancelDialog, OpenPanel, ClosePanel, GoLogin, GoHome, SameView, Render
<1>2. ASSUME NEW q \in pending, ListFailed(q) \/ UploadFailed(q) \/ OtherAnswered(q)
             \/ UploadAnswered(q) \/ \E names \in SUBSET Files : ListAnswered(q, names)
      PROVE  UNCHANGED <<tree, reloaded>>
  BY <1>2 DEF ListFailed, UploadFailed, OtherAnswered, UploadAnswered, ListAnswered,
        SameView, Render
<1>3. ASSUME NEW q \in infos, InfoAnswered(q) \/ InfoFailed(q)
      PROVE  UNCHANGED <<tree, reloaded>>
  BY <1>3 DEF InfoAnswered, InfoFailed, history
<1>4. CASE UNCHANGED vars
  BY <1>4 DEF vars
<1> QED
  BY <1>1, <1>2, <1>3, <1>4 DEF Next, AnswerArrives

LEMMA MarkedStep ==
    ASSUME TypeOK, DialogOK, Marked, [Next]_vars
    PROVE  tree' \in Trees /\ Marked'
<1>0. /\ tree \in Trees /\ None \notin Nodes
      /\ reloaded = TRUE => tree.marked = {tree.row} \ {None}
  BY NamesAssumption DEF TypeOK, Marked
<1>1. ASSUME NEW f \in Nodes, SelectNode(f)
      PROVE  tree' \in Trees /\ Marked'
  <2>1. f \notin tree.marked /\ reloaded' = reloaded
    BY <1>1 DEF SelectNode
  <2> QED
    BY <1>0, <1>1, <2>1, SelectEffect DEF Marked
<1>2. CASE Expand
  <2>1. tree' = [tree EXCEPT !.open = ~@] /\ reloaded' = reloaded
    BY <1>2 DEF Expand, Render
  <2>2. tree' \in Trees /\ tree'.row = tree.row /\ tree'.marked = tree.marked
    BY <1>0, <2>1 DEF Trees
  <2> QED
    BY <1>0, <2>1, <2>2 DEF Marked
<1>3. ASSUME NEW q \in pending, FoldersAnswered(q)
      PROVE  tree' \in Trees /\ Marked'
  BY <1>3 DEF FoldersAnswered, Render, TreeGetRowsAll, Trees, Marked
<1>4. ASSUME NEW q \in pending, FoldersFailed(q)
      PROVE  tree' \in Trees /\ Marked'
  <2>1. tree' = TreeSelectRow(tree, None) /\ reloaded' = (reloaded /\ tree.row = None)
    BY <1>4 DEF FoldersFailed, Render
  <2>2. tree' \in Trees /\ tree'.row = None /\ tree'.marked = tree.marked
    BY <1>0, <2>1, TreeSelecting
  <2>3. reloaded' = TRUE => reloaded = TRUE /\ tree.row = None
    BY <2>1 DEF TypeOK
  <2> QED
    BY <1>0, <2>2, <2>3 DEF Marked
<1>5. CASE UNCHANGED <<tree, reloaded>>
  BY <1>0, <1>5 DEF Marked
<1> QED
  BY <1>1, <1>2, <1>3, <1>4, <1>5, TreeCases

----------------------------------------------------------------------------
(* The requests of the store, and the spinner.                              *)

\* What pending holds besides being a set of requests.
WellFormed(q) ==
    /\ q \in StoreRequests
    /\ q.kind \in {"list", "upload"} => q.folder \in Folders
    /\ q.kind = "download" => q.folder \in Nodes
    /\ q.kind = "upload" => q.name \in Files

LEMMA SendEffect ==
    ASSUME TypeOK, NEW kind \in Kinds, NEW f \in Nodes \cup {None}, NEW n \in Files \cup {None},
           Send(kind, f, n)
    PROVE  \E q \in StoreRequests :
              /\ q.kind = kind /\ q.folder = f /\ q.name = n
              /\ pending' = pending \cup {q}
<1> DEFINE q == [id |-> issued + 1, kind |-> kind, folder |-> f, name |-> n]
<1>1. issued + 1 \in Ids
  BY BoundsAssumption DEF TypeOK, Send, Ids
<1>2. q \in StoreRequests /\ q.kind = kind /\ q.folder = f /\ q.name = n
  BY <1>1 DEF StoreRequests
<1>3. pending' = pending \cup {q}
  BY DEF Send
<1> HIDE DEF q
<1> QED
  BY <1>2, <1>3

\* What happens to the requests in a step.
LEMMA RequestCases ==
    ASSUME TypeOK, DialogOK, [Next]_vars
    PROVE  \/ NoRequest
           \/ \E q \in pending : Settled(q)
           \/ \E f \in Folders : Send("list", f, None)
           \/ \E f \in Nodes : Send("download", f, None)
           \/ \E f \in Folders, n \in Files : Send("upload", f, n)
           \/ \E kind \in {"folders", "reindex"} : Send(kind, None, None)
<1>1. ASSUME NEW f \in Nodes, SelectNode(f)
      PROVE  NoRequest \/ \E d \in Folders : Send("list", d, None)
  BY <1>1 DEF SelectNode, Nodes
<1>2. CASE Refresh
  BY <1>2 DEF Refresh, LeafSelected
<1>3. CASE Download
  BY <1>3 DEF Download, TypeOK, Trees
<1>4. CASE Reindex \/ GoHome
  BY <1>4 DEF Reindex, GoHome
<1>5. ASSUME NEW n \in Files, PickFile(n)
      PROVE  NoRequest \/ \E f \in Folders : Send("upload", f, n)
  <2>1. dialog = TRUE
    BY <1>5 DEF PickFile, TypeOK
  <2> QED
    BY <1>5, <2>1 DEF PickFile, DialogOK
<1>6. ASSUME UserActs, ~(\E f \in Nodes : SelectNode(f)), ~Refresh, ~Download, ~Reindex,
             ~GoHome, ~(\E n \in Files : PickFile(n))
      PROVE  NoRequest
  BY <1>6 DEF UserActs, Expand, Search, ClickRow, OpenDialog, CancelDialog, OpenPanel,
        ClosePanel, GoLogin
<1>7. ASSUME NEW q \in pending, FoldersAnswered(q) \/ FoldersFailed(q) \/ ListFailed(q)
             \/ UploadAnswered(q) \/ UploadFailed(q) \/ OtherAnswered(q)
             \/ \E names \in SUBSET Files : ListAnswered(q, names)
      PROVE  Settled(q)
  BY <1>7 DEF FoldersAnswered, FoldersFailed, ListFailed, UploadAnswered, UploadFailed,
        OtherAnswered, ListAnswered, Answered
<1>8. ASSUME NEW q \in infos, InfoAnswered(q) \/ InfoFailed(q)
      PROVE  NoRequest
  BY <1>8 DEF InfoAnswered, InfoFailed
<1>9. CASE UNCHANGED vars
  BY <1>9 DEF vars, NoRequest
<1> QED
  BY <1>1, <1>2, <1>3, <1>4, <1>5, <1>6, <1>7, <1>8, <1>9 DEF Next, AnswerArrives

LEMMA RequestStep ==
    ASSUME TypeOK, DialogOK, Spinner, [Next]_vars
    PROVE  /\ \A q \in pending' : WellFormed(q)
           /\ issued' \in 0..MaxRequests /\ loading' \in BOOLEAN
           /\ Spinner'
<1>0. /\ \A q \in pending : WellFormed(q)
      /\ issued \in 0..MaxRequests /\ loading \in BOOLEAN
      /\ None \notin Nodes \cup Files /\ Folders \subseteq Nodes
  BY NamesAssumption DEF TypeOK, WellFormed, Nodes
<1>1. CASE NoRequest
  BY <1>0, <1>1 DEF NoRequest, Spinner
<1>2. ASSUME NEW q \in pending, Settled(q)
      PROVE  /\ \A p \in pending' : WellFormed(p)
             /\ issued' \in 0..MaxRequests /\ loading' \in BOOLEAN /\ Spinner'
  BY <1>0, <1>2 DEF Settled, Spinner
<1>3. ASSUME NEW kind \in Kinds, NEW f \in Nodes \cup {None}, NEW n \in Files \cup {None},
             Send(kind, f, n),
             kind \in {"list", "upload"} => f \in Folders,
             kind = "download" => f \in Nodes,
             kind = "upload" => n \in Files
      PROVE  /\ \A p \in pending' : WellFormed(p)
             /\ issued' \in 0..MaxRequests /\ loading' \in BOOLEAN /\ Spinner'
  <2>1. PICK q \in StoreRequests :
              /\ q.kind = kind /\ q.folder = f /\ q.name = n
              /\ pending' = pending \cup {q}
    BY <1>3, SendEffect
  <2>3. issued' \in 0..MaxRequests /\ loading' = TRUE
    BY <1>3, BoundsAssumption DEF Send, TypeOK
  <2>2. WellFormed(q)
    BY <1>3, <2>1 DEF WellFormed
  <2> QED
    BY <1>0, <2>1, <2>2, <2>3 DEF Spinner
<1>4. ASSUME NEW f \in Folders, Send("list", f, None)
      PROVE  /\ \A p \in pending' : WellFormed(p)
             /\ issued' \in 0..MaxRequests /\ loading' \in BOOLEAN /\ Spinner'
  BY <1>0, <1>3, <1>4 DEF Kinds
<1>5. ASSUME NEW f \in Nodes, Send("download", f, None)
      PROVE  /\ \A p \in pending' : WellFormed(p)
             /\ issued' \in 0..MaxRequests /\ loading' \in BOOLEAN /\ Spinner'
  BY <1>0, <1>3, <1>5 DEF Kinds
<1>6. ASSUME NEW f \in Folders, NEW n \in Files, Send("upload", f, n)
      PROVE  /\ \A p \in pending' : WellFormed(p)
             /\ issued' \in 0..MaxRequests /\ loading' \in BOOLEAN /\ Spinner'
  BY <1>0, <1>3, <1>6 DEF Kinds
<1>7. ASSUME NEW kind \in {"folders", "reindex"}, Send(kind, None, None)
      PROVE  /\ \A p \in pending' : WellFormed(p)
             /\ issued' \in 0..MaxRequests /\ loading' \in BOOLEAN /\ Spinner'
  BY <1>0, <1>3, <1>7 DEF Kinds
<1> QED
  BY <1>1, <1>2, <1>4, <1>5, <1>6, <1>7, RequestCases

----------------------------------------------------------------------------
(* The dialog.                                                             *)

LEMMA DialogStep ==
    ASSUME TypeOK, DialogOK, [Next]_vars
    PROVE  DialogOK'
<1>0. tree \in Trees /\ dialog \in BOOLEAN
  BY DEF TypeOK
<1>1. ASSUME NEW f \in Nodes, SelectNode(f)
      PROVE  DialogOK'
  BY <1>0, <1>1 DEF SelectNode, OnView, DialogOK
<1>2. CASE Expand
  BY <1>0, <1>2 DEF Expand, OnView, DialogOK
<1>3. ASSUME NEW q \in pending, FoldersAnswered(q) \/ FoldersFailed(q)
      PROVE  DialogOK'
  <2>1. tree'.row = None
    BY <1>0, <1>3, TreeSelecting DEF FoldersAnswered, FoldersFailed, Render, TreeGetRowsAll
  <2> QED
    BY <2>1 DEF DialogOK
<1>4. CASE UNCHANGED <<tree, reloaded>>
  <2>1. OpenDialog \/ dialog' = FALSE \/ dialog' = dialog
    BY DEF Next, UserActs, AnswerArrives, SelectNode, Expand, Search, Refresh, ClickRow,
         Download, Reindex, PickFile, CancelDialog, OpenPanel, ClosePanel, GoLogin,
         GoHome, FoldersAnswered, FoldersFailed, ListAnswered, ListFailed, UploadAnswered,
         UploadFailed, OtherAnswered, InfoAnswered, InfoFailed, vars
  <2>2. CASE OpenDialog
    BY <1>4, <2>2 DEF OpenDialog, LeafSelected, DialogOK
  <2> QED
    BY <1>4, <2>1, <2>2 DEF DialogOK
<1> QED
  BY <1>1, <1>2, <1>3, <1>4, TreeCases

----------------------------------------------------------------------------
(* The details panel.                                                      *)

LEMMA PanelCases ==
    ASSUME [Next]_vars
    PROVE  \/ \E t, g : Render(t, g)
           \/ UNCHANGED <<tree, grid>> /\ Unmounted
           \/ UNCHANGED <<tree, grid>> /\ Effect(Selection(tree, grid), None)
           \/ UNCHANGED <<tree, grid, panelCalm>>
              /\ \E q \in infos : InfoAnswered(q) \/ InfoFailed(q)
           \/ SameView
<1>1. ASSUME UserActs
      PROVE  \/ \E t, g : Render(t, g)
             \/ UNCHANGED <<tree, grid>> /\ Unmounted
             \/ UNCHANGED <<tree, grid>> /\ Effect(Selection(tree, grid), None)
             \/ SameView
  <2>1. CASE \E f \in Nodes : SelectNode(f)
    BY <2>1 DEF SelectNode
  <2>2. CASE Expand
    BY <2>2 DEF Expand
  <2>3. CASE \E text \in Texts \cup {None} : Search(text)
    BY <2>3 DEF Search
  <2>4. CASE \E x \in Drawn(grid) : ClickRow(x)
    BY <2>4 DEF ClickRow
  <2>5. CASE CancelDialog
    BY <2>5 DEF CancelDialog
  <2>6. CASE Refresh \/ Download \/ Reindex \/ OpenDialog \/ GoHome
    BY <2>6 DEF Refresh, Download, Reindex, OpenDialog, GoHome
  <2>7. CASE \E n \in Files : PickFile(n)
    BY <2>7 DEF PickFile
  <2>8. CASE OpenPanel
    BY <2>8 DEF OpenPanel
  <2>9. CASE ClosePanel \/ GoLogin
    BY <2>9 DEF ClosePanel, GoLogin
  <2> QED
    BY <1>1, <2>1, <2>2, <2>3, <2>4, <2>5, <2>6, <2>7, <2>8, <2>9 DEF UserActs
<1>2. ASSUME NEW q \in pending, FoldersAnswered(q) \/ FoldersFailed(q) \/ UploadAnswered(q)
             \/ \E names \in SUBSET Files : ListAnswered(q, names)
      PROVE  \E t, g : Render(t, g)
  <2>1. CASE FoldersAnswered(q)
    BY <2>1 DEF FoldersAnswered
  <2>2. CASE FoldersFailed(q)
    BY <2>2 DEF FoldersFailed
  <2>3. CASE UploadAnswered(q)
    BY <2>3 DEF UploadAnswered
  <2>4. CASE \E names \in SUBSET Files : ListAnswered(q, names)
    BY <2>4 DEF ListAnswered
  <2> QED
    BY <1>2, <2>1, <2>2, <2>3, <2>4
<1>3. ASSUME NEW q \in pending, ListFailed(q) \/ UploadFailed(q) \/ OtherAnswered(q)
      PROVE  SameView
  BY <1>3 DEF ListFailed, UploadFailed, OtherAnswered
<1>4. ASSUME NEW q \in infos, InfoAnswered(q) \/ InfoFailed(q)
      PROVE  UNCHANGED <<tree, grid, panelCalm>>
  BY <1>4 DEF InfoAnswered, InfoFailed, history
<1>5. CASE UNCHANGED vars
  BY <1>5 DEF vars, SameView
<1> QED
  BY <1>1, <1>2, <1>3, <1>4, <1>5 DEF Next, AnswerArrives

\* The types of the panel and its requests.
PanelTyped ==
    /\ panel \in [open : BOOLEAN, info : (Nodes \X Files) \cup {None}]
    /\ infos \subseteq [id : 1..MaxInfos, of : Nodes \X (Files \cup {ModuleName})]
    /\ panelCalm \in BOOLEAN

\* What the effect leaves, for a selection of the view to come.
LEMMA EffectEffect ==
    ASSUME PanelTyped, NEW t \in Trees, NEW g \in Grids,
           NEW shown \in (Nodes \X Files) \cup {None}, Effect(Selection(t, g), shown)
    PROVE  /\ PanelTyped'
           /\ panelCalm' = TRUE =>
                 /\ \A q \in infos' : q.of = Selection(t, g)
                 /\ infos' = {} => panel'.info = None
<1> DEFINE sel == Selection(t, g)
<1>1. sel[1] = t.row /\ sel[2] = NameOf(g.row) /\ sel = <<t.row, NameOf(g.row)>>
  BY DEF Selection
<1>2. t.row \in Nodes \cup {None} /\ NameOf(g.row) \in Files \cup {ModuleName, None}
  BY DEF Trees, Grids, Rows, NameOf
<1>3. panelCalm' = (infos = {})
  BY DEF Effect
<1>4. CASE Complete(sel)
  <2>1. PICK i \in 1..MaxInfos : infos' = infos \cup {[id |-> i, of |-> sel]}
    BY <1>4 DEF Effect
  <2>2. panel' = [open |-> TRUE, info |-> shown]
    BY <1>4 DEF Effect
  <2>3. sel \in Nodes \X (Files \cup {ModuleName})
    BY <1>1, <1>2, <1>4 DEF Complete
  <2> HIDE DEF sel
  <2>4. [id |-> i, of |-> sel] \in [id : 1..MaxInfos, of : Nodes \X (Files \cup {ModuleName})]
        /\ [id |-> i, of |-> sel].of = sel
    BY <2>3
  <2>5. PanelTyped'
    BY <1>3, <2>1, <2>2, <2>4 DEF PanelTyped
  <2>6. panelCalm' = TRUE => (\A q \in infos' : q.of = sel) /\ infos' # {}
    BY <1>3, <2>1, <2>4
  <2> QED
    BY <2>5, <2>6 DEF sel
<1>5. CASE ~Complete(sel)
  <2>1. infos' = infos /\ panel' = [open |-> TRUE, info |-> None]
    BY <1>5 DEF Effect
  <2>2. PanelTyped'
    BY <1>3, <2>1 DEF PanelTyped
  <2> QED
    BY <1>3, <2>1, <2>2
<1> QED
  BY <1>4, <1>5

LEMMA PanelStep ==
    ASSUME TypeOK, PanelOK, [Next]_vars, tree' \in Trees, grid' \in Grids
    PROVE  PanelTyped' /\ PanelOK'
<1>0. PanelTyped /\ tree \in Trees /\ grid \in Grids
  BY DEF TypeOK, PanelTyped
<1>1. ASSUME NEW t, NEW g, Render(t, g)
      PROVE  PanelTyped' /\ PanelOK'
  <2>1. tree' = t /\ grid' = g /\ Selection(t, g) = Selection(tree, grid)'
    BY <1>1 DEF Render, Selection, NameOf
  <2>2. CASE panel.open /\ Selection(t, g) # Selection(tree, grid)
    <3>1. Effect(Selection(t, g), panel.info) /\ t \in Trees /\ g \in Grids
      BY <1>1, <2>1, <2>2 DEF Render
    <3>2. panel.info \in (Nodes \X Files) \cup {None}
      BY <1>0 DEF PanelTyped
    <3>3. /\ PanelTyped'
          /\ panelCalm' = TRUE =>
                /\ \A q \in infos' : q.of = Selection(t, g)
                /\ infos' = {} => panel'.info = None
      BY <1>0, <3>1, <3>2, EffectEffect
    <3> QED
      BY <2>1, <3>3 DEF PanelOK
  <2>3. CASE panel.open /\ Selection(t, g) = Selection(tree, grid)
    <3>1. UNCHANGED <<panel, infos, panelCalm>>
      BY <1>1, <2>3 DEF Render
    <3> QED
      BY <1>0, <2>1, <2>3, <3>1 DEF PanelTyped, PanelOK
  <2>4. CASE ~panel.open
    <3>1. UNCHANGED <<panel, infos, panelCalm>> /\ panel.open # TRUE
      BY <1>1, <2>4 DEF Render
    <3> QED
      BY <1>0, <3>1 DEF PanelTyped, PanelOK
  <2> QED
    BY <2>2, <2>3, <2>4
<1>2. CASE UNCHANGED <<tree, grid>> /\ Unmounted
  BY <1>0, <1>2 DEF Unmounted, PanelTyped, PanelOK
<1>3. CASE UNCHANGED <<tree, grid>> /\ Effect(Selection(tree, grid), None)
  <2>1. /\ PanelTyped'
        /\ panelCalm' = TRUE =>
              /\ \A q \in infos' : q.of = Selection(tree, grid)
              /\ infos' = {} => panel'.info = None
    BY <1>0, <1>3, EffectEffect
  <2>2. Selection(tree, grid)' = Selection(tree, grid)
    BY <1>3 DEF Selection, NameOf
  <2> QED
    BY <2>1, <2>2 DEF PanelOK
<1>4. ASSUME UNCHANGED <<tree, grid, panelCalm>>, NEW q \in infos,
             InfoAnswered(q) \/ InfoFailed(q)
      PROVE  PanelTyped' /\ PanelOK'
  <2>1. Selection(tree, grid)' = Selection(tree, grid)
    BY <1>4 DEF Selection, NameOf
  <2>2. infos' = infos \ {q} /\ panelCalm' = panelCalm
    BY <1>4 DEF InfoAnswered, InfoFailed
  <2>3. CASE InfoAnswered(q)
    <3>1. panel' = [panel EXCEPT !.info = q.of] /\ q.of[2] # ModuleName
      BY <2>3 DEF InfoAnswered
    <3>2. q.of \in Nodes \X Files
      <4>1. q.of \in Nodes \X (Files \cup {ModuleName})
        BY <1>0 DEF PanelTyped
      <4> QED
        BY <3>1, <4>1
    <3>3. /\ panel' \in [open : BOOLEAN, info : (Nodes \X Files) \cup {None}]
          /\ panel'.open = panel.open /\ panel'.info = q.of
      BY <1>0, <3>1, <3>2 DEF PanelTyped
    <3>4. PanelTyped'
      BY <1>0, <2>2, <3>3 DEF PanelTyped
    <3>5. PanelOK'
      BY <2>1, <2>2, <3>3 DEF PanelOK
    <3> QED
      BY <3>4, <3>5
  <2>4. CASE InfoFailed(q)
    <3>1. panel' = [panel EXCEPT !.info = None]
      BY <2>4 DEF InfoFailed
    <3>2. /\ panel' \in [open : BOOLEAN, info : (Nodes \X Files) \cup {None}]
          /\ panel'.open = panel.open /\ panel'.info = None
      BY <1>0, <3>1 DEF PanelTyped
    <3>3. PanelTyped'
      BY <1>0, <2>2, <3>2 DEF PanelTyped
    <3>4. PanelOK'
      BY <2>1, <2>2, <3>2 DEF PanelOK
    <3> QED
      BY <3>3, <3>4
  <2> QED
    BY <1>4, <2>3, <2>4
<1>5. CASE SameView
  <2>1. Selection(tree, grid)' = Selection(tree, grid) /\ UNCHANGED <<panel, infos, panelCalm>>
    BY <1>5 DEF SameView, Selection, NameOf
  <2> QED
    BY <1>0, <2>1 DEF PanelTyped, PanelOK
<1> QED
  BY <1>1, <1>2, <1>3, <1>4, <1>5, PanelCases

----------------------------------------------------------------------------
(* What the other steps leave alone.                                       *)

\* Steps of the store's requests that neither select a folder nor ask for or
\* answer a listing.
Idle ==
    \/ NoRequest
    \/ \E kind \in {"download", "reindex", "folders"}, f \in Nodes \cup {None} :
          Send(kind, f, None)
    \/ \E q \in pending : Settled(q) /\ q.kind \in {"upload", "download", "reindex"}

LEMMA IdleEffect ==
    ASSUME TypeOK, Idle
    PROVE  /\ \A q \in pending' : q.kind \in {"list", "upload"} => q \in pending
           /\ \A q \in pending : q.kind \in {"list", "folders"} => q \in pending'
<1>1. CASE NoRequest
  BY <1>1 DEF NoRequest
<1>2. ASSUME NEW kind \in {"download", "reindex", "folders"}, NEW f \in Nodes \cup {None},
             Send(kind, f, None)
      PROVE  /\ \A q \in pending' : q.kind \in {"list", "upload"} => q \in pending
             /\ \A q \in pending : q.kind \in {"list", "folders"} => q \in pending'
  <2>1. kind \in Kinds
    BY DEF Kinds
  <2>2. PICK q \in StoreRequests : q.kind = kind /\ pending' = pending \cup {q}
    BY <1>2, <2>1, SendEffect
  <2> QED
    BY <2>2
<1>3. ASSUME NEW q \in pending, Settled(q), q.kind \in {"upload", "download", "reindex"}
      PROVE  /\ \A p \in pending' : p.kind \in {"list", "upload"} => p \in pending
             /\ \A p \in pending : p.kind \in {"list", "folders"} => p \in pending'
  BY <1>3 DEF Settled
<1> QED
  BY <1>1, <1>2, <1>3 DEF Idle

\* Every step, by what it does to the selected node, the rows and the listings.
LEMMA StepCases ==
    ASSUME TypeOK, [Next]_vars
    PROVE  \/ \E f \in Nodes : SelectNode(f)
           \/ \E text \in Texts \cup {None} : Search(text)
           \/ Refresh
           \/ \E n \in Files : PickFile(n)
           \/ GoLogin \/ GoHome
           \/ \E q \in pending :
                 \/ FoldersAnswered(q) \/ FoldersFailed(q) \/ ListFailed(q) \/ UploadAnswered(q)
                 \/ \E names \in SUBSET Files : ListAnswered(q, names)
           \/ /\ Idle
              /\ tree'.row = tree.row /\ grid'.data = grid.data /\ grid'.filter = grid.filter
              /\ UNCHANGED <<page, search, calm, reloaded>>
<1> DEFINE Rest == /\ Idle
                   /\ tree'.row = tree.row /\ grid'.data = grid.data
                   /\ grid'.filter = grid.filter
                   /\ UNCHANGED <<page, search, calm, reloaded>>
<1>0. tree \in Trees /\ grid \in Grids
  BY DEF TypeOK
<1>1. ASSUME Expand PROVE Rest
  <2>1. tree' = [tree EXCEPT !.open = ~@] /\ grid' = grid
    BY <1>1 DEF Expand, Render
  <2>2. tree'.row = tree.row
    BY <1>0, <2>1 DEF Trees
  <2> QED
    BY <1>1, <2>1, <2>2 DEF Expand, Idle
<1>2. ASSUME NEW x \in Drawn(grid), ClickRow(x)
      PROVE  Rest
  <2>1. grid' = GridSelectRow(grid, x) /\ tree' = tree /\ x \in Rows
    BY <1>0, <1>2 DEF ClickRow, Render, Drawn, Grids
  <2>2. grid'.data = grid.data /\ grid'.filter = grid.filter
    BY <1>0, <2>1, Selecting
  <2> QED
    BY <1>2, <2>1, <2>2 DEF ClickRow, Idle
<1>3. ASSUME Download PROVE Rest
  <2>1. \E f \in Nodes \cup {None} : Send("download", f, None)
    BY <1>0, <1>3 DEF Download, Trees
  <2>2. Idle
    BY <2>1 DEF Idle
  <2> QED
    BY <1>3, <2>2 DEF Download, SameView
<1>4. ASSUME Reindex PROVE Rest
  <2>1. Idle
    BY <1>4 DEF Reindex, Idle
  <2> QED
    BY <1>4, <2>1 DEF Reindex, SameView
<1>5. ASSUME OpenDialog PROVE Rest
  BY <1>5 DEF OpenDialog, SameView, Idle
<1>6. ASSUME CancelDialog PROVE Rest
  <2>1. CASE SameView
    BY <1>6, <2>1 DEF CancelDialog, SameView, Idle
  <2>2. CASE Render(tree, GridRefreshRows(grid))
    <3>1. tree' = tree /\ grid'.data = grid.data /\ grid'.filter = grid.filter
      BY <1>0, <2>2, Refreshing DEF Render
    <3> QED
      BY <1>6, <3>1 DEF CancelDialog, Idle
  <2> QED
    BY <1>6, <2>1, <2>2 DEF CancelDialog
<1>7. ASSUME OpenPanel \/ ClosePanel PROVE Rest
  BY <1>7 DEF OpenPanel, ClosePanel, Idle
<1>8. ASSUME NEW q \in pending, UploadFailed(q) \/ OtherAnswered(q)
      PROVE  Rest
  <2>1. Idle
    BY <1>8 DEF UploadFailed, OtherAnswered, Answered, Idle
  <2>2. SameView /\ UNCHANGED <<page, search, calm, reloaded>>
    BY <1>8 DEF UploadFailed, OtherAnswered
  <2> QED
    BY <2>1, <2>2 DEF SameView
<1>9. ASSUME NEW q \in infos, InfoAnswered(q) \/ InfoFailed(q)
      PROVE  Rest
  BY <1>9 DEF InfoAnswered, InfoFailed, Idle, history
<1>10. ASSUME UNCHANGED vars PROVE Rest
  BY <1>10 DEF vars, Idle, NoRequest
<1> HIDE DEF Rest
<1>11. ASSUME UserActs
       PROVE  \/ \E f \in Nodes : SelectNode(f)
              \/ \E text \in Texts \cup {None} : Search(text)
              \/ Refresh
              \/ \E n \in Files : PickFile(n)
              \/ GoLogin \/ GoHome \/ Rest
  <2>1. Expand \/ Download \/ Reindex \/ OpenDialog \/ CancelDialog \/ OpenPanel \/ ClosePanel
        => Rest
    BY <1>1, <1>3, <1>4, <1>5, <1>6, <1>7
  <2> QED
    BY <1>2, <1>11, <2>1 DEF UserActs
<1>12. UNCHANGED vars => Rest
  BY <1>10
<1>13. (\E q \in infos : InfoAnswered(q) \/ InfoFailed(q)) => Rest
  BY <1>9
<1>14. ASSUME NEW q \in pending,
              \/ FoldersAnswered(q) \/ FoldersFailed(q) \/ ListFailed(q)
              \/ UploadAnswered(q) \/ UploadFailed(q) \/ OtherAnswered(q)
              \/ \E names \in SUBSET Files : ListAnswered(q, names)
       PROVE  \/ Rest
              \/ FoldersAnswered(q) \/ FoldersFailed(q) \/ ListFailed(q) \/ UploadAnswered(q)
              \/ \E names \in SUBSET Files : ListAnswered(q, names)
  BY <1>8, <1>14
<1>15. AnswerArrives =>
         \/ \E q \in pending :
               \/ FoldersAnswered(q) \/ FoldersFailed(q) \/ ListFailed(q) \/ UploadAnswered(q)
               \/ \E names \in SUBSET Files : ListAnswered(q, names)
         \/ Rest
  BY <1>13, <1>14 DEF AnswerArrives
<1> QED
  BY <1>11, <1>12, <1>15 DEF Next, Rest

----------------------------------------------------------------------------
(* The search box and the filter.                                          *)

LEMMA BoxStep ==
    ASSUME TypeOK, BoxShowsFilter, [Next]_vars
    PROVE  BoxShowsFilter'
<1>0. tree \in Trees /\ grid \in Grids
  BY DEF TypeOK
<1>1. ASSUME NEW f \in Nodes, SelectNode(f)
      PROVE  BoxShowsFilter'
  <2>1. search' = None
    BY <1>1 DEF SelectNode
  <2> QED
    BY <1>1, <2>1, SelectEffect DEF BoxShowsFilter
<1>2. ASSUME NEW text \in Texts \cup {None}, Search(text)
      PROVE  BoxShowsFilter'
  <2>1. search' = text /\ grid' = GridFilteredRows(grid, text)
    BY <1>2 DEF Search, Render
  <2>2. grid'.filter = text
    BY <1>0, <2>1, Filtering
  <2> QED
    BY <2>1, <2>2 DEF BoxShowsFilter
<1>3. ASSUME UNCHANGED <<tree, page, search>>, grid'.filter = grid.filter,
             \A q \in pending : q.kind = "folders" => q \in pending'
      PROVE  BoxShowsFilter'
  BY <1>3 DEF BoxShowsFilter
<1>4. ASSUME Refresh \/ \E n \in Files : PickFile(n)
      PROVE  BoxShowsFilter'
  <2>1. UNCHANGED <<tree, grid, page, search>> /\ pending \subseteq pending'
    BY <1>4 DEF Refresh, PickFile, SameView, Send, NoRequest
  <2> QED
    BY <1>3, <2>1
<1>5. CASE GoLogin
  BY <1>5 DEF GoLogin, BoxShowsFilter
<1>6. CASE GoHome
  <2>1. Send("folders", None, None)
    BY <1>6 DEF GoHome
  <2>2. \E q \in pending' : q.kind = "folders"
    BY <2>1, SendEffect DEF Kinds
  <2> QED
    BY <2>2 DEF BoxShowsFilter
<1>7. ASSUME NEW q \in pending, FoldersAnswered(q) \/ FoldersFailed(q)
      PROVE  BoxShowsFilter'
  <2>1. tree'.row = None
    BY <1>0, <1>7, TreeSelecting DEF FoldersAnswered, FoldersFailed, Render, TreeGetRowsAll
  <2> QED
    BY <2>1 DEF BoxShowsFilter
<1>8. ASSUME NEW q \in pending, ListFailed(q)
      PROVE  BoxShowsFilter'
  BY <1>3, <1>8 DEF ListFailed, Answered, Settled, SameView
<1>9. ASSUME NEW q \in pending, UploadAnswered(q)
      PROVE  BoxShowsFilter'
  <2>1. grid'.filter = grid.filter
    BY <1>9, UploadEffect
  <2>2. UNCHANGED <<tree, page, search>> /\ pending' = pending \ {q} /\ q.kind = "upload"
    BY <1>9 DEF UploadAnswered, Answered, Settled, Render
  <2> QED
    BY <1>3, <2>1, <2>2
<1>10. ASSUME NEW q \in pending, NEW names \in SUBSET Files, ListAnswered(q, names)
       PROVE  BoxShowsFilter'
  <2>1. grid'.filter = grid.filter
    BY <1>10, ListEffect
  <2>2. UNCHANGED <<tree, page, search>> /\ pending' = pending \ {q} /\ q.kind = "list"
    BY <1>10 DEF ListAnswered, Answered, Settled, Render
  <2> QED
    BY <1>3, <2>1, <2>2
<1>11. ASSUME Idle, tree'.row = tree.row, grid'.filter = grid.filter, UNCHANGED <<page, search>>
       PROVE  BoxShowsFilter'
  BY <1>11, IdleEffect DEF BoxShowsFilter
<1> QED
  BY <1>1, <1>2, <1>4, <1>5, <1>6, <1>7, <1>8, <1>9, <1>10, <1>11, StepCases

----------------------------------------------------------------------------
(* The rows and the selected folder.                                       *)

\* The listing of f is asked for.
LEMMA ListSent ==
    ASSUME TypeOK, NEW f \in Folders, Send("list", f, None),
           calm' = ~Crossed(f), tree'.row = f
    PROVE  CalmOK'
<1>1. PICK p \in StoreRequests : p.kind = "list" /\ p.folder = f /\ pending' = pending \cup {p}
  BY SendEffect DEF Kinds, Nodes
<1>2. calm' = TRUE => \A q \in pending : q.kind \in {"list", "upload"} => q.folder = f
  BY DEF Crossed
<1> QED
  BY <1>1, <1>2 DEF CalmOK

LEMMA CalmStep ==
    ASSUME TypeOK, DialogOK, CalmOK, [Next]_vars
    PROVE  CalmOK'
<1>0. tree \in Trees /\ grid \in Grids /\ None \notin Folders /\ Root \notin Folders
      /\ calm \in BOOLEAN
  BY NamesAssumption DEF TypeOK, Nodes
<1>1. ASSUME NEW f \in Nodes, SelectNode(f)
      PROVE  CalmOK'
  <2>1. tree'.row = f
    BY <1>1, SelectEffect
  <2>2. CASE f = Root
    BY <1>0, <2>1, <2>2 DEF CalmOK, LeafSelected
  <2>3. CASE f # Root
    <3>1. f \in Folders /\ Send("list", f, None) /\ calm' = ~Crossed(f)
      BY <1>1, <2>3 DEF SelectNode, Nodes
    <3> QED
      BY <2>1, <3>1, ListSent
  <2> QED
    BY <2>2, <2>3
<1>2. ASSUME NEW text \in Texts \cup {None}, Search(text)
      PROVE  CalmOK'
  <2>1. UNCHANGED <<tree, pending, calm>> /\ grid' = GridFilteredRows(grid, text)
    BY <1>2 DEF Search, Render, NoRequest
  <2>2. grid'.data = grid.data
    BY <1>0, <2>1, Filtering
  <2> QED
    BY <2>1, <2>2 DEF CalmOK, LeafSelected
<1>3. CASE Refresh
  <2>1. tree'.row = tree.row /\ tree.row \in Folders /\ Send("list", tree.row, None)
        /\ calm' = ~Crossed(tree.row)
    BY <1>3 DEF Refresh, LeafSelected, SameView
  <2> QED
    BY <2>1, ListSent
<1>4. ASSUME NEW n \in Files, PickFile(n)
      PROVE  CalmOK'
  <2>1. UNCHANGED <<tree, grid>>
    BY <1>4 DEF PickFile, SameView
  <2>2. CASE tree.row = None
    BY <1>0, <2>1, <2>2 DEF CalmOK, LeafSelected
  <2>3. CASE tree.row # None
    <3>1. /\ tree.row \in Folders /\ Send("upload", tree.row, n)
          /\ calm' = (calm /\ ~Crossed(tree.row))
      BY <1>4, <2>3 DEF PickFile, DialogOK, TypeOK
    <3>2. PICK p \in StoreRequests :
             p.kind = "upload" /\ p.folder = tree.row /\ pending' = pending \cup {p}
      BY <3>1, SendEffect DEF Kinds, Nodes
    <3>3. calm' = TRUE => calm = TRUE
      BY <1>0, <3>1
    <3> QED
      BY <2>1, <3>1, <3>2, <3>3 DEF CalmOK, LeafSelected
  <2> QED
    BY <2>2, <2>3
<1>5. CASE GoLogin
  BY <1>5 DEF GoLogin, NoRequest, CalmOK, LeafSelected
<1>6. CASE GoHome
  <2>1. Send("folders", None, None) /\ UNCHANGED <<tree, grid, calm>>
    BY <1>6 DEF GoHome, SameView
  <2>2. PICK p \in StoreRequests : p.kind = "folders" /\ pending' = pending \cup {p}
    BY <2>1, SendEffect DEF Kinds
  <2> QED
    BY <2>1, <2>2 DEF CalmOK, LeafSelected
<1>7. ASSUME NEW q \in pending, FoldersAnswered(q) \/ FoldersFailed(q)
      PROVE  CalmOK'
  <2>1. tree'.row = None
    BY <1>0, <1>7, TreeSelecting DEF FoldersAnswered, FoldersFailed, Render, TreeGetRowsAll
  <2> QED
    BY <1>0, <2>1 DEF CalmOK, LeafSelected
<1>8. ASSUME NEW q \in pending, ListFailed(q)
      PROVE  CalmOK'
  BY <1>8 DEF ListFailed, CalmOK
<1>9. ASSUME NEW q \in pending, UploadAnswered(q)
      PROVE  CalmOK'
  <2>1. PICK x \in Rows : x.folder = q.folder /\ grid'.data = grid.data \cup {x}
    BY <1>9, UploadEffect
  <2>2. /\ tree' = tree /\ calm' = calm /\ pending' = pending \ {q} /\ q.kind = "upload"
    BY <1>9 DEF UploadAnswered, Answered, Settled, Render
  <2> QED
    BY <2>1, <2>2 DEF CalmOK, LeafSelected
<1>10. ASSUME NEW q \in pending, NEW names \in SUBSET Files, ListAnswered(q, names)
       PROVE  CalmOK'
  <2>1. \A x \in grid'.data : x.folder = q.folder
    BY <1>10, ListEffect
  <2>2. /\ tree' = tree /\ calm' = calm /\ pending' = pending \ {q} /\ q.kind = "list"
    BY <1>10 DEF ListAnswered, Answered, Settled, Render
  <2> QED
    BY <2>1, <2>2 DEF CalmOK, LeafSelected
<1>11. ASSUME Idle, tree'.row = tree.row, grid'.data = grid.data, calm' = calm
       PROVE  CalmOK'
  BY <1>11, IdleEffect DEF CalmOK, LeafSelected
<1> QED
  BY <1>1, <1>2, <1>3, <1>4, <1>5, <1>6, <1>7, <1>8, <1>9, <1>10, <1>11, StepCases

----------------------------------------------------------------------------
(* All together.                                                           *)

LEMMA OtherTypes ==
    ASSUME TypeOK, [Next]_vars
    PROVE  /\ search' \in Texts \cup {None} /\ page' \in {"view", "login"}
           /\ dialog' \in BOOLEAN /\ calm' \in BOOLEAN /\ reloaded' \in BOOLEAN
<1>0. /\ search \in Texts \cup {None} /\ page \in {"view", "login"}
      /\ dialog \in BOOLEAN /\ calm \in BOOLEAN /\ reloaded \in BOOLEAN
  BY DEF TypeOK
<1>1. search' \in {search, None} \/ \E text \in Texts \cup {None} : search' = text
  BY DEF Next, UserActs, AnswerArrives, SelectNode, Expand, Search, Refresh, ClickRow,
       Download, Reindex, OpenDialog, PickFile, CancelDialog, OpenPanel, ClosePanel, GoLogin,
       GoHome, FoldersAnswered, FoldersFailed, ListAnswered, ListFailed, UploadAnswered,
       UploadFailed, OtherAnswered, InfoAnswered, InfoFailed, vars
<1>2. page' \in {page, "view", "login"}
  BY DEF Next, UserActs, AnswerArrives, SelectNode, Expand, Search, Refresh, ClickRow,
       Download, Reindex, OpenDialog, PickFile, CancelDialog, OpenPanel, ClosePanel, GoLogin,
       GoHome, FoldersAnswered, FoldersFailed, ListAnswered, ListFailed, UploadAnswered,
       UploadFailed, OtherAnswered, InfoAnswered, InfoFailed, vars
<1>3. dialog' \in {dialog, TRUE, FALSE}
  BY DEF Next, UserActs, AnswerArrives, SelectNode, Expand, Search, Refresh, ClickRow,
       Download, Reindex, OpenDialog, PickFile, CancelDialog, OpenPanel, ClosePanel, GoLogin,
       GoHome, FoldersAnswered, FoldersFailed, ListAnswered, ListFailed, UploadAnswered,
       UploadFailed, OtherAnswered, InfoAnswered, InfoFailed, vars
<1>4. calm' \in BOOLEAN
  <2>1. ASSUME UserActs PROVE calm' = calm \/ calm' \in BOOLEAN
    BY <2>1 DEF UserActs, SelectNode, Expand, Search, Refresh, ClickRow,
         Download, Reindex, OpenDialog, PickFile, CancelDialog, OpenPanel, ClosePanel,
         GoLogin, GoHome
  <2>2. ASSUME AnswerArrives PROVE calm' \in {calm, FALSE}
    BY <2>2 DEF AnswerArrives, FoldersAnswered, FoldersFailed, ListAnswered, ListFailed,
         UploadAnswered, UploadFailed, OtherAnswered, InfoAnswered, InfoFailed, history
  <2> QED
    BY <1>0, <2>1, <2>2 DEF Next, vars
<1>5. reloaded' \in BOOLEAN
  <2>1. ASSUME UserActs PROVE reloaded' = reloaded
    BY <2>1 DEF UserActs, SelectNode, Expand, Search, Refresh, ClickRow,
         Download, Reindex, OpenDialog, PickFile, CancelDialog, OpenPanel, ClosePanel,
         GoLogin, GoHome
  <2>2. ASSUME AnswerArrives PROVE reloaded' = reloaded \/ reloaded' \in BOOLEAN
    BY <2>2 DEF AnswerArrives, FoldersAnswered, FoldersFailed, ListAnswered, ListFailed,
         UploadAnswered, UploadFailed, OtherAnswered, InfoAnswered, InfoFailed, history
  <2> QED
    BY <1>0, <2>1, <2>2 DEF Next, vars
<1> QED
  BY <1>0, <1>1, <1>2, <1>3, <1>4, <1>5

LEMMA InitIInv == Init => IInv
<1> SUFFICES ASSUME Init PROVE IInv
  OBVIOUS
<1>1. tree \in Trees /\ tree.row = None /\ tree.marked = {}
  BY DEF Init, Trees
<1>2. grid \in Grids /\ grid.row = None /\ grid.data = {} /\ grid.flagged = {}
      /\ grid.filter = None
  BY DEF Init, Grids
<1>3. PICK q \in StoreRequests : pending = {q} /\ q.kind = "folders"
  <2> DEFINE q == [id |-> 1, kind |-> "folders", folder |-> None, name |-> None]
  <2>1. 1 \in Ids
    BY BoundsAssumption DEF Ids
  <2>2. q \in StoreRequests /\ q.kind = "folders"
    BY <2>1 DEF StoreRequests, Kinds
  <2>3. pending = {q}
    BY DEF Init
  <2> HIDE DEF q
  <2> QED
    BY <2>2, <2>3
<1>4. issued \in 0..MaxRequests
  BY BoundsAssumption DEF Init
<1>5. TypeOK
  BY <1>1, <1>2, <1>3, <1>4 DEF Init, TypeOK
<1>6. FlagMatchesRow
  BY <1>2, NamesAssumption DEF FlagMatchesRow
<1>7. DialogOK /\ Spinner /\ Marked
  BY <1>1, <1>3 DEF Init, DialogOK, Spinner, Marked
<1>8. BoxShowsFilter /\ CalmOK /\ PanelOK
  BY <1>1, <1>2, NamesAssumption DEF Init, BoxShowsFilter, CalmOK, LeafSelected, Nodes, PanelOK
<1> QED
  BY <1>5, <1>6, <1>7, <1>8 DEF IInv

LEMMA IInvStep == IInv /\ [Next]_vars => IInv'
<1> SUFFICES ASSUME IInv, [Next]_vars PROVE IInv'
  OBVIOUS
<1>0. TypeOK /\ DialogOK /\ Spinner /\ FlagMatchesRow /\ Marked /\ BoxShowsFilter
      /\ CalmOK /\ PanelOK
  BY DEF IInv
<1>1. grid' \in Grids /\ FlagMatchesRow'
  BY <1>0, FlagStep
<1>2. tree' \in Trees /\ Marked'
  BY <1>0, MarkedStep
<1>3. PanelTyped' /\ PanelOK'
  BY <1>0, <1>1, <1>2, PanelStep
<1>4. /\ \A q \in pending' : WellFormed(q)
      /\ issued' \in 0..MaxRequests /\ loading' \in BOOLEAN /\ Spinner'
  BY <1>0, RequestStep
<1>5. /\ search' \in Texts \cup {None} /\ page' \in {"view", "login"}
      /\ dialog' \in BOOLEAN /\ calm' \in BOOLEAN /\ reloaded' \in BOOLEAN
  BY <1>0, OtherTypes
<1>6. TypeOK'
  BY <1>1, <1>2, <1>3, <1>4, <1>5 DEF TypeOK, PanelTyped, WellFormed
<1>7. DialogOK' /\ BoxShowsFilter' /\ CalmOK'
  BY <1>0, DialogStep, BoxStep, CalmStep
<1> QED
  BY <1>1, <1>2, <1>3, <1>4, <1>6, <1>7 DEF IInv

\* The invariant holds in every state.
THEOREM InductiveInvariant == Spec => []IInv
BY InitIInv, IInvStep, PTL DEF Spec

\* The store, the page and the panel keep their types.
THEOREM TypeCorrect == Spec => []TypeOK
BY InductiveInvariant, PTL DEF IInv

\* The spinner turns only while a request is under way.
THEOREM SpinnerHasItsCause == Spec => []SpinnerHasCause
<1>1. IInv => SpinnerHasCause
  BY DEF IInv, TypeOK, Spinner, SpinnerHasCause
<1> QED
  BY <1>1, InductiveInvariant, PTL

\* The highlighted row is the selected one, and one of the rows there are.
THEOREM FlagsMatch == Spec => []FlagMatchesRow
BY InductiveInvariant, PTL DEF IInv

\* The highlighted node is the selected one, but for a failed load of folders.
THEOREM NodeMarked == Spec => []MarkedIsSelected
<1>1. IInv => MarkedIsSelected
  BY DEF IInv, TypeOK, Marked, MarkedIsSelected
<1> QED
  BY <1>1, InductiveInvariant, PTL

\* The search box and the store's filter agree.
THEOREM BoxAgrees == Spec => []BoxShowsFilter
BY InductiveInvariant, PTL DEF IInv

\* Without crossing requests, the rows are those of the folder selected.
THEOREM GridIsOfFolder == Spec => []GridShowsFolder
<1>1. IInv => GridShowsFolder
  BY DEF IInv, TypeOK, CalmOK, GridShowsFolder
<1> QED
  BY <1>1, InductiveInvariant, PTL

\* Without a selection that changes under a request, the panel's details are
\* those of the file selected.
THEOREM PanelIsOfFile == Spec => []PanelMatchesSelection
<1>1. IInv => PanelMatchesSelection
  BY DEF IInv, TypeOK, PanelOK, PanelMatchesSelection
<1> QED
  BY <1>1, InductiveInvariant, PTL
=============================================================================
