------------------------------ MODULE RepoView ------------------------------
(***************************************************************************)
(* The page a user works with: the folder tree, the grid of files, the     *)
(* toolbar and the details panel, over one redux store.                    *)
(*                                                                         *)
(* Everything runs in the browser's one thread: an action is a user event  *)
(* or the answer of a request, with all the dispatches and the rendering   *)
(* it causes.  The concurrency is that of the requests: nothing keeps the  *)
(* user from starting one while others are under way, nothing cancels or   *)
(* orders them, and every answer works on the store as it finds it.        *)
(*                                                                         *)
(* A row of the grid is known by the request that brought it, so that two  *)
(* rows of one name, or the same file listed twice, are different objects. *)
(* What the toasts say is in Answers.                                      *)
(***************************************************************************)
EXTENDS Naturals, FiniteSets

CONSTANTS
    Folders,      \* the leaves of the tree
    Root,         \* its root, which bears the name of the repository
    Files,        \* file names
    Texts,        \* texts one searches for
    Matches,      \* for each text, the names that contain it
    Module,       \* the class NormalModule, which gridReducer imports from webpack
    ModuleName,   \* the property "name" of that class
    None,         \* null and undefined
    MaxRequests,  \* bound on the store's requests in a behaviour
    MaxInfos      \* bound on the panel's requests under way at a time

ASSUME BoundsAssumption == MaxRequests \in Nat \ {0} /\ MaxInfos \in Nat \ {0}
ASSUME MatchesAssumption == Matches \in [Texts -> SUBSET Files]

VARIABLES
    tree,     \* treeReducer: the selected node, the nodes flagged as selected,
              \* whether there are nodes, and whether the root shows its leaves
    grid,     \* gridReducer: the selected row, the rows, the rows flagged, the
              \* filter
    loading,  \* treeViewReducer: the spinner
    pending,  \* the requests of the store's actions that are under way
    issued,   \* how many there have been
    page,     \* the route: the view or the login form
    dialog,   \* the browser's file dialog is open
    search,   \* the text in the search box
    panel,    \* the details panel: open or not, and the file it shows
    infos,    \* the requests of the panel that are under way
    calm,     \* history: no other folder's request crossed the last listing
    panelCalm,\* history: the selection did not change under a panel's request
    reloaded  \* history: no load of the folders has failed while a node was
              \* selected, or one has succeeded since

vars == <<tree, grid, loading, pending, issued, page, dialog, search, panel,
          infos, calm, panelCalm, reloaded>>
history == <<calm, panelCalm, reloaded>>

Nodes == Folders \cup {Root}
Ids == 1..MaxRequests
Rows == [id : Ids, folder : Nodes, name : Files]

\* The nodes, the rows, the class and nothing are different things.
ASSUME NamesAssumption ==
    /\ Root \notin Folders /\ None \notin Nodes \cup Files
    /\ Module \notin Rows /\ None \notin Rows /\ Module # None /\ ModuleName # None

Trees == [row : Nodes \cup {None}, marked : SUBSET Nodes, filled : BOOLEAN, open : BOOLEAN]
Grids == [row : Rows \cup {Module, None}, data : SUBSET Rows, flagged : SUBSET Rows,
          filter : Texts \cup {None}]
Kinds == {"folders", "list", "upload", "download", "reindex"}
StoreRequests == [id : Ids, kind : Kinds, folder : Nodes \cup {None}, name : Files \cup {None}]

TypeOK ==
    /\ tree \in Trees
    /\ grid \in Grids
    /\ search \in Texts \cup {None}
    /\ loading \in BOOLEAN
    /\ pending \subseteq StoreRequests
    /\ \A q \in pending :
          /\ q.kind \in {"list", "upload"} => q.folder \in Folders
          /\ q.kind = "download" => q.folder \in Nodes
          /\ q.kind = "upload" => q.name \in Files
    /\ issued \in 0..MaxRequests
    /\ page \in {"view", "login"}
    /\ dialog \in BOOLEAN
    /\ panel \in [open : BOOLEAN, info : (Nodes \X Files) \cup {None}]
    /\ infos \subseteq [id : 1..MaxInfos, of : Nodes \X (Files \cup {ModuleName})]
    /\ calm \in BOOLEAN /\ panelCalm \in BOOLEAN /\ reloaded \in BOOLEAN

----------------------------------------------------------------------------
(* treeReducer and gridReducer.                                            *)

\* The nodes of an answer are new objects, without flags.
TreeGetRowsAll == [row |-> None, marked |-> {}, filled |-> TRUE, open |-> FALSE]

TreeSelectRow(t, f) == [t EXCEPT !.row = f]

Deselected(g) == [g EXCEPT !.flagged = @ \ {g.row}]

\* Variants: the listing is added to the rows there are; the row stays selected.
GridDataAdd(g, rows) == [Deselected(g) EXCEPT !.row = None, !.data = @ \cup rows]
GridDataKeepRow(g, rows) == [Deselected(g) EXCEPT !.data = rows]

GridDataLoad(g, rows) == [Deselected(g) EXCEPT !.row = None, !.data = rows]

GridSelectRowClean(g) == [Deselected(g) EXCEPT !.row = None]

\* Variant: the flag of the row selected before is not taken away.
GridSelectRowToo(g, x) == [g EXCEPT !.row = x, !.flagged = @ \cup {x}]

GridSelectRow(g, x) == [Deselected(g) EXCEPT !.row = x, !.flagged = @ \cup {x}]

GridInsertRow(g, x) == [Deselected(g) EXCEPT !.data = @ \cup {x}]

GridRefreshRows(g) == [Deselected(g) EXCEPT !.row = Module]

GridFilteredRows(g, text) == [g EXCEPT !.filter = text]

\* The rows that Grid draws.
Drawn(g) == {x \in g.data : g.filter = None \/ x.name \in Matches[g.filter]}

----------------------------------------------------------------------------
(* Requests.                                                               *)

\* An action of the store starts a request; the spinner goes on.
Send(kind, f, n) ==
    /\ issued < MaxRequests
    /\ issued' = issued + 1
    /\ pending' = pending \cup {[id |-> issued + 1, kind |-> kind, folder |-> f, name |-> n]}
    /\ loading' = TRUE

\* Its promise is settled; the spinner goes off.
Settled(q) ==
    /\ pending' = pending \ {q}
    /\ loading' = FALSE
    /\ UNCHANGED issued

NoRequest == UNCHANGED <<loading, pending, issued>>

\* Requests for another folder, whose answers may change the rows, are under way.
Crossed(f) == \E q \in pending : q.kind \in {"list", "upload"} /\ q.folder # f

NameOf(x) == IF x = None THEN None ELSE IF x = Module THEN ModuleName ELSE x.name

\* The properties folderId and fileId of the panel.
Selection(t, g) == <<t.row, NameOf(g.row)>>
Complete(sel) == sel[1] # None /\ sel[2] # None

\* Identifiers are handed out smallest first.
FreeId(i) == /\ i \notin {q.id : q \in infos}
             /\ 1..(i - 1) \subseteq {q.id : q \in infos}

\* The panel's effect, for the selection sel: it asks for the details, and
\* meanwhile shows what it showed, or it shows nothing.
Effect(sel, shown) ==
    /\ panelCalm' = (infos = {})
    /\ \/ /\ Complete(sel)
          /\ \E i \in 1..MaxInfos :
                FreeId(i) /\ infos' = infos \cup {[id |-> i, of |-> sel]}
          /\ panel' = [open |-> TRUE, info |-> shown]
       \/ /\ ~Complete(sel)
          /\ panel' = [open |-> TRUE, info |-> None]
          /\ UNCHANGED infos

\* Variant: the effect depends on fileId alone.
RenderFileOnly(t, g) ==
    /\ tree' = t
    /\ grid' = g
    /\ IF panel.open /\ NameOf(g.row) # NameOf(grid.row)
       THEN Effect(Selection(t, g), panel.info)
       ELSE UNCHANGED <<panel, infos, panelCalm>>

\* The store's new tree and grid are rendered: the effect runs when one of the
\* panel's properties has changed.
Render(t, g) ==
    /\ tree' = t
    /\ grid' = g
    /\ IF panel.open /\ Selection(t, g) # Selection(tree, grid)
       THEN Effect(Selection(t, g), panel.info)
       ELSE UNCHANGED <<panel, infos, panelCalm>>

\* Nothing rendered differently.
SameView == UNCHANGED <<tree, grid, panel, infos, panelCalm>>

----------------------------------------------------------------------------
(* What the user does on the page.  An open file dialog keeps the user from *)
(* the rest of the page, but not the answers.                               *)

OnView == page = "view" /\ ~dialog

\* A leaf is selected: the toolbar's buttons for a folder are enabled.
LeafSelected == tree.row \in Folders

\* The nodes that TreeNode draws.
Reachable == IF ~tree.filled THEN {} ELSE IF tree.open THEN Nodes ELSE {Root}

Init ==
    /\ tree = [row |-> None, marked |-> {}, filled |-> FALSE, open |-> FALSE]
    /\ grid = [row |-> None, data |-> {}, flagged |-> {}, filter |-> None]
    /\ issued = 1
    /\ pending = {[id |-> 1, kind |-> "folders", folder |-> None, name |-> None]}
    /\ loading = TRUE
    /\ page = "view"
    /\ dialog = FALSE
    /\ search = None
    /\ panel = [open |-> FALSE, info |-> None]
    /\ infos = {}
    /\ calm = TRUE /\ panelCalm = TRUE /\ reloaded = TRUE

\* Variants: the node selected before keeps its flag; the search is not cleared.
SelectNodeToo(f) ==
    /\ OnView /\ f \in Reachable /\ f \notin tree.marked
    /\ IF f = Root THEN NoRequest /\ UNCHANGED calm
                   ELSE Send("list", f, None) /\ calm' = ~Crossed(f)
    /\ Render(TreeSelectRow([tree EXCEPT !.marked = @ \cup {f}], f),
              GridFilteredRows(GridSelectRowClean(grid), None))
    /\ search' = None
    /\ UNCHANGED <<page, dialog, reloaded>>

SelectNodeSearching(f) ==
    /\ OnView /\ f \in Reachable /\ f \notin tree.marked
    /\ IF f = Root THEN NoRequest /\ UNCHANGED calm
                   ELSE Send("list", f, None) /\ calm' = ~Crossed(f)
    /\ Render(TreeSelectRow([tree EXCEPT !.marked = (@ \cup {f}) \ {tree.row}], f),
              GridSelectRowClean(grid))
    /\ UNCHANGED <<page, dialog, search, reloaded>>

\* onSelecRow and onSelectNodeTree: a node whose flag is not up is selected.
SelectNode(f) ==
    /\ OnView /\ f \in Reachable /\ f \notin tree.marked
    /\ IF f = Root THEN NoRequest /\ UNCHANGED calm
                   ELSE Send("list", f, None) /\ calm' = ~Crossed(f)
    /\ Render(TreeSelectRow([tree EXCEPT !.marked = (@ \cup {f}) \ {tree.row}], f),
              GridFilteredRows(GridSelectRowClean(grid), None))
    /\ search' = None
    /\ UNCHANGED <<page, dialog, reloaded>>

\* onExpand: the root is unfolded or folded; the selection stays.
Expand ==
    /\ OnView /\ tree.filled /\ Folders # {}
    /\ Render([tree EXCEPT !.open = ~@], grid)
    /\ NoRequest
    /\ UNCHANGED <<page, dialog, search, calm, reloaded>>

\* onInputChange: the box can be written in while a leaf is selected.
Search(text) ==
    /\ OnView /\ LeafSelected
    /\ Render(tree, GridFilteredRows(grid, text))
    /\ search' = text
    /\ NoRequest
    /\ UNCHANGED <<page, dialog, calm, reloaded>>

Refresh ==
    /\ OnView /\ LeafSelected
    /\ Send("list", tree.row, None)
    /\ calm' = ~Crossed(tree.row)
    /\ SameView
    /\ UNCHANGED <<page, dialog, search, reloaded>>

ClickRow(x) ==
    /\ OnView
    /\ Render(tree, GridSelectRow(grid, x))
    /\ NoRequest
    /\ UNCHANGED <<page, dialog, search, calm, reloaded>>

\* With no node selected, selectedNodeTree.name throws and nothing is sent.
Download ==
    /\ OnView /\ grid.row # None /\ tree.row # None
    /\ Send("download", tree.row, None)
    /\ SameView
    /\ UNCHANGED <<page, dialog, search, calm, reloaded>>

Reindex ==
    /\ OnView
    /\ Send("reindex", None, None)
    /\ SameView
    /\ UNCHANGED <<page, dialog, search, calm, reloaded>>

OpenDialog ==
    /\ OnView /\ LeafSelected
    /\ dialog' = TRUE
    /\ NoRequest /\ SameView
    /\ UNCHANGED <<page, search, calm, reloaded>>

\* Variant: the null guard the other uses of selectedNodeTree have.
PickFileOptional(n) ==
    /\ dialog /\ dialog' = FALSE
    /\ Send("upload", tree.row, n)
    /\ calm' = (calm /\ ~Crossed(tree.row))
    /\ SameView
    /\ UNCHANGED <<page, search, reloaded>>

\* handleChange reads the selected node when the dialog closes.  The answer
\* of a load of the folders may have cleared it: then .name throws.
PickFile(n) ==
    /\ dialog /\ dialog' = FALSE
    /\ IF tree.row = None
       THEN NoRequest /\ UNCHANGED calm
       ELSE Send("upload", tree.row, n) /\ calm' = (calm /\ ~Crossed(tree.row))
    /\ SameView
    /\ UNCHANGED <<page, search, reloaded>>

\* A cancelled dialog is no event, or a change event without a file.
CancelDialog ==
    /\ dialog /\ dialog' = FALSE
    /\ \/ SameView
       \/ tree.row # None /\ Render(tree, GridRefreshRows(grid))
    /\ NoRequest
    /\ UNCHANGED <<page, search, calm, reloaded>>

\* A panel that opens runs its effect; one that closes is unmounted, and the
\* answers it still waits for change nothing.
OpenPanel ==
    /\ OnView /\ ~panel.open
    /\ Effect(Selection(tree, grid), None)
    /\ NoRequest
    /\ UNCHANGED <<tree, grid, page, dialog, search, calm, reloaded>>

Unmounted ==
    /\ panel' = [open |-> FALSE, info |-> None]
    /\ infos' = {}
    /\ panelCalm' = TRUE

ClosePanel ==
    /\ OnView /\ panel.open
    /\ Unmounted
    /\ NoRequest
    /\ UNCHANGED <<tree, grid, page, dialog, search, calm, reloaded>>

\* The store outlives the page, with its filter; the box does not.  The bound leaves a request for the way back.
GoLogin ==
    /\ OnView /\ issued < MaxRequests
    /\ page' = "login"
    /\ search' = None
    /\ Unmounted
    /\ NoRequest
    /\ UNCHANGED <<tree, grid, dialog, calm, reloaded>>

\* The tree is mounted and loads the folders.
GoHome ==
    /\ page = "login" /\ page' = "view"
    /\ Send("folders", None, None)
    /\ SameView
    /\ UNCHANGED <<dialog, search, calm, reloaded>>

----------------------------------------------------------------------------
(* Answers.                                                                *)

Answered(q, kind) == q.kind = kind /\ Settled(q)

FoldersAnswered(q) ==
    /\ Answered(q, "folders")
    /\ Render(TreeGetRowsAll, grid)
    /\ reloaded' = TRUE
    /\ UNCHANGED <<page, dialog, search, calm>>

FoldersFailed(q) ==
    /\ Answered(q, "folders")
    /\ Render(TreeSelectRow(tree, None), grid)
    /\ reloaded' = (reloaded /\ tree.row = None)
    /\ UNCHANGED <<page, dialog, search, calm>>

\* names: what the folder held when the server read it.
ListAnswered(q, names) ==
    /\ Answered(q, "list")
    /\ Render(tree, GridDataLoad(grid, [id : {q.id}, folder : {q.folder}, name : names]))
    /\ UNCHANGED <<page, dialog, search, calm, reloaded>>

\* Variant: the spinner is turned off in then, not in finally.
ListFailedSpinning(q) ==
    /\ q.kind = "list"
    /\ pending' = pending \ {q}
    /\ calm' = FALSE
    /\ SameView
    /\ UNCHANGED <<loading, issued, page, dialog, search, reloaded>>

ListFailed(q) ==
    /\ Answered(q, "list")
    /\ calm' = FALSE
    /\ SameView
    /\ UNCHANGED <<page, dialog, search, reloaded>>

\* The row of the new file goes to whatever rows there are by now.
UploadAnswered(q) ==
    /\ Answered(q, "upload")
    /\ LET x == [id |-> q.id, folder |-> q.folder, name |-> q.name]
       IN  Render(tree, GridRefreshRows(GridInsertRow(grid, x)))
    /\ UNCHANGED <<page, dialog, search, calm, reloaded>>

UploadFailed(q) ==
    /\ Answered(q, "upload")
    /\ SameView
    /\ UNCHANGED <<page, dialog, search, calm, reloaded>>

\* A download is saved by the browser, a reindex reported: or they fail.
OtherAnswered(q) ==
    /\ \E kind \in {"download", "reindex"} : Answered(q, kind)
    /\ SameView
    /\ UNCHANGED <<page, dialog, search, calm, reloaded>>

\* The panel's own requests.  No file has the name of the class.
InfoAnswered(q) ==
    /\ q.of[2] # ModuleName
    /\ infos' = infos \ {q}
    /\ panel' = [panel EXCEPT !.info = q.of]
    /\ NoRequest
    /\ UNCHANGED <<tree, grid, page, dialog, search, history>>

InfoFailed(q) ==
    /\ infos' = infos \ {q}
    /\ panel' = [panel EXCEPT !.info = None]
    /\ NoRequest
    /\ UNCHANGED <<tree, grid, page, dialog, search, history>>

----------------------------------------------------------------------------
UserActs ==
    \/ \E f \in Nodes : SelectNode(f)
    \/ Expand
    \/ \E text \in Texts \cup {None} : Search(text)
    \/ Refresh
    \/ \E x \in Drawn(grid) : ClickRow(x)
    \/ Download
    \/ Reindex
    \/ OpenDialog
    \/ \E n \in Files : PickFile(n)
    \/ CancelDialog
    \/ OpenPanel
    \/ ClosePanel
    \/ GoLogin
    \/ GoHome

AnswerArrives ==
    \/ \E q \in pending :
          \/ FoldersAnswered(q)
          \/ FoldersFailed(q)
          \/ \E names \in SUBSET Files : ListAnswered(q, names)
          \/ ListFailed(q)
          \/ UploadAnswered(q)
          \/ UploadFailed(q)
          \/ OtherAnswered(q)
    \/ \E q \in infos : InfoAnswered(q) \/ InfoFailed(q)

Next == UserActs \/ AnswerArrives

Spec == Init /\ [][Next]_vars

----------------------------------------------------------------------------
(* Properties.                                                             *)

\* The spinner never turns without a request under way: whichever order the
\* dispatches of overlapping actions come in, it is not left on for good.
\* (The converse does not hold: it is a flag, and the first answer puts it out.)
SpinnerHasCause == loading => pending # {}

\* The highlighted rows are the selected row and nothing else, although the
\* flags live in the row objects and the selection in the store, across
\* listings that replace the rows and uploads that add to them; and a row that
\* is selected is one of the rows shown.
FlagMatchesRow == /\ grid.flagged = {grid.row} \cap Rows
                  /\ grid.flagged \subseteq grid.data

\* Once the listings have come in, the rows are those of the folder selected in
\* the tree, provided that the folder's last listing did not fail and no other
\* folder's listing or upload was under way when it, or a later upload, was
\* sent: then no late answer can replace the rows or add to them.
GridShowsFolder ==
    calm /\ LeafSelected /\ (\A q \in pending : q.kind # "list") =>
        \A x \in grid.data : x.folder = tree.row

\* The highlighted node is the selected one, unless a load of the folders
\* failed when one was selected: the failure clears the selection and leaves
\* the node's flag, so that the node can no longer be selected.
MarkedIsSelected == reloaded => tree.marked = {tree.row} \ {None}

\* The search box shows the filter that hides rows, as soon as a node is selected
\* and the load of the folders that clears the selection is over: the store
\* keeps the filter while the user signs in, and the box comes back empty.
BoxShowsFilter ==
    page = "view" /\ tree.row # None /\ (\A q \in pending : q.kind # "folders") =>
        search = grid.filter

\* When nothing is under way for the panel, it shows the details of the file
\* that is selected or none, provided no earlier request of it was still under
\* way when the selection changed last: nothing cancels or orders them.
PanelMatchesSelection ==
    panel.open /\ panelCalm /\ infos = {} =>
        panel.info \in {None, Selection(tree, grid)}
=============================================================================
