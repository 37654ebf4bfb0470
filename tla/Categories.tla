------------------------------ MODULE Categories ------------------------------
(***************************************************************************)
(* The category tree of a tenant (CategoryService): parents are set by     *)
(* requests that first walk up from the new parent, one look-up at a time, *)
(* and then write without a transaction around both.                       *)
(***************************************************************************)
EXTENDS Naturals

CONSTANTS
    Category,
    Editor,      \* requests
    Unmade,      \* there is no such row
    Top,         \* no parent
    NoEdit

Edits ==
    [op : {"create"}, id : Category, to : Category] \cup [op : {"count", "delete"}, id : Category]
    \cup [op : {"move"}, id : Category, to : Category, at : Category \cup {Top}]
ASSUME CategoryAssumption == {Unmade, Top, NoEdit} \cap Category = {} /\ Unmade # Top /\ NoEdit \notin Edits

VARIABLES
    parentOf,   \* categories.parent_id, or that there is no row
    shown,      \* categories.is_active
    filed,      \* categories with products
    editor,     \* requests in progress: what they found and where their walk stands
    twoMoves    \* two requests to move a category were in progress at once

categoryVars == <<parentOf, shown, filed, editor, twoMoves>>

CategoriesInit ==
    /\ parentOf = [c \in Category |-> Unmade]
    /\ shown = {} /\ filed = {} /\ twoMoves = FALSE
    /\ editor = [e \in Editor |-> NoEdit]

ExistingCategories == {c \in Category : parentOf[c] # Unmade}
Children(c) == {d \in ExistingCategories : parentOf[d] = c}
Editing(e, op) == editor[e] # NoEdit /\ editor[e].op = op
(* Ids are random: none is given again while a request may still hold it. *)
HeldBy(e) == IF editor[e] = NoEdit THEN {} ELSE {editor[e][f] : f \in DOMAIN editor[e] \ {"op"}}
FreshCategory(c) == parentOf[c] = Unmade /\ \A e \in Editor : c \notin HeldBy(e)
FinishEdit(e) == editor' = [editor EXCEPT ![e] = NoEdit]

-----------------------------------------------------------------------------
(* Bound: the last requests to begin (here, and those of one statement below) are the first two moves
   that overlap. *)
MayBegin(e) == editor[e] = NoEdit /\ ~twoMoves

(* create: the parent is looked up, then the row is inserted if the foreign key still holds. *)
FindParent(e, c, p) ==
    /\ MayBegin(e) /\ FreshCategory(c)
    /\ p \in ExistingCategories
    /\ editor' = [editor EXCEPT ![e] = [op |-> "create", id |-> c, to |-> p]]
    /\ UNCHANGED <<parentOf, shown, filed, twoMoves>>
InsertUnder(c, p, isActive) ==
    /\ parentOf[c] = Unmade
    /\ parentOf' = [parentOf EXCEPT ![c] = p]
    /\ shown' = IF isActive THEN shown \cup {c} ELSE shown
    /\ UNCHANGED <<filed, twoMoves>>
CreateTop(c, isActive) == ~twoMoves /\ FreshCategory(c) /\ InsertUnder(c, Top, isActive) /\ UNCHANGED editor
InsertCategory(e, isActive) ==
    /\ Editing(e, "create") /\ editor[e].to \in ExistingCategories
    /\ InsertUnder(editor[e].id, editor[e].to, isActive) /\ FinishEdit(e)

(* update with a parent: both are looked up, then wouldCreateCycle climbs from the new parent. *)
FindForMove(e, c, p) ==
    /\ MayBegin(e) /\ {c, p} \subseteq ExistingCategories /\ c # p
    /\ editor' = [editor EXCEPT ![e] = [op |-> "move", id |-> c, to |-> p, at |-> p]]
    /\ twoMoves' = (twoMoves \/ \E f \in Editor : Editing(f, "move"))
    /\ UNCHANGED <<parentOf, shown, filed>>
Climb(e) ==
    /\ Editing(e, "move") /\ editor[e].at \in Category \ {editor[e].id}
    /\ editor' = [editor EXCEPT ![e].at =
            IF parentOf[editor[e].at] \in Category THEN parentOf[editor[e].at] ELSE Top]
    /\ UNCHANGED <<parentOf, shown, filed, twoMoves>>
UpdateAtOnce(e) ==   \* a bug: the walk ends after one look-up
    /\ Editing(e, "move") /\ editor[e].at # editor[e].id
    /\ {editor[e].id, editor[e].to} \subseteq ExistingCategories
    /\ parentOf' = [parentOf EXCEPT ![editor[e].id] = editor[e].to]
    /\ FinishEdit(e) /\ UNCHANGED <<shown, filed, twoMoves>>
UpdateParent(e) ==
    /\ Editing(e, "move") /\ editor[e].at = Top
    /\ {editor[e].id, editor[e].to} \subseteq ExistingCategories
    /\ parentOf' = [parentOf EXCEPT ![editor[e].id] = editor[e].to]
    /\ FinishEdit(e) /\ UNCHANGED <<shown, filed, twoMoves>>

(* update without a parent, or with parentId null. *)
MoveToTop(c) ==
    /\ ~twoMoves /\ c \in ExistingCategories
    /\ parentOf' = [parentOf EXCEPT ![c] = Top]
    /\ UNCHANGED <<shown, filed, editor, twoMoves>>
SetActive(c) ==
    /\ ~twoMoves /\ c \in ExistingCategories
    /\ shown' = (IF c \in shown THEN shown \ {c} ELSE shown \cup {c})
    /\ UNCHANGED <<parentOf, filed, editor, twoMoves>>

(* delete: children, then products are counted; the row's children become top categories
   (ON DELETE SET NULL) and its products lose it (ON DELETE CASCADE). *)
HasNoChildren(e, c) ==
    /\ MayBegin(e) /\ c \in ExistingCategories /\ Children(c) = {}
    /\ editor' = [editor EXCEPT ![e] = [op |-> "count", id |-> c]]
    /\ UNCHANGED <<parentOf, shown, filed, twoMoves>>
HasNoProducts(e) ==
    /\ Editing(e, "count") /\ editor[e].id \notin filed
    /\ editor' = [editor EXCEPT ![e].op = "delete"]
    /\ UNCHANGED <<parentOf, shown, filed, twoMoves>>
OrphanChildren(e) ==   \* a bug: the children keep the id of the deleted row
    /\ Editing(e, "delete") /\ editor[e].id \in ExistingCategories
    /\ parentOf' = [parentOf EXCEPT ![editor[e].id] = Unmade]
    /\ shown' = shown \ {editor[e].id} /\ filed' = filed \ {editor[e].id}
    /\ FinishEdit(e) /\ UNCHANGED twoMoves
DeleteCategory(e) ==
    LET c == editor[e].id
    IN /\ Editing(e, "delete") /\ c \in ExistingCategories
       /\ parentOf' = [d \in Category |-> IF d = c THEN Unmade ELSE IF d \in Children(c) THEN Top ELSE parentOf[d]]
       /\ shown' = shown \ {c} /\ filed' = filed \ {c}
       /\ FinishEdit(e) /\ UNCHANGED twoMoves

(* The request is refused (a cycle, products, a missing row or foreign key) or dies. *)
GiveUpEdit(e) == editor[e] # NoEdit /\ FinishEdit(e) /\ UNCHANGED <<parentOf, shown, filed, twoMoves>>

(* ProductRepository.setCategories files a product under the category, or takes the last one out.
   Bound: one category at a time has products. *)
FileProducts(c) ==
    /\ ~twoMoves /\ c \in ExistingCategories /\ filed \subseteq {c}
    /\ filed' = (IF c \in filed THEN filed \ {c} ELSE filed \cup {c})
    /\ UNCHANGED <<parentOf, shown, editor, twoMoves>>

CategoriesNext ==
    \/ \E c \in Category : \/ \E b \in BOOLEAN : CreateTop(c, b)
                           \/ MoveToTop(c) \/ SetActive(c) \/ FileProducts(c)
    \/ \E e \in Editor : \/ \E c, p \in Category : FindParent(e, c, p) \/ FindForMove(e, c, p)
                         \/ \E c \in Category : HasNoChildren(e, c)
                         \/ \E b \in BOOLEAN : InsertCategory(e, b)
                         \/ Climb(e) \/ UpdateParent(e) \/ HasNoProducts(e)
                         \/ DeleteCategory(e) \/ GiveUpEdit(e)

CategoriesSpec == CategoriesInit /\ [][CategoriesNext]_categoryVars

-----------------------------------------------------------------------------
(* getTree: an active category hangs under its parent if that one is active too, else it is a root;
   what is answered is what can be reached from the roots. *)
NodesOnTop == {c \in shown : parentOf[c] \notin Category}
TreeRoots == {c \in shown : parentOf[c] \notin shown}
Tree ==
    {c \in shown : \A S \in SUBSET shown : TreeRoots \subseteq S /\ (\A d \in shown : parentOf[d] \in S => d \in S) => c \in S}

(* A set of categories whose parents are all in the set holds a cycle. *)
Acyclic == \A S \in SUBSET ExistingCategories : S # {} => \E c \in S : parentOf[c] \notin S

(* Rows, switches and requests have the values of the schema; a parent is a row (the foreign key). *)
CategoriesTypeOK ==
    /\ parentOf \in [Category -> Category \cup {Unmade, Top}]
    /\ \A c \in ExistingCategories : parentOf[c] \in ExistingCategories \cup {Top}
    /\ shown \subseteq ExistingCategories /\ filed \subseteq ExistingCategories /\ twoMoves \in BOOLEAN
    /\ editor \in [Editor -> Edits \cup {NoEdit}]

(* "Category hierarchy would create a cycle" (categories.service.js:77): whatever is created, deleted
   or switched while a request walks, only two overlapping moves can close a circle. *)
OnlyTwoMovesMakeACycle == twoMoves \/ Acyclic

(* The shop's tree leaves out no active category, also when a parent is switched off or deleted. *)
EverybodyIsInTheTree == Acyclic => Tree = shown

(* What the message promises, with two moves at once: the check and the write are two statements. *)
NeverACycle == Acyclic

=============================================================================
