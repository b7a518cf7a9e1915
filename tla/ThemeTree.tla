----------------------------- MODULE ThemeTree -----------------------------
(***************************************************************************)
(* The theme tree of theme.cc as a heap: a sequence of nodes in the order  *)
(* of their allocation, the children of a branch given by their places.    *)
(* Node 1 is base_tree.  A path is the sequence of names that              *)
(* split_theme_path makes of a dotted string.                              *)
(***************************************************************************)
EXTENDS Integers, SequencesExt

CONSTANTS
    Null,    \* the pointer 0
    Garbage  \* a pointer that malloc left uninitialised

Node(name, type) ==
    [name |-> name, type |-> type, children |-> <<>>, value |-> Null, live |-> TRUE]

theme_tree_init == <<Node(Null, "branch")>>

\* For each node its first child of that name; 0 if there is none.
Child(heap, name) ==
    [node \in 0..Len(heap) |->
        IF node = 0 THEN 0
        ELSE LET named == {c \in Range(heap[node].children) : heap[c].name = name}
             IN IF named = {} THEN 0 ELSE Min(named)]

\* The node at the path; 0 if the loop never finds it and does not return.
get_theme_node(heap, root, path) ==
    LET at[i \in 0..Len(path)] == IF i = 0 THEN root ELSE Child(heap, path[i])[at[i - 1]]
    IN at[Len(path)]

Parent(heap, path) == get_theme_node(heap, 1, Front(path))

register_theme_node(heap, path, type) ==
    [Append(heap, Node(Last(path), type))
        EXCEPT ![Parent(heap, path)].children = Append(@, Len(heap) + 1)]

set_node_rgb(heap, root, path, value) ==
    [heap EXCEPT ![get_theme_node(heap, root, path)].value = value]

\* The nodes of a tree, each before its children: the order of duplicate_node.
RECURSIVE Preorder(_, _)
Preorder(heap, node) ==
    <<node>> \o FlattenSeq([i \in DOMAIN heap[node].children |->
                                Preorder(heap, heap[node].children[i])])


\* A copy of the whole tree at the end of the heap.  The name of a node
\* without one is not written: unset is what malloc left there.
duplicate_node(heap, node, unset) ==
    LET nodes   == Preorder(heap, node)
        copy(n) == Len(heap) + SelectInSeq(nodes, LAMBDA m : m = n)
    IN heap \o [k \in DOMAIN nodes |->
                    [heap[nodes[k]] EXCEPT
                        !.name = IF @ = Null THEN unset ELSE @,
                        !.children = [i \in DOMAIN @ |-> copy(@[i])]]]

\* free_node with free_orphaned: is every pointer it passes to free valid?
FreesValid(heap, node) ==
    \A n \in Range(Preorder(heap, node)) : heap[n].live /\ heap[n].name # Garbage

free_node(heap, node) ==
    LET nodes == Range(Preorder(heap, node))
    IN [n \in DOMAIN heap |-> [heap[n] EXCEPT !.live = @ /\ n \notin nodes]]
=============================================================================
