------------------------------ MODULE TemplateForest ------------------------------
(***************************************************************************)
(* What of the enrollment graph is written into a template                 *)
(* (gf3258_select_persistent_relations of src/src/template_persistence.rs) *)
(* and what the decoder makes of it when a print is opened again           *)
(* (gf3258_decode_raw_template of src/src/template_decode.rs).             *)
(*                                                                         *)
(* Not every relation is kept: a depth-first walk over the strong ones     *)
(* picks one per sample, weak ones fill the gaps.  A step is one sample    *)
(* pushed or popped, one root or one pass over the rest.  The samples' own *)
(* bytes and the fixed sections carry no state and are left out.           *)
(***************************************************************************)
EXTENDS EnrollmentGraph

VARIABLES stage,        \* "enrolling", "walking", "saved"
          root,         \* the root being walked from; -1 between two roots
          stack,
          current,      \* the sample popped last; -1 when there is none
          group_root,   \* per sample; -1 while it has none
          parent,
          relations     \* the 0x96 records: index, value and transform

walk == <<root, stack, current, group_root, parent>>
forestVars == <<vars, stage, walk, relations>>

-----------------------------------------------------------------------------
(* The triangular index of a pair, and the decoder's way back.             *)

\* variant: the row base of the next row
NextRowIndex(p) == (p[1] * (p[1] + 1)) \div 2 + p[2]

Index(p) == (p[1] * (p[1] - 1)) \div 2 + p[2]

RelationIndices(index) ==
  {p \in (1..count - 1) \X (0..count - 1) :
     LET base == (p[1] * (p[1] - 1)) \div 2
         next == ((p[1] + 1) * p[1]) \div 2
     IN base =< index /\ index < next /\ p[2] = index - base}

-----------------------------------------------------------------------------
(* The walk.                                                               *)

Kept == 0..count - 1
Free == {s \in Kept : group_root[s] = -1}

Strong(s, t) == s # t /\ Value(s, t) > 2
Weak(s, t)   == s # t /\ Value(s, t) >= 0

\* variant: the parent is the root, not the sample that led here
AssignToRoot(S, up) ==
  /\ group_root' = [s \in Samples |-> IF s \in S THEN root ELSE group_root[s]]
  /\ parent' = [s \in Samples |-> IF s \in S THEN root ELSE parent[s]]

Assign(S, up) ==
  /\ group_root' = [s \in Samples |-> IF s \in S THEN root ELSE group_root[s]]
  /\ parent' = [s \in Samples |-> IF s \in S THEN up ELSE parent[s]]

BeginWalk ==
  /\ stage = "enrolling"
  /\ pc = "idle"
  /\ stage' = "walking"
  /\ UNCHANGED <<vars, walk, relations>>

NextRoot ==
  /\ stage = "walking" /\ root = -1
  /\ \E r \in Least(Free) :
       /\ root' = r
       /\ group_root' = [group_root EXCEPT ![r] = r]
       /\ stack' = <<r>>
  /\ UNCHANGED <<vars, stage, current, parent, relations>>

\* The candidates are tried from the highest on.
Candidates == IF current = -1 THEN {} ELSE {c \in Free : Strong(current, c)}

Push ==
  /\ stage = "walking"
  /\ \E c \in Candidates :
       /\ \A o \in Candidates : o =< c
       /\ Assign({c}, current)
       /\ stack' = Append(stack, c)
  /\ UNCHANGED <<vars, stage, root, current, relations>>

Pop ==
  /\ stage = "walking" /\ stack # <<>> /\ Candidates = {}
  /\ current' = stack[Len(stack)]
  /\ stack' = SubSeq(stack, 1, Len(stack) - 1)
  /\ UNCHANGED <<vars, stage, root, group_root, parent, relations>>

\* What is left and has any relation to the root itself.
AttachWeak ==
  /\ stage = "walking" /\ root # -1 /\ stack = <<>> /\ Candidates = {}
  /\ Assign({c \in Free : Weak(root, c)}, root)
  /\ root' = -1
  /\ current' = -1
  /\ UNCHANGED <<vars, stage, stack, relations>>

Selected(p) ==
  /\ parent[p[1]] = p[2] \/ parent[p[2]] = p[1]
  /\ ~(group_root[p[1]] = p[1] /\ group_root[p[2]] = p[2])
  /\ link[p].value >= 0

Encode ==
  /\ stage = "walking" /\ root = -1 /\ Free = {}
  /\ relations' = {[index |-> Index(p), value |-> link[p].value,
                    transform |-> link[p].transform] :
                     p \in {q \in Pairs : q[1] < count /\ Selected(q)}}
  /\ stage' = "saved"
  /\ UNCHANGED <<vars, walk>>

Enroll == /\ stage = "enrolling"
          /\ Next
          /\ UNCHANGED <<stage, walk, relations>>

ForestInit ==
  /\ Init
  /\ stage = "enrolling"
  /\ root = -1
  /\ stack = <<>>
  /\ current = -1
  /\ group_root = [s \in Samples |-> -1]
  /\ parent = [s \in Samples |-> -1]
  /\ relations = {}

ForestNext == Enroll \/ BeginWalk \/ NextRoot \/ Push \/ Pop \/ AttachWeak \/ Encode

ForestSpec == ForestInit /\ [][ForestNext]_forestVars

-----------------------------------------------------------------------------
(* What the decoder reads back.                                            *)

Reopened == UNION {{[pair |-> p, value |-> r.value, transform |-> r.transform] :
                       p \in RelationIndices(r.index)} : r \in relations}

-----------------------------------------------------------------------------
(* Properties.                                                             *)

(* The decoder takes every record the encoder wrote, in whatever order,    *)
(* and gives each relation back to the two samples it is between: the      *)
(* triangular index is undone without loss, for every number of samples.   *)
DecoderAccepts ==
  stage = "saved" =>
    /\ \A r \in relations : r.value >= 0 /\ RelationIndices(r.index) # {}
    /\ \A q, r \in relations : q.index = r.index => q = r
    /\ \A r \in Reopened : r.value = link[r.pair].value /\ r.transform = link[r.pair].transform
    /\ anchor \in Kept \union {-1}

\* The sets of samples that no edge leads out of.
Closed(edges) ==
  {S \in SUBSET Kept : \A e \in edges : e[1] \in S <=> e[2] \in S}

Registered == {p \in Pairs : p[1] < count /\ measured[p] # Nothing}

(* The template that is written connects the samples that accepted         *)
(* registrations connect, and no others: not every relation is kept, and   *)
(* promotion overwrites measured ones with 0, which the walk does not      *)
(* follow, but no component of the enrollment is torn apart by it.         *)
ComponentsSurvive ==
  stage = "saved" => Closed({r.pair : r \in Reopened}) = Closed(Registered)
=============================================================================
