--------------------------- MODULE ScratchArenas ---------------------------
(***************************************************************************)
(* The scratch arenas TEMP1 and TEMP2 of std/arena.watim and the way every *)
(* pass uses them.  A function is given the arena its result goes to; it   *)
(* asks `temp` for a scratch arena that is not that one, saves it, works,  *)
(* and restores it before it returns.  Only two scratch arenas serve call  *)
(* chains of any depth, so the restore of one function runs over an arena  *)
(* that others up the stack use as well, as scratch or for their results.  *)
(*                                                                         *)
(* An arena is the sequence of the allocations in it, oldest first; each   *)
(* is the number of the frame (0 is main) until whose return it is needed. *)
(* Restoring cuts the sequence back to where it was at the save, which is  *)
(* what module Arena shows of the real arenas.                             *)
(***************************************************************************)
EXTENDS Integers, Sequences

CONSTANTS
  Bases,      (* the arenas of main, which are not scratch                 *)
  MaxDepth,   (* bound: calls in progress                                  *)
  MaxAllocs   (* bound: allocations in an arena                            *)

ASSUME ScratchAssumption ==
  /\ Bases \cap {"TEMP1", "TEMP2"} = {}
  /\ MaxDepth \in Nat /\ MaxAllocs \in Nat

Temps == {"TEMP1", "TEMP2"}
AllArenas == Bases \cup Temps
None == "none"  (* the null pointer: a callee without a result             *)

ASSUME NoneAssumption == None \notin Bases

VARIABLES
  frames,  (* the calls in progress, the outermost first                   *)
  heap,    (* the allocations of each arena                                *)
  leaked   (* ghost: some call left without restoring                      *)

vars == <<frames, heap, leaked>>

Depth == Len(frames)
Top == frames[Depth]

-----------------------------------------------------------------------------
(* A slip: the scratch arena is always the first.                          *)
AlwaysTEMP1(persistent) == "TEMP1"

(* temp: a scratch arena other than the one results go to.                 *)
Temp(persistent) == IF persistent = "TEMP1" THEN "TEMP2" ELSE "TEMP1"

(* The arenas a caller passes on: the one its own result goes to, its      *)
(* scratch arena, and any of main's.  With each goes the frame that needs  *)
(* what is put there.                                                      *)
Persistents ==
  [arena : Bases, owner : {0}] \cup {[arena |-> None, owner |-> 0]}
  \cup (IF Depth = 0 THEN {}
        ELSE {[arena |-> Top.persistent, owner |-> Top.owner],
              [arena |-> Top.temp, owner |-> Depth]})

Init ==
  /\ frames = << >>
  /\ heap = [a \in AllArenas |-> << >>]
  /\ leaked = FALSE

(* `$persistent Arena:temp @temp @save` on entry.                          *)
Call(p) ==
  /\ Depth < MaxDepth
  /\ frames' = Append(frames,
       [persistent |-> p.arena, owner |-> p.owner,
        temp |-> Temp(p.arena), mark |-> Len(heap[Temp(p.arena)])])
  /\ UNCHANGED <<heap, leaked>>

Alloc(a, owner) ==
  /\ Len(heap[a]) < MaxAllocs
  /\ heap' = [heap EXCEPT ![a] = Append(@, owner)]
  /\ UNCHANGED <<frames, leaked>>

(* Work of the running function: scratch data, and its result.             *)
AllocScratch == Depth > 0 /\ Alloc(Top.temp, Depth)
AllocResult == Depth > 0 /\ Top.persistent # None /\ Alloc(Top.persistent, Top.owner)

(* A slip: what is saved is restored one allocation short.                 *)
ReturnKeepingOne ==
  /\ Depth > 0
  /\ heap' = [heap EXCEPT ![Top.temp] =
                 IF Len(@) > Top.mark THEN SubSeq(@, 1, Top.mark + 1) ELSE @]
  /\ frames' = SubSeq(frames, 1, Depth - 1)
  /\ UNCHANGED leaked

(* `$temp $save Arena:restore` and return.                                 *)
Return ==
  /\ Depth > 0
  /\ heap' = [heap EXCEPT ![Top.temp] = SubSeq(@, 1, Top.mark)]
  /\ frames' = SubSeq(frames, 1, Depth - 1)
  /\ UNCHANGED leaked

(* An error path that leaves without restoring, as in resolve-imprt.       *)
ReturnEarly ==
  /\ Depth > 0
  /\ frames' = SubSeq(frames, 1, Depth - 1)
  /\ leaked' = TRUE
  /\ UNCHANGED heap

Next ==
  \/ \E p \in Persistents : Call(p)
  \/ AllocScratch
  \/ AllocResult
  \/ Return
  \/ ReturnEarly

Spec == Init /\ [][Next]_vars

-----------------------------------------------------------------------------
(* What must hold.                                                         *)

Frame == [persistent : AllArenas \cup {None}, owner : Nat,
          temp : Temps, mark : Nat]

TypeOK ==
  /\ frames \in Seq(Frame)
  /\ heap \in [AllArenas -> Seq(Nat)]
  /\ leaked \in BOOLEAN

(* What a returning function frees, nobody up the stack needs: every       *)
(* allocation behind the mark of a frame belongs to that frame or to one   *)
(* it called.  Its own result and the data of its callers survive, however *)
(* often the two scratch arenas have swapped roles.                        *)
FreesOnlyItsOwn ==
  \A d \in 1 .. Depth : \A i \in 1 .. Len(heap[frames[d].temp]) :
    i > frames[d].mark => heap[frames[d].temp][i] >= d

(* Every allocation a frame still needs is there: no restore cuts into     *)
(* what lies before the mark of an outer frame on the same scratch arena,  *)
(* and a mark never points past the end.                                   *)
MarksNest ==
  /\ \A d \in 1 .. Depth : frames[d].mark <= Len(heap[frames[d].temp])
  /\ \A d, e \in 1 .. Depth :
       d < e /\ frames[d].temp = frames[e].temp =>
         frames[d].mark <= frames[e].mark

(* A scratch arena no call in progress uses is empty, unless some call     *)
(* left without restoring: main's exit then finds no bytes of it in use.   *)
ScratchGivenBack ==
  ~leaked => \A t \in Temps :
    (\A d \in 1 .. Depth : frames[d].temp # t) => heap[t] = << >>

(* Nothing needed by a frame that goes on is ever freed.                   *)
NothingNeededIsFreed ==
  [][\A a \in AllArenas : \A i \in 1 .. Len(heap[a]) :
       heap[a][i] <= Len(frames') =>
         i <= Len(heap'[a]) /\ heap'[a][i] = heap[a][i]]_vars
=============================================================================
