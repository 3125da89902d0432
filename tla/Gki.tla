-------------------------------- MODULE Gki --------------------------------
(***************************************************************************)
(* The GKI module of gki/ulinux/gki_ulinux.c: init and clean_up of         *)
(* gki_cb, and the lock of gki_cb that GKI_disable takes and GKI_enable    *)
(* releases around the critical sections of the stack.  Sections nest: a   *)
(* function that has disabled calls another that disables again.           *)
(*                                                                         *)
(* The module manager runs init before any thread of the stack and         *)
(* clean_up after the last, each time the stack is brought up and down;    *)
(* stack threads run only in between.                                      *)
(***************************************************************************)
EXTENDS Naturals, FiniteSets

CONSTANTS
    Threads,           \* the threads of the stack
    NoThread,          \* the owner of a free mutex
    MaxDepth           \* bound on the nesting of critical sections

VARIABLES
    module,            \* "loaded", "initialized", "cleaned": gki_module
    lock,              \* gki_cb.lock
    buffers,           \* the buffer pools of gki_cb exist
    depth,             \* per thread: the sections it is inside
    pc                 \* per thread: "run", or "locking" inside GKI_disable

gkiVars == <<module, lock, buffers, depth, pc>>

Mutex == [type : {"normal", "recursive", "destroyed"}, owner : Threads \cup {NoThread},
          count : 0..MaxDepth]

GkiTypeOK ==
    /\ module \in {"loaded", "initialized", "cleaned"}
    /\ lock \in Mutex
    /\ buffers \in BOOLEAN
    /\ depth \in [Threads -> 0..MaxDepth]
    /\ pc \in [Threads -> {"run", "locking"}]

DefaultAttr    == "normal"
ErrorCheckAttr == "errorcheck"

\* The type init gives the mutex.
MutexAttr == "recursive"

\* gki_cb is static storage; a zeroed mutex is that of the default type.
GkiInit ==
    /\ module = "loaded"
    /\ lock = [type |-> "normal", owner |-> NoThread, count |-> 0]
    /\ buffers = FALSE
    /\ depth = [t \in Threads |-> 0]
    /\ pc = [t \in Threads |-> "run"]

\* What the module manager promises and this file does not check: no thread
\* of the stack is inside a section, or asking for one, when init and
\* clean_up run.
Quiet == \A t \in Threads : depth[t] = 0 /\ pc[t] = "run"

\* init: gki_cb zeroed, the mutex made recursive, the buffer pools set up.
init ==
    /\ module # "initialized" /\ Quiet
    /\ module' = "initialized"
    /\ lock' = [type |-> MutexAttr, owner |-> NoThread, count |-> 0]
    /\ buffers' = TRUE
    /\ UNCHANGED <<depth, pc>>

\* clean_up: the buffer pools are freed and the mutex is destroyed; it is
\* no mutex again until the next init.
clean_up ==
    /\ module = "initialized" /\ Quiet
    /\ module' = "cleaned"
    /\ buffers' = FALSE
    /\ lock' = [type |-> "destroyed", owner |-> NoThread, count |-> 0]
    /\ UNCHANGED <<depth, pc>>

-----------------------------------------------------------------------------
(* pthread_mutex_lock and pthread_mutex_unlock, as the library defines    *)
(* them for the mutex types                                               *)

\* pthread_mutex_lock returns to t: the mutex is free, or t owns it and the
\* mutex counts.
Grants(t) ==
    /\ lock.type # "destroyed"
    /\ \/ lock.owner = NoThread
       \/ lock.owner = t /\ lock.type = "recursive"

Locked(t) == [lock EXCEPT !.owner = t, !.count = @ + 1]

\* The owner unlocks: the mutex is free again when every lock was undone.
Unlocked ==
    [lock EXCEPT !.count = @ - 1,
                 !.owner = IF lock.count = 1 THEN NoThread ELSE @]

\* GKI_disable is called, and returns once the mutex is granted.
GKI_disable(t) ==
    /\ module = "initialized" /\ pc[t] = "run" /\ depth[t] < MaxDepth
    /\ pc' = [pc EXCEPT ![t] = "locking"]
    /\ UNCHANGED <<module, lock, buffers, depth>>

\* A GKI_disable that returns without the mutex.
ReturnsUnlocked(t) ==
    /\ pc[t] = "locking"
    /\ depth' = [depth EXCEPT ![t] = @ + 1]
    /\ pc' = [pc EXCEPT ![t] = "run"]
    /\ UNCHANGED <<module, lock, buffers>>

DisableReturns(t) ==
    /\ pc[t] = "locking" /\ Grants(t)
    /\ lock' = Locked(t)
    /\ depth' = [depth EXCEPT ![t] = @ + 1]
    /\ pc' = [pc EXCEPT ![t] = "run"]
    /\ UNCHANGED <<module, buffers>>

\* GKI_enable ends the innermost section of t.
GKI_enable(t) ==
    /\ pc[t] = "run" /\ depth[t] > 0
    /\ lock' = Unlocked
    /\ depth' = [depth EXCEPT ![t] = @ - 1]
    /\ UNCHANGED <<module, buffers, pc>>

\* A GKI_enable with no section to end: the mutex refuses the unlock of a
\* thread that does not own it, and GKI_enable does not look at the result.
StrayEnable(t) ==
    /\ module = "initialized" /\ pc[t] = "run" /\ depth[t] = 0
    /\ lock.owner # t
    /\ UNCHANGED gkiVars

GkiNext ==
    \/ init
    \/ clean_up
    \/ \E t \in Threads :
        \/ GKI_disable(t)
        \/ DisableReturns(t)
        \/ GKI_enable(t)
        \/ StrayEnable(t)

GkiSpec == GkiInit /\ [][GkiNext]_gkiVars

-----------------------------------------------------------------------------
(* Properties *)

\* Critical sections exclude each other however they nest: at most one
\* thread is between a GKI_disable and its GKI_enable, that thread owns the
\* mutex, and the mutex has counted as many locks as the thread has sections
\* open.  An inner GKI_enable that frees the mutex lets a second thread into
\* the outer section.
SectionsExclude ==
    \A t \in Threads :
        depth[t] > 0 => lock.owner = t /\ lock.count = depth[t]

\* A thread that is inside a section and calls GKI_disable again is let
\* through; with a mutex that does not count (init without the recursive
\* attribute) it would wait for itself for ever.
NestedDisableReturns ==
    \A t \in Threads : pc[t] = "locking" /\ depth[t] > 0 => Grants(t)

=============================================================================
