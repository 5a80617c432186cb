----------------------------- MODULE RedkeyQueue -----------------------------
(***************************************************************************)
(* RedkeyReconciler as an implementation of EditQueue.  The queue is the   *)
(* stored RedkeyConfigs, by generation and phase; caches, failures, Robin's*)
(* objects and the reconcile's own variables disappear.                    *)
(***************************************************************************)
EXTENDS RedkeyReconciler

Queue == {[gen |-> c.gen, phase |-> c.phase] : c \in configs}

Q == INSTANCE EditQueue
       WITH Topologies <- UNION {Edits[g] : g \in DOMAIN Edits},
            asked <- specs,
            observed <- redkey.observedGeneration,
            queue <- Queue

\* The reconcile loop, with its stale reads and half-done reconciles, implements the
\* queue of edits: createNewConfig enters each generation at most once and in order,
\* the deletions only take what is finished and replaced, and observedGeneration is
\* only reported when the config of that generation cannot be lost.
ImplementsEditQueue == Q!Spec
=============================================================================
