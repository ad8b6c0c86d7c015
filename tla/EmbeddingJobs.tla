--------------------------- MODULE EmbeddingJobs ---------------------------
(***************************************************************************)
(* Posts with the worker of the queue ai-processing                        *)
(* (src/src/ai/processors/ai.processor.ts).  BullMQ is external: a job is  *)
(* given to a worker, once more if the worker stalls, and never again once *)
(* it failed; these are its defaults, which the code leaves alone.         *)
(***************************************************************************)
EXTENDS Posts

\* The text is sent to the model provider.
JobStart(p) ==
    /\ job[p].state = "waiting"
    /\ job' = [job EXCEPT ![p].state = "active"]
    /\ UNCHANGED <<users, post, postCount, embedding, notification, call>>

\* The upsert of the vector; its foreign key needs the post.
JobStore(p) ==
    /\ job[p].state = "active" /\ Live(p)
    /\ embedding' = embedding \cup {p}
    /\ job' = [job EXCEPT ![p].state = "stored"]
    /\ UNCHANGED <<users, post, postCount, notification, call>>

JobComplete(p) ==
    /\ job[p].state = "stored"
    /\ job' = [job EXCEPT ![p].state = "done"]
    /\ UNCHANGED <<users, post, postCount, embedding, notification, call>>

\* Mutant: the error is only logged.
JobFailsLogged(p) ==
    /\ job[p].state = "active"
    /\ job' = [job EXCEPT ![p].state = "done"]
    /\ UNCHANGED <<users, post, postCount, embedding, notification, call>>

\* Mutant: it is tried again, however often it failed.
JobFailsAgain(p) ==
    /\ job[p].state = "active"
    /\ job' = [job EXCEPT ![p].state = "waiting"]
    /\ UNCHANGED <<users, post, postCount, embedding, notification, call>>

\* The provider or the insert fails and the error is thrown again.
JobFails(p) ==
    /\ job[p].state = "active"
    /\ job' = [job EXCEPT ![p].state = "failed"]
    /\ UNCHANGED <<users, post, postCount, embedding, notification, call>>

\* The worker stops: the job is given out again, the first time.
JobStalls(p) ==
    /\ job[p].state \in {"active", "stored"}
    /\ job' = [job EXCEPT ![p] =
           IF job[p].stalled = "no" THEN [state |-> "waiting", stalled |-> "once"]
           ELSE [job[p] EXCEPT !.state = "failed"]]
    /\ UNCHANGED <<users, post, postCount, embedding, notification, call>>

Work(p) == JobStart(p) \/ JobStore(p) \/ JobComplete(p) \/ JobFails(p)

JobsNext ==
    \/ Next
    \/ \E p \in Posts : Work(p) \/ JobStalls(p)

JobsSpec == Init /\ [][JobsNext]_vars

\* Workers go on with what is on the list.
FairJobsSpec == JobsSpec /\ Fairness /\ \A p \in Posts : WF_vars(Work(p))

----------------------------------------------------------------------------
(* Properties.                                                             *)
(***************************************************************************)
\* A job that is done has left the embedding of its post, unless the post is
\* gone, and then there is none: whether it ran twice or the post was removed
\* under it.
DoneIsEmbedded ==
    /\ \A p \in Posts : job[p].state = "done" /\ Live(p) => p \in embedding
    /\ \A p \in embedding : Live(p)

\* A job that was added comes to an end.
JobsEnd ==
    \A p \in Posts : job[p].state = "waiting" ~> job[p].state \in {"done", "failed"}

\* The inductive strengthening of DoneIsEmbedded.
StoredIsEmbedded ==
    /\ \A p \in Posts : job[p].state \in {"stored", "done"} /\ Live(p) => p \in embedding
    /\ \A p \in embedding : Live(p)

JobsInv == PostsInv /\ StoredIsEmbedded

=============================================================================
