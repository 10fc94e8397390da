-------------------------- MODULE DeadLetterTools ---------------------------
(***************************************************************************)
(* The commands `jararaca dlq stats', `list', `purge' and `requeue'        *)
(* (src/jararaca/cli.py), against a broker whose topology deployments may  *)
(* be changing.  One command runs; a letter it has fetched and not settled *)
(* stays in the queue, held, and becomes available again when it is given  *)
(* back or when the connection is gone.                                    *)
(***************************************************************************)
EXTENDS BrokerTopology

CONSTANTS
  Tools  \* the commands that may be run, with their options

NoLimit == 0 - 1

ASSUME ToolAssumption ==
  Tools \subseteq [kind : {"stats", "list", "purge", "requeue"}, limit : Nat \cup {NoLimit},
                   filter : Queue \cup {"any"}]

VARIABLES
  tool,   \* the command and its options
  place,  \* where it is
  count,  \* its counter, up to the limit
  held,   \* the letter it has fetched and not settled, as a set
  seen    \* the letters it fetched to look at

toolVars == <<tool, place, count, held, seen>>
dlqVars == <<topologyVars, toolVars>>

ToolTypeOK ==
  /\ tool \in Tools
  /\ place \in {"count", "fetch", "fetched", "confirm", "open", "take", "taken", "published",
                "purge", "ended", "failed"}
  /\ count \in Nat
  /\ held \subseteq Letter /\ Cardinality(held) <= 1
  /\ seen \subseteq Letter

ToolInit ==
  /\ tool \in Tools
  /\ place = IF tool.kind = "list" THEN "fetch" ELSE "count"
  /\ count = 0
  /\ held = {}
  /\ seen = {}

-----------------------------------------------------------------------------
Ready == letters \ held
Oldest == CHOOSE l \in Ready : \A k \in Ready : l <= k
Matches(l) == tool.filter = "any" \/ tool.filter = Origin[l]
InLimit == tool.limit = NoLimit \/ count < tool.limit
\* The counter, which only a limit makes anything of.
Counted == IF tool.limit = NoLimit THEN count ELSE count + 1

\* The passive declaration that opens stats, purge and requeue.
CountLetters ==
  /\ place = "count"
  /\ place' = IF entity["dlq"] = "absent" \/ letters = {} THEN "ended"
              ELSE IF tool.kind = "purge" THEN "confirm" ELSE "fetch"
  /\ UNCHANGED <<topologyVars, tool, count, held, seen>>

\* fetch_dlq_messages: queue.get.
Fetch ==
  /\ place = "fetch"
  /\ InLimit /\ Ready # {}
  /\ held' = {Oldest}
  /\ seen' = seen \cup {Oldest}
  /\ place' = "fetched"
  /\ UNCHANGED <<topologyVars, tool, count>>

\* The nack that puts the letter back where it was; it is counted.
GiveBack ==
  /\ place = "fetched"
  /\ held' = {}
  /\ count' = Counted
  /\ place' = "fetch"
  /\ UNCHANGED <<topologyVars, tool, seen>>

\* The limit is reached, the queue is empty or gone, or a get is not answered within the
\* second it is given.  The library answers a get on an empty queue with nothing, too late,
\* or with an exception.  stats and list end here, requeue when nothing it saw matches.
FetchEnds ==
  /\ place = "fetch"
  /\ \/ place' = IF tool.kind = "requeue" /\ \E l \in seen : Matches(l)
                   THEN "confirm" ELSE "ended"
     \/ InLimit /\ Ready = {} /\ place' = "failed"
  /\ UNCHANGED <<topologyVars, tool, count, held, seen>>

\* The confirmation, or --force.
Confirm ==
  /\ place = "confirm"
  /\ place' \in {"ended", IF tool.kind = "purge" THEN "purge" ELSE "open"}
  /\ UNCHANGED <<topologyVars, tool, count, held, seen>>

\* purge_dl_queue.
Purge ==
  /\ place = "purge"
  /\ IF entity["dlq"] = "absent"
       THEN place' = "failed" /\ UNCHANGED <<letters, fate>>
       ELSE /\ place' = "ended"
            /\ letters' = {}
            /\ fate' = [l \in Letter |-> IF l \in letters /\ fate[l] = "kept"
                                         THEN "purged" ELSE fate[l]]
  /\ UNCHANGED <<entity, bound, flag, phase, calls, left, skipped, tool, count, held, seen>>

\* dlq_requeue, its second part: get_dl_queue and get_main_exchange.
OpenChannel ==
  /\ place = "open"
  /\ place' = IF "absent" \in {entity["dlq"], entity["main"]} THEN "failed" ELSE "take"
  /\ count' = 0
  /\ UNCHANGED <<topologyVars, tool, held, seen>>

\* Mutation of Take: the letter is taken without an acknowledgement to come.
TakeNoAck ==
  /\ place = "take"
  /\ InLimit /\ Ready # {}
  /\ held' = {Oldest}
  /\ letters' = letters \ {Oldest}
  /\ place' = "taken"
  /\ UNCHANGED <<entity, bound, fate, flag, phase, calls, left, skipped, tool, count, seen>>

Take ==
  /\ place = "take"
  /\ InLimit /\ Ready # {}
  /\ held' = {Oldest}
  /\ place' = "taken"
  /\ UNCHANGED <<topologyVars, tool, count, seen>>

\* As in FetchEnds.
TakeEnds ==
  /\ place = "take"
  /\ \/ place' = "ended"
     \/ InLimit /\ Ready = {} /\ place' = "failed"
  /\ UNCHANGED <<topologyVars, tool, count, held, seen>>

\* A letter of another queue goes back and is not counted.
PassOver ==
  /\ place = "taken"
  /\ \A l \in held : ~Matches(l)
  /\ held' = {}
  /\ place' = "take"
  /\ UNCHANGED <<topologyVars, tool, count, seen>>

\* The routing key under which a dead letter was last published, and the queues that the
\* main exchange routes a key to: each handler's queue is bound with its own.
RoutingKey(l) == "dlx"
RoutesTo(key) == {q \in bound \cap Queue : q = key}

\* exchange.publish; the broker confirms a message that it can route nowhere as well.
Publish ==
  /\ place = "taken"
  /\ \E l \in held :
       /\ Matches(l)
       /\ entity["main"] # "absent"
       /\ fate' = [fate EXCEPT ![l] = IF Origin[l] \in RoutesTo(RoutingKey(l))
                                      THEN "requeued" ELSE "unroutable"]
  /\ place' = "published"
  /\ UNCHANGED <<entity, bound, letters, flag, phase, calls, left, skipped, tool, count, held,
                 seen>>

\* An error of the publication: the letter goes back, and is counted.
PublishFails ==
  /\ place = "taken"
  /\ \A l \in held : Matches(l)
  /\ held' = {}
  /\ count' = Counted
  /\ place' = "take"
  /\ UNCHANGED <<topologyVars, tool, seen>>

Ack ==
  /\ place = "published"
  /\ letters' = letters \ held
  /\ held' = {}
  /\ count' = Counted
  /\ place' = "take"
  /\ UNCHANGED <<entity, bound, fate, flag, phase, calls, left, skipped, tool, seen>>

\* The process or its connection dies; a deleted queue closes the channel as well.
ToolDies ==
  /\ place \notin {"ended", "failed"}
  /\ place' = "failed"
  /\ held' = {}
  /\ UNCHANGED <<topologyVars, tool, count, seen>>

ToolStep ==
  \/ CountLetters \/ Fetch \/ GiveBack \/ FetchEnds \/ Confirm \/ Purge \/ OpenChannel
  \/ Take \/ TakeEnds \/ PassOver \/ Publish \/ PublishFails \/ Ack

DlqInit == TopologyInit /\ ToolInit

DlqNext ==
  \/ ToolStep \/ ToolDies
  \/ \E d \in Deployment : DeclareStep(d) /\ UNCHANGED toolVars

DlqSpec == DlqInit /\ [][DlqNext]_dlqVars

\* The broker answers the commands.
DlqFairness == WF_dlqVars(ToolStep)

-----------------------------------------------------------------------------
\* A letter leaves the dead letter queue only when it has been handed to the main exchange,
\* was purged, or went with a queue that a deployment deleted: a command that dies between
\* two steps takes none along (dlq_requeue publishes first and acknowledges after).  Whether
\* the exchange routes the letter anywhere is RequeuedArrives.
AckedIsPublished == \A l \in Letter : l \notin letters => fate[l] # "kept"

\* No letter is acknowledged that was not handed on, however commands die and deployments
\* interleave, and a plain deployment deletes no queue and no letter.
LettersHandedOn == [][AckedIsPublished' /\ PlainDeletesNothing]_dlqVars

\* A command with a limit and without a filter ends, although looking at a letter puts
\* it back at the head of the queue.
LimitedToolsEnd ==
  (tool.limit # NoLimit /\ tool.filter = "any") ~> place \in {"ended", "failed"}

\* "Requeue messages from the Dead Letter Queue back to their original queues"
\* (dlq_requeue).
RequeuedArrives == \A l \in Letter : fate[l] # "unroutable"
=============================================================================
