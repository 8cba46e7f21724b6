---------------------------- MODULE AgentRegistry -----------------------------
(***************************************************************************)
(* The agents table and the statements of AgentRepository on it.  An agent *)
(* is deleted by setting deleted_at; its row, and its DID, stay.           *)
(***************************************************************************)
EXTENDS StoreCalls, FiniteSets

CONSTANTS
  Agents,       \* agent ids, each the result of one uuid.New()
  Founders,     \* the agents that are registered to begin with
  Dids,         \* values of agents.did, which is UNIQUE
  DidOf,        \* the DIDs of the founders
  Requests,     \* the requests, which write rows
  QueryLimit,   \* LIMIT of QueryByCapabilities, 50
  Nobody        \* no request or agent

ASSUME RegistryAssumption ==
  /\ Founders \subseteq Agents
  /\ DidOf \in [Founders -> Dids]
  /\ \A a, b \in Founders : DidOf[a] = DidOf[b] => a = b
  /\ Nobody \notin Requests \cup Agents \cup Dids
  /\ QueryLimit \in Nat

VARIABLE agents

\* by: the request whose name, version and capabilities the row holds;
\* beat: last_heartbeat; rank: how many rows are older (created_at).
Row == [state : {"absent", "live", "deleted"}, did : Dids \cup {Nobody},
        by : Requests \cup {Nobody}, beat : Nat, rank : Nat]
NoRow == [state |-> "absent", did |-> Nobody, by |-> Nobody, beat |-> 0, rank |-> 0]

RegistryTypeOK == agents \in [Agents -> Row]

RegistryInit ==
  agents = [a \in Agents |-> IF a \in Founders
                             THEN [NoRow EXCEPT !.state = "live", !.did = DidOf[a]]
                             ELSE NoRow]

Registered(a) == a \in Agents /\ agents[a].state # "absent"

\* A mutant of AgentExists: without deleted_at IS NULL.
AgentExistsDeleted(a) == Registered(a)

\* AgentExists
AgentExists(a) == a \in Agents /\ agents[a].state = "live"

\* WHERE id = $1 AND deleted_at IS NULL
Live(a) == agents[a].state = "live"

Taken(d) == \E a \in Agents : Registered(a) /\ agents[a].did = d

\* AgentRepository.Create; last_heartbeat stays NULL.
CreateAgent(a, d, r, o) ==
  agents' = IF Took(o) /\ ~ Taken(d)
            THEN [agents EXCEPT ![a] = [state |-> "live", did |-> d, by |-> r, beat |-> 0,
                                        rank |-> Cardinality({b \in Agents : Registered(b)})]]
            ELSE agents

\* A mutant of UpdateAgent: without deleted_at IS NULL.
UpdateAgentUnguarded(a, r, beat, o) ==
  agents' = IF Took(o) THEN [agents EXCEPT ![a].by = r, ![a].beat = beat] ELSE agents

\* UpdateForTenant writes every column it was given, last_heartbeat included.
UpdateAgent(a, r, beat, o) ==
  agents' = IF Took(o) /\ Live(a)
            THEN [agents EXCEPT ![a].by = r, ![a].beat = beat] ELSE agents

\* DeleteForTenant
DeleteAgent(a, o) ==
  agents' = IF Took(o) /\ Live(a)
            THEN [agents EXCEPT ![a].state = "deleted"] ELSE agents

\* UpdateStatusForTenant
BeatAgent(a, now, o) ==
  agents' = IF Took(o) /\ Live(a)
            THEN [agents EXCEPT ![a].beat = now] ELSE agents

\* ListByTenant
LiveAgents == {a \in Agents : Live(a)}

\* The live agents that were registered after a.
Newer(a) == {b \in LiveAgents : agents[b].rank > agents[a].rank}

\* QueryByCapabilities: ORDER BY created_at DESC LIMIT 50.  Every agent is
\* "online": nothing in the code ever sets another status.
Newest == {a \in LiveAgents : Cardinality(Newer(a)) < QueryLimit}
=============================================================================
