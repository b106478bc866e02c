-------------------------- MODULE EntityOperations --------------------------
(***************************************************************************)
(* Who carries out what a user asks of a node, a project or a connection   *)
(* (core/plugin-contract/registryProviders.ts, docker/plugin.ts,           *)
(* docker/hosts.ts, docker/composePlugin.ts, server/routes/entities.ts,    *)
(* routes/projects.ts and routes/connections.ts).                          *)
(*                                                                         *)
(* A request asks the providers it has found at its start, one after the   *)
(* other.  Docker answers at once; a plugin in its process answers later,  *)
(* or fails, and hosts and plugins come and go meanwhile.  The container   *)
(* of a node may exist under the same id on several daemons.  Two hosts    *)
(* may be added at a time.                                                 *)
(***************************************************************************)
EXTENDS FiniteSets, Naturals, Sequences

CONSTANTS
  Hosts,     \* names of hosts, without the one that is always there
  Daemons,   \* Docker daemons, without the default one
  Plugins,   \* external plugins, in the order of their registration
  None

VARIABLES
  hosts,     \* function from names to daemons
  adding,    \* requests to add a host: its name and daemon
  enabled,   \* the plugins that are enabled
  request,   \* the request under way
  strayed    \* history: operations that went elsewhere than they should

vars == <<hosts, adding, enabled, request, strayed>>

Default == "default"
External == {Plugins[i] : i \in 1..Len(Plugins)}
NoRequest == [kind |-> "none", source |-> None, left |-> <<>>, said |-> {}, at |-> "idle"]

\* What asks for one provider, for an action of a named plugin, for what all of them
\* offer, and for the owner of a project.
Kinds == {"entity", "action", "list", "project"}

-----------------------------------------------------------------------------
(* Docker hosts.                                                           *)

\* addHost: the name is free, and the daemon is asked.
AddHost(n, d) ==
  /\ n \notin DOMAIN hosts /\ Cardinality(adding) < 2
  /\ adding' = adding \cup {<<n, d>>}
  /\ UNCHANGED <<hosts, enabled, request, strayed>>

\* The daemon has answered, or has not within 5 s.
HostAnswers(a, ok) ==
  /\ a \in adding /\ adding' = adding \ {a}
  /\ hosts' = IF ok THEN [n \in DOMAIN hosts \cup {a[1]} |-> IF n = a[1] THEN a[2] ELSE hosts[n]]
              ELSE hosts
  /\ UNCHANGED <<enabled, request, strayed>>

RemoveHost(n) ==
  /\ n \in DOMAIN hosts /\ n # "local"
  /\ hosts' = [m \in DOMAIN hosts \ {n} |-> hosts[m]]
  /\ UNCHANGED <<adding, enabled, request, strayed>>

\* Defect: the names of hosts are not looked at.
MutCanHandleDocker(s) == TRUE

CanHandleDocker(s) == s = None \/ s \in DOMAIN hosts

\* dockerClientForRef: without a client, the default one is used.
DockerClient(s) == IF s # None /\ s \in DOMAIN hosts THEN hosts[s] ELSE Default

-----------------------------------------------------------------------------
(* Requests.                                                               *)

\* The elements at some places, in their order.
Only(all, places) ==
  LET first[n \in 0..Len(all)] ==
        IF n = 0 THEN <<>>
        ELSE IF n \in places THEN Append(first[n - 1], all[n]) ELSE first[n - 1]
  IN first[Len(all)]

\* activePlugins
Active == Only(Plugins, {i \in DOMAIN Plugins : Plugins[i] \in enabled})

\* Enabling and disabling; the builtin plugins stay.
Toggle(p) ==
  /\ enabled' = IF p \in enabled THEN enabled \ {p} ELSE enabled \cup {p}
  /\ UNCHANGED <<hosts, adding, request, strayed>>

Start(kind, source, providers) ==
  /\ request = NoRequest
  /\ request' = [kind |-> kind, source |-> source, left |-> providers, said |-> {}, at |-> "asking"]
  /\ UNCHANGED <<hosts, adding, enabled, strayed>>

\* getStats, getLogs, removeEntity and the others, of a node.
AskEntity(source) == Start("entity", source, <<"docker">> \o Active)

\* Logs and actions of a resource, which is not Docker's.
AskResource == Start("entity", None, Active)

\* listEntityActions, listEntityOperations, analyzeMetric
AskAll(source) == Start("list", source, <<"docker">> \o Active)

\* runEntityAction
AskPlugin(source, p) ==
  /\ p \in enabled \cup {"docker"}
  /\ Start("action", source, <<p>>)

\* runProjectAction, with an owner or without.
AskProject(owner) ==
  LET entries == <<"compose">> \o Active
      owners == {i \in DOMAIN entries : entries[i] = owner}
  IN Start("project", None, IF owner = None THEN entries ELSE Only(entries, owners))

\* A provider does what is asked: it should be the only one that has said yes, and
\* Docker on the daemon that the source names.
Operate(p, said) ==
  LET s == request.source
      elsewhere == s # None /\ (s \notin DOMAIN hosts \/ DockerClient(s) # hosts[s])
  IN strayed' = strayed \cup
       (IF said # {p} \/ (p = "docker" /\ elsewhere) THEN {<<p, s>>} ELSE {})

-----------------------------------------------------------------------------
(* Answers.                                                                *)

Asked == Head(request.left)
Asking == request.at = "asking" /\ request.left # <<>>
Unasked == [request EXCEPT !.left = Tail(@)]

\* canHandle of Docker, and what follows it at once.
DockerAnswers ==
  /\ Asking /\ Asked = "docker"
  /\ IF ~CanHandleDocker(request.source) THEN request' = Unasked /\ UNCHANGED strayed
     ELSE IF request.kind = "list"
     THEN request' = [Unasked EXCEPT !.said = @ \cup {"docker"}] /\ UNCHANGED strayed
     ELSE request' = NoRequest /\ Operate("docker", {"docker"})
  /\ UNCHANGED <<hosts, adding, enabled>>

\* A plugin, or Compose with its list of projects, has no.
AnswersNo ==
  /\ Asking /\ Asked # "docker"
  /\ request' = Unasked
  /\ UNCHANGED <<hosts, adding, enabled, strayed>>

\* It has yes: one provider is enough, unless others may have it too.  Before the
\* action it is asked which it has.
AnswersYes ==
  /\ Asking /\ Asked # "docker"
  /\ request' = CASE request.kind = "entity" -> NoRequest
                  [] request.kind = "action" -> [request EXCEPT !.at = "listing"]
                  [] OTHER -> [Unasked EXCEPT !.said = @ \cup {Asked}]
  /\ IF request.kind = "entity" THEN Operate(Asked, {Asked}) ELSE UNCHANGED strayed
  /\ UNCHANGED <<hosts, adding, enabled>>

\* The action is one of those of the plugin, or not.
ActionListed(there) ==
  /\ request.at = "listing"
  /\ IF there THEN request' = NoRequest /\ Operate(Asked, {Asked})
              ELSE request' = [Unasked EXCEPT !.at = "asking"] /\ UNCHANGED strayed
  /\ UNCHANGED <<hosts, adding, enabled>>

\* A worker that fails ends the request.
ProviderFails ==
  /\ (Asking /\ Asked # "docker") \/ request.at = "listing"
  /\ request' = NoRequest
  /\ UNCHANGED <<hosts, adding, enabled, strayed>>

\* Defect: the first of several owners is taken.
MutUnambiguous(said) == said # {}

\* None is not found, several are ambiguous.
Unambiguous(said) == Cardinality(said) = 1

\* All have answered.
End ==
  /\ request.at = "asking" /\ request.left = <<>>
  /\ request' = NoRequest
  /\ IF request.kind = "project" /\ Unambiguous(request.said)
     THEN Operate(CHOOSE p \in request.said : TRUE, request.said) ELSE UNCHANGED strayed
  /\ UNCHANGED <<hosts, adding, enabled>>

-----------------------------------------------------------------------------
\* initHosts
Init ==
  /\ hosts = [n \in {"local"} |-> Default] /\ adding = {} /\ enabled = {}
  /\ request = NoRequest /\ strayed = {}

Next ==
  \/ \E n \in Hosts, d \in Daemons : AddHost(n, d)
  \/ \E a \in adding, ok \in BOOLEAN : HostAnswers(a, ok)
  \/ \E n \in Hosts : RemoveHost(n)
  \/ \E p \in External : Toggle(p)
  \/ \E s \in Hosts \cup {"local", None} :
       AskEntity(s) \/ AskAll(s) \/ \E p \in External \cup {"docker"} : AskPlugin(s, p)
  \/ AskResource \/ \E p \in External \cup {"compose", None} : AskProject(p)
  \/ DockerAnswers \/ AnswersNo \/ AnswersYes \/ ProviderFails \/ End
  \/ \E there \in BOOLEAN : ActionListed(there)

Spec == Init /\ [][Next]_vars

-----------------------------------------------------------------------------
(* Properties.                                                             *)

TypeOK ==
  /\ {"local"} \subseteq DOMAIN hosts /\ DOMAIN hosts \subseteq Hosts \cup {"local"}
  /\ \A n \in DOMAIN hosts : hosts[n] \in Daemons \cup {Default}
  /\ adding \subseteq Hosts \X Daemons /\ enabled \subseteq External
  /\ request.kind \in Kinds \cup {"none"} /\ request.at \in {"idle", "asking", "listing"}
  /\ request.said \subseteq External \cup {"docker", "compose"}

\* However hosts are added, replaced and removed and plugins enabled and disabled
\* during a request, what is done to a container is done on the daemon that its source
\* names at that moment, and never on the default one instead; all else is done by a
\* provider that said it was its own, and to a project when no other one did
\* (docker/plugin.ts canHandleDockerEntity, registryProviders.ts runProjectAction).
ReachesItsOwner == strayed = {}
=============================================================================
