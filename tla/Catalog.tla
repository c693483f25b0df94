-------------------------------- MODULE Catalog --------------------------------
(***************************************************************************)
(* The tool registry as a catalog (src/lilbot/tools/registry.py): which tools *)
(* there are, which of them are deferred until they are discovered, and the    *)
(* cached list of schemas that goes with every request of the lead.           *)
(* Subagents, teammates and MCP servers share the registry with the lead; none *)
(* of it is locked.                                                          *)
(***************************************************************************)
EXTENDS Naturals, FiniteSets

CONSTANTS
  Lead,        \* threads that ask the model on the lead's behalf
  MaxResults   \* max_results of ToolSearch

\* CORE_TOOLS are always visible; the other built-in tools and those of MCP servers
\* are deferred.
Core == {"read_file"}
Builtin == Core \cup {"git_show"}
Mcp == {"mcp__s__t"}
Tool == Builtin \cup Mcp

\* Names a call may use; resolve takes case, dashes, camel case and a suffix for the
\* same name.
Name == Tool \cup {"GitShow", "nonsense"}

VARIABLES
  registered,   \* _tools, in the order of registration
  discovered,   \* _discovered
  cache,        \* _catalog_cache: [set, tools]
  signature,    \* _catalog_sig
  working,      \* for each lead thread where it is in schemas()
  due,          \* history: what was visible when the call began
  overlapped    \* history: two calls of _base_catalog were under way at a time

vars == << registered, discovered, cache, signature, working, due, overlapped >>

Deferred == registered \ Core

Resolve(name) ==
  LET tool == IF name = "GitShow" THEN "git_show" ELSE name
  IN  IF tool \in registered THEN {tool} ELSE {}

Visible == {tool \in registered : tool \notin Deferred \/ tool \in discovered}

NoCache == [set |-> FALSE, tools |-> {}]
Cached(tools) == [set |-> TRUE, tools |-> tools]

Idle == [pc |-> "idle", sig |-> {}, list |-> {}]
Does(t, what) == working' = [working EXCEPT ![t] = what]

\* register; the cache is dropped.  Servers are connected when the program starts, when
\* tasks it has taken up again may run, but before the lead's first turn.
Register(tool) ==
  /\ tool \notin registered
  /\ \A t \in Lead : working[t] = Idle
  /\ registered' = registered \cup {tool}
  /\ cache' = NoCache
  /\ UNCHANGED << discovered, signature, working, due, overlapped >>

\* execute reveals a deferred tool, whoever calls it and whatever comes of the call.
Execute(name) ==
  /\ Resolve(name) # {}
  /\ discovered' = discovered \cup (Resolve(name) \cap Deferred)
  /\ UNCHANGED << registered, cache, signature, working, due, overlapped >>

\* _tool_search_load: what is found counts as discovered from now on, for all that share
\* the registry; without a hit nothing changes.
Discover(found) ==
  /\ found # {}
  /\ discovered' = discovered \cup found
  /\ UNCHANGED << registered, cache, signature, working, due, overlapped >>

\* ToolSearch by names: they may be of any tool, ...
SearchByName(names) == Discover(UNION {Resolve(name) : name \in names})

\* ... or by words: of those still deferred the best few.
SearchByWords ==
  \E found \in SUBSET (Deferred \ discovered) :
    Cardinality(found) <= MaxResults /\ Discover(found)

(***************************************************************************)
(* schemas() of the lead: _base_catalog step by step                         *)
(***************************************************************************)
\* _visible_signature
Sign(t) ==
  /\ working[t].pc \in {"idle", "returned"}
  /\ Does(t, [Idle EXCEPT !.pc = "signed", !.sig = Visible])
  /\ due' = [due EXCEPT ![t] = Visible]
  /\ overlapped' = (overlapped \/ \E u \in Lead \ {t} : working[u].pc \notin {"idle", "returned"})
  /\ UNCHANGED << registered, discovered, cache, signature >>

\* Mutant: the cache serves as long as nothing is registered.
ReuseAny(t) ==
  /\ working[t].pc = "signed"
  /\ cache.set
  /\ Does(t, [working[t] EXCEPT !.pc = "returned", !.list = cache.tools])
  /\ UNCHANGED << registered, discovered, cache, signature, due, overlapped >>

\* The cache serves as long as there is one and the signature is the same.
Reuse(t) ==
  /\ working[t].pc = "signed"
  /\ cache.set /\ signature = working[t].sig
  /\ Does(t, [working[t] EXCEPT !.pc = "returned", !.list = cache.tools])
  /\ UNCHANGED << registered, discovered, cache, signature, due, overlapped >>

Rebuild(t) ==
  /\ working[t].pc = "signed"
  /\ ~cache.set \/ signature # working[t].sig
  /\ Does(t, [working[t] EXCEPT !.pc = "built", !.list = Visible])
  /\ UNCHANGED << registered, discovered, cache, signature, due, overlapped >>

StoreCache(t) ==
  /\ working[t].pc = "built"
  /\ cache' = Cached(working[t].list)
  /\ Does(t, [working[t] EXCEPT !.pc = "stored"])
  /\ UNCHANGED << registered, discovered, signature, due, overlapped >>

\* What is returned is the attribute as it is by now.
StoreSignature(t) ==
  /\ working[t].pc = "stored"
  /\ signature' = working[t].sig
  /\ Does(t, [working[t] EXCEPT !.pc = "returned", !.list = cache.tools])
  /\ UNCHANGED << registered, discovered, cache, due, overlapped >>

Schemas(t) == Sign(t) \/ Reuse(t) \/ Rebuild(t) \/ StoreCache(t) \/ StoreSignature(t)

Init ==
  /\ registered = Builtin
  /\ discovered = {}
  /\ cache = NoCache /\ signature = {}
  /\ working = [t \in Lead |-> Idle]
  /\ due = [t \in Lead |-> {}]
  /\ overlapped = FALSE

Next ==
  \/ \E tool \in Mcp : Register(tool)
  \/ \E name \in Name : Execute(name)
  \/ \E names \in {{name, other} : name, other \in Name} : SearchByName(names)
  \/ SearchByWords
  \/ \E t \in Lead : Schemas(t)

Spec == Init /\ [][Next]_vars

(***************************************************************************)
(* Properties                                                              *)
(***************************************************************************)

\* Whatever was registered or discovered before the lead asks for its schemas, by
\* whom and however often before, is among them, and so is every core tool: the cache
\* is never an old one - unless two turns have built it at the same time.
DiscoveredIsOffered ==
  ~overlapped =>
    \A t \in Lead : working[t].pc = "returned" =>
      /\ due[t] \subseteq working[t].list
      /\ working[t].list \subseteq registered

\* Why it holds: as long as calls do not overlap, a cache that is complete was built from
\* all that its signature names, and nothing visible is ever hidden again.
TypeOK ==
  /\ registered \subseteq Tool /\ discovered \subseteq Tool
  /\ cache \in [set: BOOLEAN, tools: SUBSET Tool]
  /\ signature \subseteq Tool
  /\ working \in [Lead -> [pc: {"idle", "signed", "built", "stored", "returned"},
                           sig: SUBSET Tool, list: SUBSET Tool]]
  /\ due \in [Lead -> SUBSET Tool]
  /\ overlapped \in BOOLEAN

InCall(t) == working[t].pc \in {"signed", "built", "stored"}
OneAtATime == \A t, u \in Lead : InCall(t) /\ InCall(u) => t = u

CacheFits ==
  /\ cache.tools \subseteq registered
  /\ cache.set /\ (\A t \in Lead : working[t].pc # "stored") => signature \subseteq cache.tools

CallFits(t) ==
  /\ InCall(t) => working[t].sig = due[t] /\ due[t] \subseteq Visible
  /\ working[t].pc \in {"built", "returned"} =>
       due[t] \subseteq working[t].list /\ working[t].list \subseteq registered
  /\ working[t].pc = "stored" => cache.set /\ due[t] \subseteq cache.tools

IInv ==
  /\ TypeOK
  /\ ~overlapped => OneAtATime /\ CacheFits /\ \A t \in Lead : CallFits(t)
=============================================================================
