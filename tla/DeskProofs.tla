------------------------------ MODULE DeskProofs ------------------------------
(***************************************************************************)
(* What is proved of a desk.  First of DeskLife, for any names, callers    *)
(* and bounds: its types, when the daemon may rewrite what an agent wrote  *)
(* and when not, and that a desk becomes READY over a whole workspace as   *)
(* long as no name of a deleted desk is used again.  Then of Terminal, for *)
(* any panes, sockets, threads and bounds: that a pane shows one unbroken  *)
(* stretch of a child's output, learns of the exit last, and does not wait *)
(* for what will not come.                                                 *)
(***************************************************************************)
EXTENDS DeskLife, Terminal, Integers, FiniteSetTheorems, SequenceTheorems, TLAPS

-------------------------------------------------------------------------------
(* Types *)

States == {"NONE", "CREATING", "READY", "FAILED", "GONE"}
Things == {"absent", "ours", "theirs", "plain", "removed"}
Pcs    == {"idle", "boot", "retry", "bootstrap", "seed", "link", "ready", "failed", "spawn", "open",
           "ensure", "exit", "shutdown", "stop", "prune", "remove"}

Row       == [state : States, name : Names \cup {"none"}]
Workspace == [Range(Parts) -> Things]
Handler   == [pc : Pcs, desk : 0 .. MaxDesks, step : 0 .. 6, saw : Things]

\* A desk that was created keeps its row and its name; one that is gone stays gone.
Created(d) == d \in Desks /\ desk[d].state # "NONE"
RowsMoveOn == \A d \in Desks :
  /\ Created(d) => desk'[d].state # "NONE" /\ desk'[d].name = Named(d)
  /\ desk[d].state = "GONE" => desk'[d].state = "GONE"

RowsOK  == /\ desk \in [Desks -> Row]
           /\ \A d \in Desks : IF Created(d) THEN Named(d) \in Names ELSE desk[d] = NoRow
           /\ \A d, e \in Desks : d # e /\ Exists(d) /\ Exists(e) => Named(d) # Named(e)

\* What is in a workspace is in its directory.
FilesOK == /\ files \in [Names -> Workspace]
           /\ \A n \in Names : files[n]["dir"] = "absent" => files[n] = Empty

\* A handler in progress is for a desk that was created.
CallsOK == /\ call \in [Actors -> Handler]
           /\ \A c \in Actors : /\ call[c].pc \notin {"idle", "boot"} => Created(call[c].desk)
                                /\ At(c, "bootstrap") => call[c].step \in 1 .. 6
                                /\ At(c, "seed") => call[c].step = 2 /\ call[c].saw = "absent"
                                /\ At(c, "remove") => desk[call[c].desk].state = "GONE"

Kinds == RowsOK /\ FilesOK /\ CallsOK

LEMMA PartNames == /\ Range(Parts) = {"dir", "agents", "shim", "plugins", "skills", "link"}
                   /\ Len(Parts) = 6 /\ \A i \in 1 .. 6 : Parts[i] \in Range(Parts)
                   /\ \A i \in 1 .. 6 : Parts[i] = "link" <=> i = 6
                   /\ \A i \in 1 .. 6 : Parts[i] = "agents" <=> i = 2
BY DEF Range, Parts

LEMMA IdleType ==
  /\ Idle \in Handler /\ Idle.pc = "idle"
  /\ [Idle EXCEPT !.pc = "boot"] \in Handler /\ [Idle EXCEPT !.pc = "boot"].pc = "boot"
BY DeskAssumption DEF Idle, Handler, Pcs, Things

\* One handler moves, for a desk that was created or to its end.
Moves(c, h) ==
  /\ c \in Actors /\ h \in Handler /\ call' = [call EXCEPT ![c] = h]
  /\ h.pc \notin {"idle", "boot"} => h.desk \in Desks /\ desk'[h.desk].state # "NONE"
  /\ h.pc = "bootstrap" => h.step \in 1 .. 6
  /\ h.pc = "seed" => h.step = 2 /\ h.saw = "absent"
  /\ h.pc = "remove" => desk'[h.desk].state = "GONE"

LEMMA MovesType ==
  ASSUME CallsOK, RowsMoveOn, NEW c, NEW h, Moves(c, h)
  PROVE  CallsOK' /\ call'[c] = h /\ \A b \in Actors : b # c => call'[b] = call[b]
<1>1. /\ call' \in [Actors -> Handler] /\ call'[c] = h
      /\ \A b \in Actors : b # c => call'[b] = call[b]
  BY DEF Moves, CallsOK
<1>2. ASSUME NEW b \in Actors
      PROVE  /\ call'[b].pc \notin {"idle", "boot"} =>
                  call'[b].desk \in Desks /\ desk'[call'[b].desk].state # "NONE"
             /\ call'[b].pc = "bootstrap" => call'[b].step \in 1 .. 6
             /\ call'[b].pc = "seed" => call'[b].step = 2 /\ call'[b].saw = "absent"
             /\ call'[b].pc = "remove" => desk'[call'[b].desk].state = "GONE"
  BY <1>1, <1>2 DEF Moves, CallsOK, RowsMoveOn, Created, At
<1> QED BY <1>1, <1>2 DEF CallsOK, Created, At

LEMMA EndsMoves ==
  ASSUME NEW c \in Actors, Ends(c)
  PROVE  \E h : Moves(c, h) /\ h.pc \in {"idle", "boot"}
<1>1. PICK h : h = IF c = Boot THEN [Idle EXCEPT !.pc = "boot"] ELSE Idle OBVIOUS
<1>2. call' = [call EXCEPT ![c] = h] BY <1>1 DEF Ends
<1>3. h \in Handler /\ h.pc \in {"idle", "boot"} BY <1>1, IdleType
<1> QED BY <1>2, <1>3 DEF Moves

LEMMA GoesMoves ==
  ASSUME CallsOK, RowsMoveOn, NEW c \in Actors, call[c].pc \notin {"idle", "boot"},
         NEW pc \in Pcs \ {"idle", "boot", "bootstrap", "seed"}, Goes(c, pc),
         pc = "remove" => desk'[call[c].desk].state = "GONE"
  PROVE  \E h : Moves(c, h) /\ h.pc = pc /\ h.desk = call[c].desk
<1>1. PICK h : h = [call[c] EXCEPT !.pc = pc] OBVIOUS
<1>2. call' = [call EXCEPT ![c] = h] BY <1>1 DEF Goes
<1>3. h \in Handler /\ h.pc = pc /\ h.desk = call[c].desk BY <1>1 DEF CallsOK, Handler
<1> QED BY <1>2, <1>3 DEF Moves, CallsOK, RowsMoveOn, Created

LEMMA BeginsMoves ==
  ASSUME NEW c \in Actors, NEW d \in Desks, desk'[d].state # "NONE", Begins(c, d)
  PROVE  \E h : Moves(c, h) /\ h.pc = "bootstrap" /\ h.desk = d /\ h.step = 1
<1>1. PICK h : h = [Idle EXCEPT !.pc = "bootstrap", !.desk = d, !.step = 1] OBVIOUS
<1>2. d \in 0 .. MaxDesks /\ 1 \in 0 .. 6 /\ 1 \in 1 .. 6 BY DeskAssumption DEF Desks
<1>3. h \in Handler /\ h.pc = "bootstrap" /\ h.desk = d /\ h.step = 1
  BY <1>1, <1>2, IdleType DEF Handler, Pcs
<1>4. call' = [call EXCEPT ![c] = h] BY <1>1 DEF Begins
<1>5. Moves(c, h) BY <1>2, <1>3, <1>4 DEF Moves
<1> QED BY <1>3, <1>5

\* What a step does to the rows.
LEMMA RowsStep == ASSUME Kinds, [Next]_vars PROVE RowsOK' /\ RowsMoveOn
<1> USE DEF Kinds, RowsOK, Created, Named, RowsMoveOn, Exists
<1>1. CASE UNCHANGED desk BY <1>1
<1>2. ASSUME NEW d \in Desks, NEW state \in States \ {"NONE"},
             desk[d].state # "NONE", desk[d].state # "GONE",
             desk' = [desk EXCEPT ![d].state = state]
      PROVE  RowsOK' /\ RowsMoveOn
  <2>1. desk'[d] = [desk[d] EXCEPT !.state = state] /\ \A e \in Desks : e # d => desk'[e] = desk[e]
    BY <1>2
  <2>2. desk'[d] \in Row /\ desk'[d].state = state /\ desk'[d].name = desk[d].name
    BY <1>2, <2>1 DEF Row
  <2>3. desk' \in [Desks -> Row] BY <1>2, <2>1, <2>2
  <2>4. ASSUME NEW a \in Desks, NEW b \in Desks, a # b, Exists(a)', Exists(b)' PROVE Named(a)' # Named(b)'
    <3>1. Exists(d) BY <1>2 DEF States, Row
    <3>2. Exists(a) /\ Exists(b) /\ desk'[a].name = desk[a].name /\ desk'[b].name = desk[b].name
      BY <2>1, <2>2, <2>4, <3>1
    <3> QED BY <2>4, <3>2
  <2> QED BY <1>2, <2>1, <2>2, <2>3, <2>4
<1>3. ASSUME NEW c \in Callers, NEW d \in Desks, NEW n \in Names, Create(c, d, n)
      PROVE  RowsOK' /\ RowsMoveOn
  <2>1. PICK r : r = [state |-> "CREATING", name |-> n] OBVIOUS
  <2>2. desk' = [desk EXCEPT ![d] = r] /\ desk[d] = NoRow BY <1>3, <2>1 DEF Create
  <2>3. r \in Row /\ r.state = "CREATING" /\ r.name \in Names BY <2>1 DEF Row, States
  <2>4. desk[d].state = "NONE" BY <2>2 DEF NoRow
  <2>5. desk'[d] = r /\ \A e \in Desks : e # d => desk'[e] = desk[e] BY <2>2
  <2>6. ASSUME NEW a \in Desks, NEW b \in Desks, a # b, Exists(a)', Exists(b)' PROVE Named(a)' # Named(b)'
    <3>1. \A e \in Desks : Exists(e) => desk[e].name # n BY <1>3 DEF Create
    <3> QED BY <2>1, <2>5, <2>6, <3>1
  <2> QED BY <2>2, <2>3, <2>4, <2>5, <2>6
<1>4. ASSUME NEW c \in Actors, Finishes(c) PROVE RowsOK' /\ RowsMoveOn
  <2> DEFINE d == call[c].desk
  <2>1. call[c].pc \notin {"idle", "boot"} => d \in Desks /\ desk[d].state # "NONE"
    BY DEF CallsOK
  <2>2. CASE RetryUnit(c)
    <3>1. d \in Desks /\ desk[d].state # "NONE" BY <2>1, <2>2 DEF RetryUnit, At
    <3>2. \/ UNCHANGED desk
          \/ /\ desk[d].state \in {"CREATING", "FAILED"}
             /\ desk' = [desk EXCEPT ![d].state = "CREATING"]
      BY <2>2 DEF RetryUnit
    <3>3. "CREATING" \in States \ {"NONE"} BY DEF States
    <3> QED BY ONLY <1>1, <1>2, <3>1, <3>2, <3>3
  <2>3. CASE FinishReady(c)
    <3>1. d \in Desks /\ desk[d].state # "NONE" BY <2>1, <2>3 DEF FinishReady, At
    <3>2. \/ UNCHANGED desk
          \/ /\ desk[d].state \in {"CREATING", "READY"}
             /\ desk' = [desk EXCEPT ![d].state = "READY"]
      BY <2>3 DEF FinishReady, MarksReady
    <3>3. "READY" \in States \ {"NONE"} BY DEF States
    <3> QED BY ONLY <1>1, <1>2, <3>1, <3>2, <3>3
  <2>4. CASE FinishFailed(c)
    <3>1. d \in Desks /\ desk[d].state # "NONE" BY <2>1, <2>4 DEF FinishFailed, At
    <3>2. \/ UNCHANGED desk
          \/ /\ desk[d].state \in {"CREATING", "READY", "FAILED"}
             /\ desk' = [desk EXCEPT ![d].state = "FAILED"]
      BY <2>4 DEF FinishFailed, Exists
    <3>3. "FAILED" \in States \ {"NONE"} BY DEF States
    <3> QED BY ONLY <1>1, <1>2, <3>1, <3>2, <3>3
  <2> QED BY <1>1, <1>4, <2>2, <2>3, <2>4
          DEF Finishes, Bootstrap, LooksAtAgents, Looks, Seeds, LooksAtLink, Links, BootstrapFails
<1>5. ASSUME NEW c \in Callers, Prune(c) PROVE RowsOK' /\ RowsMoveOn
  <2>1. call[c].desk \in Desks BY <1>5 DEF Prune, At, CallsOK, Actors
  <2> QED BY <1>1, <1>2, <1>5, <2>1 DEF Prune, States, Exists
<1>6. CASE UNCHANGED vars BY <1>1, <1>6 DEF vars
<1> QED BY <1>1, <1>3, <1>4, <1>5, <1>6
        DEF Next, RetryLoads, ActivateLoads, MarketLoads, DeleteLoads, Spawn, OpenProcess, Ensure,
            Deletes, DeleteExits, DeleteShutdown, DeleteStops, Removes, ChildEnds, RowCloses,
            AgentEdits, Crash, BootNext, Serve

-------------------------------------------------------------------------------
(* What the steps do to a workspace *)

Kept(was, w)  == \A p \in Range(Parts) : was[p] # "absent" => w[p] # "absent"
Owned(was, w) == was["agents"] = "theirs" => w["agents"] = "theirs"
Grown(was, w) == w \in Workspace /\ w["dir"] # "absent" /\ Kept(was, w)

LEMMA BuiltGrows ==
  ASSUME NEW w \in Workspace, NEW part \in Range(Parts) \ {"link"}
  PROVE  /\ Grown(w, Built(w, part)) /\ Built(w, part)[part] # "absent"
         /\ part # "agents" => Owned(w, Built(w, part))
<1>1. PICK b : b = [w EXCEPT ![part] = "ours", !["dir"] = "ours"] OBVIOUS
<1>2. "dir" \in Range(Parts) /\ "agents" \in Range(Parts) BY PartNames
<1>3. /\ b \in Workspace /\ b["dir"] = "ours" /\ b[part] = "ours"
      /\ \A p \in Range(Parts) : p # part /\ p # "dir" => b[p] = w[p]
  BY <1>1, <1>2 DEF Workspace, Things
<1>4. Grown(w, b) /\ b[part] # "absent" BY <1>2, <1>3 DEF Grown, Kept
<1>5. part # "agents" => Owned(w, b) BY <1>2, <1>3 DEF Owned
<1> QED BY <1>1, <1>4, <1>5 DEF Built

LEMMA LinkedGrows ==
  ASSUME NEW w \in Workspace
  PROVE  LET l == [w EXCEPT !["link"] = "ours", !["skills"] = "ours", !["dir"] = "ours"] IN
         Grown(w, l) /\ Owned(w, l) /\ l["link"] # "absent"
<1>1. {"link", "skills", "dir", "agents"} \subseteq Range(Parts) BY PartNames
<1>2. PICK l : l = [w EXCEPT !["link"] = "ours", !["skills"] = "ours", !["dir"] = "ours"] OBVIOUS
<1>3. /\ l \in Workspace /\ l["link"] = "ours" /\ l["skills"] = "ours" /\ l["dir"] = "ours"
      /\ \A p \in Range(Parts) : p \notin {"link", "skills", "dir"} => l[p] = w[p]
  BY <1>1, <1>2 DEF Workspace, Things
<1>4. Grown(w, l) /\ Owned(w, l) /\ l["link"] # "absent" BY <1>1, <1>3 DEF Grown, Kept, Owned
<1> QED BY <1>2, <1>4

LEMMA ReconciledKept ==
  ASSUME NEW w \in Workspace, w["dir"] # "absent"
  PROVE  Grown(w, Reconciles(w)) /\ Owned(w, Reconciles(w))
<1>1. {"shim", "plugins", "link", "dir", "agents"} \subseteq Range(Parts) BY PartNames
<1>2. PICK t : t = IF w["link"] \in Nothing \cup {"theirs"} THEN "ours" ELSE w["link"] OBVIOUS
<1>3. t \in Things /\ t # "absent" BY <1>1, <1>2 DEF Nothing, Things, Workspace
<1>4. PICK r : r = [w EXCEPT !["shim"] = "ours", !["plugins"] = "ours", !["link"] = t] OBVIOUS
<1>5. Reconciles(w) = r BY <1>1, <1>2, <1>4 DEF Reconciles, Workspace
<1>6. /\ r \in Workspace /\ r["shim"] = "ours" /\ r["plugins"] = "ours" /\ r["link"] = t
      /\ \A p \in Range(Parts) : p \notin {"shim", "plugins", "link"} => r[p] = w[p]
  BY <1>1, <1>3, <1>4 DEF Workspace, Things
<1>7. Grown(w, r) /\ Owned(w, r) BY <1>1, <1>3, <1>6 DEF Grown, Kept, Owned
<1> QED BY <1>5, <1>7

\* One workspace grows, the others stay.
Grows(n, w) == n \in Names /\ files' = [files EXCEPT ![n] = w] /\ Grown(files[n], w)

LEMMA GrowsFiles ==
  ASSUME FilesOK, NEW n, NEW w, Grows(n, w)
  PROVE  /\ FilesOK' /\ files'[n] = w /\ \A m \in Names : Kept(files[m], files'[m])
         /\ \A m \in Names : m # n => files'[m] = files[m]
<1>1. files'[n] = w /\ \A m \in Names : m # n => files'[m] = files[m] BY DEF Grows, FilesOK
<1>2. files' \in [Names -> Workspace] BY DEF Grows, Grown, FilesOK
<1>3. ASSUME NEW m \in Names PROVE Kept(files[m], files'[m])
  BY <1>1 DEF Grows, Grown, Kept
<1>4. ASSUME NEW m \in Names, files'[m]["dir"] = "absent" PROVE files'[m] = Empty
  BY <1>1, <1>4 DEF Grows, Grown, FilesOK
<1> QED BY <1>1, <1>2, <1>3, <1>4 DEF FilesOK

\* Bootstrap and the write of AGENTS.md each put one part in place.
LEMMA BootstrapGrows ==
  ASSUME Kinds, NEW c \in Actors, Bootstrap(c) \/ Seeds(c)
  PROVE  \E n, w : /\ Grows(n, w) /\ n = Named(call[c].desk) /\ w[Parts[call[c].step]] # "absent"
                   /\ Bootstrap(c) => Owned(files[n], w)
<1> DEFINE n == Named(call[c].desk)
           part == Parts[call[c].step]
<1>1. n \in Names BY DEF Kinds, CallsOK, RowsOK, Created, Bootstrap, Seeds, At
<1>2. part \in Range(Parts) \ {"link"} /\ (Bootstrap(c) => part # "agents") /\ (Seeds(c) => part = "agents")
  BY PartNames DEF Kinds, CallsOK, Bootstrap, Seeds
<1>3. files[n] \in Workspace BY <1>1 DEF Kinds, FilesOK
<1>4. PICK w : w = Built(files[n], part) OBVIOUS
<1>5. Grown(files[n], w) /\ w[part] # "absent" /\ (Bootstrap(c) => Owned(files[n], w))
  BY <1>2, <1>3, <1>4, BuiltGrows
<1>6. files' = [files EXCEPT ![n] = w] BY <1>2, <1>4 DEF Bootstrap, Seeds
<1> QED BY <1>1, <1>5, <1>6 DEF Grows

LEMMA LinksGrows ==
  ASSUME Kinds, NEW c \in Actors, Links(c), files' # files
  PROVE  \E n, w : /\ Grows(n, w) /\ n = Named(call[c].desk) /\ w["link"] # "absent"
                   /\ Goes(c, "ready") /\ Owned(files[n], w)
<1> DEFINE n == Named(call[c].desk)
<1>1. n \in Names BY DEF Kinds, CallsOK, RowsOK, Created, Links, At
<1>2. files[n] \in Workspace BY <1>1 DEF Kinds, FilesOK
<1>3. PICK w : w = [files[n] EXCEPT !["link"] = "ours", !["skills"] = "ours", !["dir"] = "ours"] OBVIOUS
<1>4. Grown(files[n], w) /\ Owned(files[n], w) /\ w["link"] # "absent" BY <1>2, <1>3, LinkedGrows
<1>5. files' = [files EXCEPT ![n] = w] /\ Goes(c, "ready") BY <1>3 DEF Links
<1> QED BY <1>1, <1>4, <1>5 DEF Grows

LEMMA EditGrows ==
  ASSUME Kinds, NEW d \in Desks, AgentEdits(d)
  PROVE  \E n, w : Grows(n, w) /\ Owned(files[n], w)
<1> DEFINE n == Named(d)
<1>1. n \in Names /\ files[n] \in Workspace
  BY DEF Kinds, RowsOK, FilesOK, Created, AgentEdits, NoRow
<1>2. PICK e \in {<<"agents", "theirs">>, <<"shim", "theirs">>, <<"link", "theirs">>,
                  <<"link", "plain">>, <<"link", "removed">>} :
         files' = [files EXCEPT ![n][e[1]] = e[2]]
  BY DEF AgentEdits
<1>3. /\ e[1] \in Range(Parts) \ {"dir"} /\ e[2] \in Things \ {"absent"}
      /\ e[1] = "agents" => e[2] = "theirs"
  BY PartNames DEF Things
<1>4. PICK w : w = [files[n] EXCEPT ![e[1]] = e[2]] OBVIOUS
<1>5. files' = [files EXCEPT ![n] = w] BY <1>2, <1>4
<1>6. /\ w \in Workspace /\ w[e[1]] = e[2]
      /\ \A p \in Range(Parts) : p # e[1] => w[p] = files[n][p]
  BY <1>1, <1>3, <1>4 DEF Workspace
<1>7. files[n]["dir"] # "absent" /\ {"dir", "agents"} \subseteq Range(Parts)
  BY PartNames DEF AgentEdits
<1>8. Grown(files[n], w) /\ Owned(files[n], w) BY <1>3, <1>6, <1>7 DEF Grown, Kept, Owned
<1> QED BY <1>1, <1>5, <1>8 DEF Grows

\* Nothing of a workspace is lost, and nothing the agent wrote.
Intact(n) == Kept(files[n], files'[n]) /\ Owned(files[n], files'[n])

LEMMA ServeKeeps ==
  ASSUME Kinds, Serve
  PROVE  FilesOK' /\ \A n \in Names : Intact(n)
<1> USE DEF Kinds
<1>1. CASE UNCHANGED files BY <1>1 DEF FilesOK, Intact, Kept, Owned
<1>2. CASE files' = [n \in Names |->
             IF \E d \in Desks : desk[d] = [state |-> "READY", name |-> n] THEN Reconciles(files[n]) ELSE files[n]]
  <2>1. ASSUME NEW n \in Names
        PROVE  /\ files'[n] \in Workspace /\ Intact(n)
               /\ files'[n]["dir"] = "absent" => files'[n] = Empty
    <3>1. CASE files'[n] = files[n] BY <3>1 DEF FilesOK, Intact, Kept, Owned
    <3>2. CASE files'[n] = Reconciles(files[n]) /\ files[n]["dir"] # "absent"
      BY <3>2, ReconciledKept DEF FilesOK, Grown, Intact
    <3>3. files'[n] = files[n] \/ files'[n] = Reconciles(files[n]) BY <1>2
    <3>4. files[n]["dir"] = "absent" => Reconciles(files[n]) = files[n] BY DEF Reconciles
    <3> QED BY <3>1, <3>2, <3>3, <3>4
  <2> QED BY <1>2, <2>1 DEF FilesOK
<1> QED BY <1>1, <1>2 DEF Serve

\* What a step does to the workspaces: nothing is lost but what a deletion removes, and
\* what the agent wrote but to the write of AGENTS.md.
LEMMA FilesStep ==
  ASSUME Kinds, [Next]_vars
  PROVE  /\ FilesOK'
         /\ \A n \in Names :
              \/ Intact(n)
              \/ \E c \in Callers : Removes(c) /\ Named(call[c].desk) = n
              \/ \E c \in Actors : Seeds(c) /\ Named(call[c].desk) = n /\ Kept(files[n], files'[n])
<1> DEFINE AllIntact == FilesOK' /\ \A m \in Names : Intact(m)
<1>1. CASE UNCHANGED files BY <1>1 DEF Kinds, FilesOK, Intact, Kept, Owned
<1>2. ASSUME NEW n, NEW w, Grows(n, w)
      PROVE  /\ FilesOK' /\ \A m \in Names : Kept(files[m], files'[m])
             /\ \A m \in Names : m # n => Intact(m)
             /\ Owned(files[n], w) => AllIntact
  <2>1. /\ FilesOK' /\ files'[n] = w /\ \A m \in Names : Kept(files[m], files'[m])
        /\ \A m \in Names : m # n => files'[m] = files[m]
    BY <1>2, GrowsFiles DEF Kinds
  <2> QED BY <2>1 DEF Intact, Owned
<1>3. ASSUME NEW c \in Actors, Bootstrap(c) PROVE AllIntact
  BY <1>2, <1>3, BootstrapGrows
<1>3a. ASSUME NEW c \in Actors, Seeds(c)
       PROVE  /\ FilesOK'
              /\ \A n \in Names : Intact(n) \/ (Named(call[c].desk) = n /\ Kept(files[n], files'[n]))
  BY <1>2, <1>3a, BootstrapGrows
<1>4. ASSUME NEW c \in Actors, Links(c), files' # files PROVE AllIntact
  BY <1>2, <1>4, LinksGrows
<1>5. ASSUME NEW d \in Desks, AgentEdits(d) PROVE AllIntact
  BY <1>2, <1>5, EditGrows
<1>6. ASSUME NEW c \in Callers, Removes(c), files' # files
      PROVE  /\ FilesOK'
             /\ \A n \in Names : Intact(n) \/ Named(call[c].desk) = n
  <2> DEFINE m == Named(call[c].desk)
  <2>1. files' = [files EXCEPT ![m] = Empty] BY <1>6 DEF Removes
  <2>2. Empty \in Workspace BY DEF Empty, Workspace, Things
  <2>3. files' \in [Names -> Workspace] BY <2>1, <2>2 DEF Kinds, FilesOK
  <2>4. \A n \in Names : IF n = m THEN files'[n] = Empty ELSE files'[n] = files[n]
    BY <2>1 DEF Kinds, FilesOK
  <2> QED BY <2>3, <2>4 DEF Kinds, FilesOK, Intact, Kept, Owned
<1>7. CASE Serve BY <1>7, ServeKeeps
<1>8. CASE UNCHANGED vars BY <1>1, <1>8 DEF vars
<1>9. ASSUME NEW c \in Actors, Finishes(c), ~Seeds(c) PROVE AllIntact
  BY <1>1, <1>3, <1>4, <1>9
     DEF Finishes, RetryUnit, LooksAtAgents, Looks, LooksAtLink, Links, BootstrapFails, FinishReady, MarksReady,
         FinishFailed, Kinds, FilesOK, Intact, Kept, Owned
<1>10. ASSUME NEW c \in Callers, Deletes(c)
       PROVE  FilesOK' /\ \A n \in Names : Intact(n) \/ (Removes(c) /\ Named(call[c].desk) = n)
  BY <1>6, <1>10
     DEF Deletes, DeleteExits, DeleteShutdown, DeleteStops, Prune, Removes, Kinds, FilesOK, Intact, Kept, Owned
<1> QED BY <1>1, <1>3a, <1>5, <1>7, <1>8, <1>9, <1>10
        DEF Next, Create, RetryLoads, ActivateLoads, MarketLoads, DeleteLoads, Spawn, OpenProcess, Ensure,
            ChildEnds, RowCloses, Crash, BootNext

-------------------------------------------------------------------------------
(* What a step does to the handlers *)

\* How a handler comes to what it says of the workspace, or of the row.
Arrives(c, h) ==
  \/ h.pc \notin {"bootstrap", "seed", "link", "ready"}
  \/ h.pc = "bootstrap" /\ h.step = 1
  \/ Bootstrap(c) /\ h.pc = "bootstrap" /\ h.desk = call[c].desk /\ h.step = call[c].step + 1
  \/ Seeds(c) /\ h.pc = "bootstrap" /\ h.desk = call[c].desk /\ h.step = call[c].step + 1
  \/ LooksAtAgents(c) /\ h.pc = "seed" /\ h.desk = call[c].desk
  \/ /\ LooksAtAgents(c) /\ h.pc = "bootstrap" /\ h.desk = call[c].desk /\ h.step = call[c].step + 1
     /\ files[Named(call[c].desk)]["agents"] # "absent"
  \/ LooksAtLink(c) /\ h.pc = "link" /\ h.desk = call[c].desk
  \/ /\ LooksAtLink(c) /\ h.pc = "ready" /\ h.desk = call[c].desk
     /\ files[Named(call[c].desk)]["link"] # "absent"
  \/ Links(c) /\ h.pc = "ready" /\ h.desk = call[c].desk /\ files' # files
  \/ Links(c) /\ h.pc = "ready" /\ h.desk = call[c].desk /\ files[Named(call[c].desk)]["link"] # "absent"

Turns(c) == \E h : Moves(c, h) /\ Arrives(c, h)

LEMMA EndsTurns == ASSUME NEW c \in Actors, Ends(c) PROVE Turns(c)
BY EndsMoves DEF Turns, Arrives

LEMMA LoadsTurns ==
  ASSUME Kinds, RowsMoveOn, NEW c \in Actors, NEW d \in Desks,
         RetryLoads(c, d) \/ ActivateLoads(c, d) \/ MarketLoads(c, d) \/ DeleteLoads(c, d)
  PROVE  Turns(c)
<1>1. Created(d) BY DEF RetryLoads, ActivateLoads, MarketLoads, DeleteLoads, Exists, Created
<1>2. desk'[d].state # "NONE" BY <1>1 DEF RowsMoveOn
<1>3. PICK pc \in {"retry", "spawn", "ensure", "exit", "shutdown"} :
        call' = [call EXCEPT ![c] = [Idle EXCEPT !.pc = pc, !.desk = d]]
  BY DEF RetryLoads, ActivateLoads, MarketLoads, DeleteLoads
<1>4. pc \in Pcs \ {"idle", "boot", "bootstrap", "seed", "remove"} BY DEF Pcs
<1>5. PICK h : h = [Idle EXCEPT !.pc = pc, !.desk = d] OBVIOUS
<1>6. call' = [call EXCEPT ![c] = h] BY <1>3, <1>5
<1>7. d \in 0 .. MaxDesks BY DeskAssumption DEF Desks
<1>8. h \in Handler /\ h.pc = pc /\ h.desk = d BY <1>4, <1>5, <1>7, IdleType DEF Handler
<1>9. Moves(c, h) BY <1>2, <1>4, <1>6, <1>8 DEF Moves
<1> QED BY <1>3, <1>8, <1>9 DEF Turns, Arrives

\* A step to a place that says nothing.
LEMMA GoesTurns ==
  ASSUME Kinds, RowsMoveOn, NEW c \in Actors, call[c].pc \notin {"idle", "boot"},
         NEW pc \in {"failed", "open", "shutdown", "stop", "prune"}, Goes(c, pc)
  PROVE  Turns(c)
BY GoesMoves DEF Turns, Arrives, Kinds, Pcs

LEMMA BeginsTurns ==
  ASSUME NEW c \in Actors, NEW d \in Desks, desk'[d].state # "NONE", Begins(c, d)
  PROVE  Turns(c)
BY BeginsMoves DEF Turns, Arrives

LEMMA FinishesTurn ==
  ASSUME Kinds, RowsMoveOn, NEW c \in Actors, Finishes(c)
  PROVE  Turns(c)
<1> DEFINE d == call[c].desk
<1>0. call[c].pc \notin {"idle", "boot"}
  BY DEF Finishes, RetryUnit, Bootstrap, LooksAtAgents, Looks, Seeds, LooksAtLink, Links,
         BootstrapFails, FinishReady, FinishFailed, At
<1>1. d \in Desks /\ desk'[d].state # "NONE" BY <1>0 DEF Kinds, CallsOK, RowsMoveOn, Created
<1>2. CASE RetryUnit(c) BY <1>1, <1>2, EndsTurns, BeginsTurns DEF RetryUnit
<1>3. ASSUME call[c].pc \in {"bootstrap", "seed"}, call[c].step \in 1 .. 5,
             call' = [call EXCEPT ![c].pc = "bootstrap", ![c].step = @ + 1]
      PROVE  \E h : Moves(c, h) /\ h.pc = "bootstrap" /\ h.desk = d /\ h.step = call[c].step + 1
  <2>1. PICK k : k = call[c].step + 1 OBVIOUS
  <2>2. k \in 1 .. 6 /\ k \in 0 .. 6 BY <1>3, <2>1
  <2>3. PICK h : h = [call[c] EXCEPT !.pc = "bootstrap", !.step = k] OBVIOUS
  <2>4. h \in Handler /\ h.step = k /\ h.pc = "bootstrap" /\ h.desk = d
    BY <2>2, <2>3 DEF Kinds, CallsOK, Handler, Pcs
  <2>5. call' = [call EXCEPT ![c] = h] BY <1>3, <2>1, <2>3
  <2>6. Moves(c, h) BY <1>1, <2>2, <2>4, <2>5 DEF Moves
  <2> QED BY <2>1, <2>4, <2>6
<1>3a. ASSUME At(c, "bootstrap"), call' = [call EXCEPT ![c].step = @ + 1], Parts[call[c].step] # "link"
       PROVE  \E h : Moves(c, h) /\ h.pc = "bootstrap" /\ h.desk = d /\ h.step = call[c].step + 1
  <2>1. call[c].step \in 1 .. 5 BY <1>3a, PartNames DEF Kinds, CallsOK
  <2>2. call[c] = [call[c] EXCEPT !.pc = "bootstrap"] BY <1>3a DEF At, Kinds, CallsOK, Handler
  <2>3. call' = [call EXCEPT ![c].pc = "bootstrap", ![c].step = @ + 1] BY <1>3a, <2>2
  <2> QED BY <1>3, <1>3a, <2>1, <2>3 DEF At
<1>3b. CASE Bootstrap(c)
  <2>1. \E h : Moves(c, h) /\ h.pc = "bootstrap" /\ h.desk = d /\ h.step = call[c].step + 1
    BY <1>3a, <1>3b DEF Bootstrap
  <2> QED BY <1>3b, <2>1 DEF Turns, Arrives
<1>3c. CASE Seeds(c)
  <2>1. call[c].step \in 1 .. 5 /\ call[c].pc = "seed" BY <1>3c DEF Seeds, At, Kinds, CallsOK
  <2>2. \E h : Moves(c, h) /\ h.pc = "bootstrap" /\ h.desk = d /\ h.step = call[c].step + 1
    BY <1>3, <1>3c, <2>1 DEF Seeds
  <2> QED BY <1>3c, <2>2 DEF Turns, Arrives
<1>3d. CASE LooksAtAgents(c)
  <2>1. CASE files[Named(d)]["agents"] = "absent"
    <3>1. PICK h : h = [call[c] EXCEPT !.pc = "seed", !.saw = "absent"] OBVIOUS
    <3>2. call[c].step = 2 BY <1>3d, PartNames DEF LooksAtAgents, Looks, Kinds, CallsOK
    <3>3. h \in Handler /\ h.pc = "seed" /\ h.desk = d /\ h.step = 2 /\ h.saw = "absent"
      BY <3>1, <3>2 DEF Kinds, CallsOK, Handler, Pcs, Things
    <3>4. call' = [call EXCEPT ![c] = h] BY <1>3d, <2>1, <3>1 DEF LooksAtAgents, Looks
    <3>5. Moves(c, h) BY <1>1, <3>3, <3>4 DEF Moves
    <3> QED BY <1>3d, <3>3, <3>5 DEF Turns, Arrives
  <2>2. CASE files[Named(d)]["agents"] # "absent"
    <3>1. \E h : Moves(c, h) /\ h.pc = "bootstrap" /\ h.desk = d /\ h.step = call[c].step + 1
      BY <1>3a, <1>3d, <2>2 DEF LooksAtAgents, Looks
    <3> QED BY <1>3d, <2>2, <3>1 DEF Turns, Arrives
  <2> QED BY <2>1, <2>2
<1>4. CASE LooksAtLink(c)
  <2>1. CASE Goes(c, "ready") /\ files[Named(d)]["link"] \in {"ours", "plain"}
    <3>1. \E h : Moves(c, h) /\ h.pc = "ready" /\ h.desk = d BY <1>0, <2>1, GoesMoves DEF Kinds, Pcs
    <3> QED BY <1>4, <2>1, <3>1 DEF Turns, Arrives
  <2>2. ASSUME call' = [call EXCEPT ![c].pc = "link", ![c].saw = files[Named(d)]["link"]] PROVE Turns(c)
    <3>1. PICK saw : saw = files[Named(d)]["link"] OBVIOUS
    <3>2. saw \in Things BY <1>1, <1>0, <3>1, PartNames DEF Kinds, CallsOK, RowsOK, FilesOK, Workspace
    <3>3. PICK h : h = [call[c] EXCEPT !.pc = "link", !.saw = saw] OBVIOUS
    <3>4. h \in Handler /\ h.pc = "link" /\ h.desk = d
      BY <3>2, <3>3 DEF Kinds, CallsOK, Handler, Pcs
    <3>5. call' = [call EXCEPT ![c] = h] BY <2>2, <3>1, <3>3
    <3>6. Moves(c, h) BY <1>1, <3>4, <3>5 DEF Moves
    <3> QED BY <1>4, <3>4, <3>6 DEF Turns, Arrives
  <2> QED BY <1>4, <2>1, <2>2 DEF LooksAtLink
<1>5. CASE Links(c)
  <2>1. CASE Goes(c, "ready") /\ Linkable(c)
    <3>1. \E h : Moves(c, h) /\ h.pc = "ready" /\ h.desk = d BY <1>0, <2>1, GoesMoves DEF Kinds, Pcs
    <3>2. CASE files' # files BY <1>5, <3>1, <3>2 DEF Turns, Arrives
    <3>3. CASE files' = files
      <4>1. Named(d) \in Names BY <1>0 DEF Kinds, CallsOK, RowsOK, Created
      <4>2. files' = [files EXCEPT ![Named(d)] =
                        [@ EXCEPT !["link"] = "ours", !["skills"] = "ours", !["dir"] = "ours"]]
        BY <1>5, <2>1 DEF Links, Goes
      <4>3. PICK w : w = [files[Named(d)] EXCEPT !["link"] = "ours", !["skills"] = "ours", !["dir"] = "ours"]
        OBVIOUS
      <4>4. w["link"] # "absent" BY <4>1, <4>3, LinkedGrows DEF Kinds, FilesOK
      <4>5. files'[Named(d)] = w BY <4>1, <4>2, <4>3 DEF Kinds, FilesOK
      <4> QED BY <1>5, <3>1, <3>3, <4>4, <4>5 DEF Turns, Arrives
    <3> QED BY <3>2, <3>3
  <2>2. CASE Goes(c, "failed") BY <1>0, <2>2, GoesTurns
  <2> QED BY <1>5, <2>1, <2>2 DEF Links
<1>6. CASE BootstrapFails(c) BY <1>0, <1>6, GoesTurns DEF BootstrapFails
<1>7. CASE FinishReady(c) BY <1>7, EndsTurns DEF FinishReady, MarksReady
<1>8. CASE FinishFailed(c) BY <1>8, EndsTurns DEF FinishFailed
<1> QED BY <1>2, <1>3b, <1>3c, <1>3d, <1>4, <1>5, <1>6, <1>7, <1>8 DEF Finishes

LEMMA DeletesTurn ==
  ASSUME Kinds, RowsMoveOn, NEW c \in Callers,
         Deletes(c) \/ Spawn(c) \/ OpenProcess(c) \/ Ensure(c)
  PROVE  Turns(c)
<1>1. c \in Actors BY DEF Actors
<1>2. CASE DeleteExits(c) BY <1>1, <1>2, GoesTurns, EndsTurns DEF DeleteExits, At
<1>3. CASE DeleteShutdown(c) BY <1>1, <1>3, GoesTurns DEF DeleteShutdown, At
<1>4. CASE DeleteStops(c) BY <1>1, <1>4, GoesTurns DEF DeleteStops, At
<1>5. CASE Prune(c)
  <2>1. CASE Goes(c, "remove") /\ desk' = [desk EXCEPT ![call[c].desk].state = "GONE"]
    <3>1. call[c].desk \in Desks BY <1>1, <1>5 DEF Kinds, CallsOK, Created, Prune, At
    <3>2. desk'[call[c].desk].state = "GONE" BY <2>1, <3>1 DEF Kinds, RowsOK, Row
    <3>3. \E h : Moves(c, h) /\ h.pc = "remove" /\ h.desk = call[c].desk
      BY <1>1, <1>5, <2>1, <3>2, GoesMoves DEF Kinds, Pcs, Prune, At
    <3> QED BY <3>3 DEF Turns, Arrives
  <2> QED BY <1>1, <1>5, <2>1, EndsTurns DEF Prune
<1>6. CASE Removes(c) BY <1>1, <1>6, EndsTurns DEF Removes
<1>7. CASE Spawn(c) BY <1>1, <1>7, GoesTurns, EndsTurns DEF Spawn, At
<1>8. CASE OpenProcess(c) BY <1>1, <1>8, EndsTurns DEF OpenProcess
<1>9. CASE Ensure(c) BY <1>1, <1>9, EndsTurns DEF Ensure
<1> QED BY <1>2, <1>3, <1>4, <1>5, <1>6, <1>7, <1>8, <1>9 DEF Deletes

LEMMA ServesTurn == ASSUME Serve PROVE Turns(Boot)
<1>1. PICK h : h = Idle OBVIOUS
<1>2. call' = [call EXCEPT ![Boot] = h] /\ h \in Handler /\ h.pc = "idle"
  BY <1>1, IdleType DEF Serve
<1>3. Moves(Boot, h) BY <1>2 DEF Moves, Actors
<1> QED BY <1>2, <1>3 DEF Turns, Arrives

LEMMA CallsTurn ==
  ASSUME Kinds, RowsMoveOn, [Next]_vars
  PROVE  call' = call \/ Crash \/ \E c \in Actors : Turns(c)
<1>1. ASSUME NEW c \in Callers, NEW d \in Desks, NEW n \in Names, Create(c, d, n) PROVE Turns(c)
  <2>1. desk'[d].state = "CREATING" BY <1>1 DEF Create, Kinds, RowsOK, Row
  <2> QED BY <1>1, <2>1, BeginsTurns DEF Create, Actors
<1>2. ASSUME BootNext PROVE Turns(Boot)
  <2>1. PICK d \in Desks : Interrupted(d) /\ Begins(Boot, d) BY <1>2 DEF BootNext
  <2>2. desk'[d].state # "NONE" BY <1>2, <2>1 DEF BootNext, Interrupted
  <2> QED BY <2>1, <2>2, BeginsTurns DEF Actors
<1>3. CASE UNCHANGED vars BY <1>3 DEF vars
<1>4. Callers \subseteq Actors /\ Boot \in Actors BY DEF Actors
<1> QED BY <1>1, <1>2, <1>3, <1>4, LoadsTurns, FinishesTurn, DeletesTurn, ServesTurn
        DEF Next, ChildEnds, RowCloses, AgentEdits

LEMMA CrashCalls ==
  ASSUME Crash
  PROVE  call' \in [Actors -> Handler] /\ \A c \in Actors : call'[c].pc \in {"idle", "boot"}
<1>1. PICK b : b = [Idle EXCEPT !.pc = "boot"] OBVIOUS
<1>2. b \in Handler /\ b.pc = "boot" /\ Idle \in Handler /\ Idle.pc = "idle" BY <1>1, IdleType
<1>3. call' = [c \in Actors |-> IF c = Boot THEN b ELSE Idle] BY <1>1 DEF Crash
<1> QED BY <1>2, <1>3

LEMMA KindsStep == ASSUME Kinds, [Next]_vars PROVE Kinds'
<1>1. RowsOK' /\ RowsMoveOn BY RowsStep
<1> SUFFICES CallsOK' BY <1>1, FilesStep DEF Kinds
<1>2. CASE call' = call
  BY <1>1, <1>2 DEF Kinds, CallsOK, RowsMoveOn, Created, At
<1>3. CASE Crash BY <1>3, CrashCalls DEF CallsOK, At
<1>4. ASSUME NEW c \in Actors, Turns(c) PROVE CallsOK'
  BY <1>1, <1>4, MovesType DEF Turns, Kinds
<1> QED BY <1>1, <1>2, <1>3, <1>4, CallsTurn

LEMMA KindsInit == Init => Kinds
<1> SUFFICES ASSUME Init PROVE Kinds OBVIOUS
<1>1. NoRow \in Row /\ NoRow.state = "NONE" BY DEF NoRow, Row, States
<1>2. RowsOK BY <1>1 DEF Init, RowsOK, Created, Exists
<1>3. Empty \in Workspace BY DEF Empty, Workspace, Things
<1>4. FilesOK BY <1>3 DEF Init, FilesOK
<1>5. CallsOK BY IdleType DEF Init, CallsOK, At
<1> QED BY <1>2, <1>4, <1>5 DEF Kinds

LEMMA KindsHold == Spec => []Kinds
<1>1. Kinds /\ [Next]_vars => Kinds' BY KindsStep
<1> QED BY <1>1, KindsInit, PTL DEF Spec

-------------------------------------------------------------------------------
(* The type invariant *)

\* Rows of agent processes and what runs are for desks of the daemon's; nothing
\* of startup's is in progress while the listener accepts.
ActingOK == /\ row \subseteq {d \in Desks : Exists(d)}
            /\ child \subseteq Desks /\ node \subseteq Desks
            /\ up \in BOOLEAN /\ (up = TRUE => call[Boot] = Idle)

\* A desk that exists is left only by a deletion.
LEMMA ExistsStep ==
  ASSUME Kinds, [Next]_vars, NEW d \in Desks, Exists(d)
  PROVE  Exists(d)' \/ \E c \in Callers : Prune(c) /\ call[c].desk = d
<1> USE DEF Kinds, RowsOK, Exists
<1>1. CASE UNCHANGED desk BY <1>1
<1>2. ASSUME NEW e \in Desks, NEW state \in {"CREATING", "READY", "FAILED"},
             desk' = [desk EXCEPT ![e].state = state]
      PROVE  Exists(d)'
  BY <1>2 DEF Row
<1>3. ASSUME NEW c \in Callers, NEW e \in Desks, NEW n \in Names, Create(c, e, n) PROVE Exists(d)'
  BY <1>3 DEF Create, NoRow
<1>4. ASSUME NEW c \in Actors, Finishes(c) PROVE Exists(d)'
  <2>1. call[c].pc \notin {"idle", "boot"} => call[c].desk \in Desks BY DEF CallsOK, Created
  <2> QED BY <1>1, <1>2, <1>4, <2>1
          DEF Finishes, Bootstrap, LooksAtAgents, Looks, Seeds, LooksAtLink, Links, BootstrapFails, RetryUnit, FinishReady,
              MarksReady, FinishFailed, At
<1>5. ASSUME NEW c \in Callers, Prune(c), call[c].desk # d PROVE Exists(d)'
  <2>1. call[c].desk \in Desks BY <1>5 DEF Prune, At, CallsOK, Created, Actors
  <2> QED BY <1>1, <1>5, <2>1 DEF Prune
<1>6. CASE UNCHANGED vars BY <1>1, <1>6 DEF vars
<1> QED BY <1>1, <1>3, <1>4, <1>5, <1>6
        DEF Next, RetryLoads, ActivateLoads, MarketLoads, DeleteLoads, Spawn, OpenProcess, Ensure,
            Deletes, DeleteExits, DeleteShutdown, DeleteStops, Removes, ChildEnds, RowCloses,
            AgentEdits, Crash, BootNext, Serve

LEMMA RowStep ==
  ASSUME Kinds, ActingOK, [Next]_vars
  PROVE  \A d \in row' : d \in Desks /\ (d \in row \/ Exists(d)')
                        /\ ~\E c \in Callers : Prune(c) /\ call[c].desk = d
<1> SUFFICES ASSUME NEW d \in row'
             PROVE  /\ d \in Desks /\ (d \in row \/ Exists(d)')
                    /\ ~\E c \in Callers : Prune(c) /\ call[c].desk = d
  OBVIOUS
<1>1. d \in row \/ \E c \in Callers : OpenProcess(c) /\ Exists(d) /\ d = call[c].desk /\ At(c, "open")
  BY DEF Next, vars, acting, Create, RetryLoads, ActivateLoads, MarketLoads, DeleteLoads, Spawn,
         OpenProcess, Ensure, Finishes, RetryUnit, Bootstrap, LooksAtAgents, Looks, Seeds, LooksAtLink, Links, BootstrapFails,
         FinishReady, MarksReady, FinishFailed, Deletes, DeleteExits, DeleteShutdown, DeleteStops,
         Prune, Removes, ChildEnds, RowCloses, AgentEdits, Crash, BootNext, Serve
<1>2. ASSUME NEW c \in Callers, OpenProcess(c), Exists(d), d = call[c].desk, At(c, "open")
      PROVE  d \in Desks /\ Exists(d)'
  BY <1>2 DEF Kinds, CallsOK, At, Created, Actors, OpenProcess, Exists
<1>3. ASSUME NEW c \in Callers, Prune(c), call[c].desk = d PROVE FALSE
  <2>1. CASE ~Exists(d) /\ UNCHANGED row BY <1>3, <2>1 DEF ActingOK
  <2> QED BY <1>3, <2>1 DEF Prune
<1> QED BY <1>1, <1>2, <1>3 DEF ActingOK

LEMMA ActingStep == ASSUME Kinds, ActingOK, [Next]_vars PROVE ActingOK'
<1>1. row' \subseteq {d \in Desks : Exists(d)'}
  BY RowStep, ExistsStep DEF ActingOK
<1>2. ASSUME NEW c \in Callers, Spawn(c) \/ Ensure(c) PROVE call[c].desk \in Desks
  BY <1>2 DEF Spawn, Ensure, At, Kinds, CallsOK, Created, Actors
<1>3. child' \subseteq Desks /\ node' \subseteq Desks
  BY <1>2 DEF ActingOK, Next, vars, acting, Create, RetryLoads, ActivateLoads, MarketLoads, DeleteLoads,
         Spawn, OpenProcess, Ensure, Finishes, RetryUnit, Bootstrap, LooksAtAgents, Looks, Seeds, LooksAtLink, Links, BootstrapFails,
         FinishReady, MarksReady, FinishFailed, Deletes, DeleteExits, DeleteShutdown, DeleteStops,
         Prune, Removes, ChildEnds, RowCloses, AgentEdits, Crash, BootNext, Serve
<1>4. up' \in BOOLEAN
  BY DEF ActingOK, Next, vars, acting, Create, RetryLoads, ActivateLoads, MarketLoads, DeleteLoads,
         Spawn, OpenProcess, Ensure, Finishes, RetryUnit, Bootstrap, LooksAtAgents, Looks, Seeds, LooksAtLink, Links, BootstrapFails,
         FinishReady, MarksReady, FinishFailed, Deletes, DeleteExits, DeleteShutdown, DeleteStops,
         Prune, Removes, ChildEnds, RowCloses, AgentEdits, Crash, BootNext, Serve
<1>5. ASSUME up' = TRUE PROVE call'[Boot] = Idle
  <2>1. Boot \in Actors /\ \A c \in Callers : c # Boot /\ c \in Actors BY DeskAssumption DEF Actors
  <2>2. CASE Serve BY <2>1, <2>2 DEF Serve, Kinds, CallsOK
  <2>3. CASE Crash BY <1>5, <2>3 DEF Crash
  <2>4. ASSUME NEW c \in Actors, Finishes(c) PROVE call'[Boot] = Idle
    <3>1. up = TRUE BY <1>5, <2>4
      DEF Finishes, RetryUnit, Bootstrap, LooksAtAgents, Looks, Seeds, LooksAtLink, Links, BootstrapFails, FinishReady, MarksReady, FinishFailed
    <3>2. call[Boot] = Idle /\ c # Boot
      BY <2>4, <3>1, IdleType DEF ActingOK, Finishes, RetryUnit, Bootstrap, LooksAtAgents, Looks, Seeds, LooksAtLink, Links,
         BootstrapFails, FinishReady, FinishFailed, At
    <3>3. PICK h : Moves(c, h) BY <2>4, RowsStep, FinishesTurn DEF Turns
    <3> QED BY <2>1, <3>2, <3>3, RowsStep, MovesType DEF Kinds
  <2>5. CASE BootNext
    <3>1. up = TRUE => call[Boot].pc = "idle" BY IdleType DEF ActingOK
    <3> QED BY <1>5, <2>5, <3>1 DEF BootNext, At
  <2>6. ASSUME up = TRUE, NEW c \in Callers, Turns(c) PROVE call'[Boot] = Idle
    BY <2>1, <2>6, RowsStep, MovesType DEF Turns, Kinds, ActingOK
  <2>7. ASSUME NEW c \in Callers, NEW d \in Desks,
               \/ \E n \in Names : Create(c, d, n)
               \/ RetryLoads(c, d) \/ ActivateLoads(c, d) \/ MarketLoads(c, d) \/ DeleteLoads(c, d)
        PROVE  Turns(c) /\ up = TRUE
    <3>1. CASE \E n \in Names : Create(c, d, n)
      <4>1. desk'[d].state = "CREATING" BY <3>1 DEF Create, Kinds, RowsOK, Row
      <4> QED BY <2>1, <3>1, <4>1, <1>5, BeginsTurns DEF Create
    <3> QED BY <2>1, <2>7, <3>1, <1>5, LoadsTurns, RowsStep
            DEF RetryLoads, ActivateLoads, MarketLoads, DeleteLoads
  <2>8. ASSUME NEW c \in Callers, Spawn(c) \/ OpenProcess(c) \/ Ensure(c) \/ Deletes(c)
        PROVE  Turns(c) /\ up = TRUE
    BY <1>5, <2>8, DeletesTurn, RowsStep
       DEF Spawn, OpenProcess, Ensure, Deletes, DeleteExits, DeleteShutdown, DeleteStops, Prune, Removes
  <2>9. CASE UNCHANGED <<call, up>> BY <1>5, <2>9 DEF ActingOK
  <2> QED BY <2>2, <2>3, <2>4, <2>5, <2>6, <2>7, <2>8, <2>9
          DEF Next, vars, ChildEnds, RowCloses, AgentEdits
<1> QED BY <1>1, <1>3, <1>4, <1>5 DEF ActingOK, Exists

\* Every variable has its type: names of desks that exist are distinct, what is in a
\* workspace is in its directory, and nothing of startup's runs beside the listener.
THEOREM Typing == Spec => []TypeOK
<1>1. Init => ActingOK BY DEF Init, ActingOK, Actors
<1>2. Kinds /\ ActingOK /\ [Next]_vars => ActingOK' BY ActingStep
<1>3. Kinds /\ ActingOK => TypeOK
  <2> SUFFICES ASSUME Kinds, ActingOK PROVE TypeOK OBVIOUS
  <2>1. ASSUME NEW d \in Desks
        PROVE  desk[d] = NoRow \/ (desk[d].state \in {"CREATING", "READY", "FAILED", "GONE"} /\ Named(d) \in Names)
    BY DEF Kinds, RowsOK, Created, Row, States
  <2>2. ASSUME NEW c \in Actors PROVE call[c].desk \in 0 .. MaxDesks /\ call[c].step \in 0 .. Len(Parts)
    BY PartNames DEF Kinds, CallsOK, Handler
  <2> QED BY <2>1, <2>2 DEF TypeOK, ActingOK, Kinds, RowsOK, FilesOK
<1> QED BY <1>1, <1>2, <1>3, KindsHold, PTL DEF Spec

-------------------------------------------------------------------------------
(* What the agent owns *)

\* desk.rs:209, root SPEC 5.1: what an agent wrote in its constitution is lost only to a
\* completion that found the file missing before, or to the end of an earlier deletion.
THEOREM OwnedByAgents == Spec => AgentsKept
<1> DEFINE Stays(d) == Exists(d) /\ files[Named(d)]["agents"] = "theirs" =>
             \/ files'[Named(d)]["agents"] = "theirs"
             \/ \E c \in Actors :
                  /\ call'[c] # call[c] /\ Named(call[c].desk) = Named(d)
                  /\ \/ At(c, "seed") /\ call[c].saw = "absent"
                     \/ At(c, "remove") /\ call[c].desk # d
<1>1. ASSUME Kinds, [Next]_vars, NEW d \in Desks PROVE Stays(d)
  <2> SUFFICES ASSUME Exists(d), files[Named(d)]["agents"] = "theirs" PROVE Stays(d) OBVIOUS
  <2>1. Named(d) \in Names BY <1>1 DEF Kinds, RowsOK, Created, Exists
  <2>2. CASE Intact(Named(d)) BY <2>2 DEF Intact, Owned
  <2>3. ASSUME NEW c \in Actors, Seeds(c), Named(call[c].desk) = Named(d) PROVE Stays(d)
    <3>1. At(c, "seed") /\ call[c].saw = "absent" BY <1>1, <2>3 DEF Seeds, Kinds, CallsOK
    <3>2. PICK k : k = call[c].step + 1 OBVIOUS
    <3>3. call' = [call EXCEPT ![c] = [call[c] EXCEPT !.pc = "bootstrap", !.step = k]]
      BY <2>3, <3>2 DEF Seeds
    <3>4. call'[c].pc = "bootstrap" BY <1>1, <3>3 DEF Kinds, CallsOK, Handler
    <3>5. call'[c] # call[c] BY <3>1, <3>4 DEF At
    <3> QED BY <2>3, <3>1, <3>5
  <2>4. ASSUME NEW c \in Callers, Removes(c), Named(call[c].desk) = Named(d) PROVE Stays(d)
    <3>1. c \in Actors BY DEF Actors
    <3>2. At(c, "remove") /\ desk[call[c].desk].state = "GONE"
      BY <1>1, <2>4, <3>1 DEF Removes, Kinds, CallsOK
    <3>3. call[c].desk # d BY <3>2 DEF Exists
    <3>4. PICK h : Moves(c, h) /\ h.pc \in {"idle", "boot"} BY <2>4, <3>1, EndsMoves DEF Removes
    <3>5. call'[c] # call[c] BY <1>1, <3>1, <3>2, <3>4 DEF Moves, Kinds, CallsOK, At
    <3> QED BY <2>4, <3>1, <3>2, <3>3, <3>5
  <2> QED BY <1>1, <2>1, <2>2, <2>3, <2>4, FilesStep
<1>2. Kinds /\ [Next]_vars => [\A d \in Desks : Stays(d)]_vars BY <1>1
<1> QED BY <1>2, KindsHold, PTL DEF Spec, AgentsKept

-------------------------------------------------------------------------------
(* A desk is READY over a whole workspace *)

\* No name of a desk is used again. (Where one is, the deletion of the earlier desk may
\* still remove the directory of the later one.)
NamesOnce == \A d, e \in Desks : d # e /\ Created(d) /\ Created(e) => Named(d) # Named(e)

\* what a handler has put in place
Has(w, k) == \A i \in 1 .. k : w[Parts[i]] # "absent"
Far(h, w) == /\ h.pc = "bootstrap" => Has(w, h.step - 1)
             /\ h.pc = "seed"      => Has(w, 1)
             /\ h.pc = "link"      => Has(w, 5)
             /\ h.pc = "ready"     => Has(w, 6)
HandlerOK(h) == h.desk \in Desks /\ Exists(h.desk) => Far(h, files[Named(h.desk)])
ProgressOK == \A c \in Actors : HandlerOK(call[c])

LEMMA HasKept ==
  ASSUME NEW was, NEW w, Kept(was, w), NEW k \in 0 .. 6, Has(was, k)
  PROVE  Has(w, k)
BY PartNames DEF Has, Kept

LEMMA HasOneMore ==
  ASSUME NEW w, NEW k \in 1 .. 6, Has(w, k - 1), w[Parts[k]] # "absent"
  PROVE  Has(w, k)
BY DEF Has

\* Nothing of a desk that exists is lost.
LEMMA NothingLost ==
  ASSUME Kinds, ProgressOK, NamesOnce, [Next]_vars, NEW d \in Desks, Exists(d)
  PROVE  Named(d) \in Names /\ Kept(files[Named(d)], files'[Named(d)])
<1>1. Named(d) \in Names BY DEF Kinds, RowsOK, Created, Exists
<1>2. ASSUME NEW c \in Callers, Removes(c) PROVE Named(call[c].desk) # Named(d)
  <2>1. c \in Actors /\ At(c, "remove") /\ Created(call[c].desk)
    BY <1>2 DEF Removes, Actors, Kinds, CallsOK, At
  <2>2. desk[call[c].desk].state = "GONE" BY <2>1 DEF Kinds, CallsOK
  <2> QED BY <2>1, <2>2 DEF NamesOnce, Exists, Created
<1> QED BY <1>1, <1>2, FilesStep DEF Intact

\* A desk that was created and exists after a step existed before it.
LEMMA ExistedBefore ==
  ASSUME Kinds, [Next]_vars, NEW d \in Desks, Created(d), Exists(d)'
  PROVE  Exists(d) /\ Named(d)' = Named(d)
<1>1. desk[d].state \in {"CREATING", "READY", "FAILED", "GONE"}
  BY DEF Kinds, RowsOK, Row, States, Created
<1> QED BY <1>1, RowsStep DEF RowsMoveOn, Exists, Named

\* What is so of a handler stays so while others move.
LEMMA Persists ==
  ASSUME Kinds, ProgressOK, NamesOnce, [Next]_vars, NEW h \in Handler, HandlerOK(h),
         h.pc \notin {"idle", "boot"} => Created(h.desk), h.pc = "bootstrap" => h.step \in 1 .. 6
  PROVE  HandlerOK(h)'
<1>1. ASSUME h.desk \in Desks, Exists(h.desk)', h.pc \in {"bootstrap", "seed", "link", "ready"}
      PROVE  Far(h, files'[desk'[h.desk].name])
  <2>1. Created(h.desk) BY <1>1
  <2>2. Exists(h.desk) /\ Named(h.desk)' = Named(h.desk) BY <1>1, <2>1, ExistedBefore
  <2>3. Kept(files[Named(h.desk)], files'[Named(h.desk)]) BY <1>1, <2>2, NothingLost
  <2>4. Far(h, files[Named(h.desk)]) BY <1>1, <2>2 DEF HandlerOK
  <2>5. h.pc = "bootstrap" => h.step - 1 \in 0 .. 6 OBVIOUS
  <2> QED BY <2>2, <2>3, <2>4, <2>5, HasKept DEF Far, Named
<1>2. ASSUME h.pc \notin {"bootstrap", "seed", "link", "ready"} PROVE Far(h, files'[desk'[h.desk].name])
  BY <1>2 DEF Far
<1> QED BY <1>1, <1>2 DEF HandlerOK, Exists, Named

\* A handler that moves is where its step brought it.
LEMMA ArrivesOK ==
  ASSUME Kinds, ProgressOK, NamesOnce, [Next]_vars, NEW c \in Actors, NEW h, Moves(c, h), Arrives(c, h)
  PROVE  HandlerOK(h)'
<1> DEFINE d == call[c].desk
           n == Named(d)
<1>1. CASE h.pc \notin {"bootstrap", "seed", "link", "ready"} BY <1>1 DEF HandlerOK, Far
<1>2. CASE h.pc = "bootstrap" /\ h.step = 1 BY <1>2 DEF HandlerOK, Far, Has
<1>4. ASSUME call[c].pc \in {"bootstrap", "seed", "link"}, h.desk = d,
             h.pc \in {"bootstrap", "seed", "link", "ready"}, Created(d) /\ Exists(d) => Far(h, files'[n])
      PROVE  HandlerOK(h)'
  <2>1. Created(h.desk) BY <1>4 DEF Kinds, CallsOK
  <2>2. Exists(h.desk)' => Exists(h.desk) /\ Named(h.desk)' = Named(h.desk)
    BY <2>1, ExistedBefore DEF Created
  <2> QED BY <1>4, <2>1, <2>2 DEF HandlerOK, Exists, Named
<1>5. Created(d) /\ Exists(d) => Far(call[c], files[n]) /\ Kept(files[n], files'[n])
  BY NothingLost DEF ProgressOK, HandlerOK, Created
<1>6. CASE (Bootstrap(c) \/ Seeds(c)) /\ h.pc = "bootstrap" /\ h.desk = d /\ h.step = call[c].step + 1
  <2>1. /\ call[c].step \in 1 .. 6 /\ call[c].step - 1 \in 0 .. 6 /\ call[c].pc \in {"bootstrap", "seed"}
        /\ call[c].pc = "seed" => call[c].step = 2
    BY <1>6 DEF Bootstrap, Seeds, Kinds, CallsOK, At
  <2>2. PICK w : Grows(n, w) /\ w[Parts[call[c].step]] # "absent" BY <1>6, BootstrapGrows
  <2>3. files'[n] = w BY <2>2, GrowsFiles DEF Kinds
  <2>4. ASSUME Created(d), Exists(d) PROVE Far(h, files'[n])
    <3>1. Has(files[n], call[c].step - 1) BY <1>5, <2>1, <2>4 DEF Far
    <3>2. Has(w, call[c].step - 1) BY <1>5, <2>1, <2>3, <2>4, <3>1, HasKept
    <3>3. Has(w, call[c].step) BY <2>1, <2>2, <3>2, HasOneMore
    <3> QED BY <1>6, <2>1, <2>3, <3>3 DEF Far
  <2> QED BY <1>4, <1>6, <2>1, <2>4
<1>6a. CASE /\ LooksAtAgents(c) /\ h.desk = d
            /\ h.pc = "seed" \/ (h.pc = "bootstrap" /\ h.step = call[c].step + 1 /\ files[n]["agents"] # "absent")
  <2>1. call[c].step = 2 /\ call[c].pc = "bootstrap"
    BY <1>6a, PartNames DEF LooksAtAgents, Looks, Kinds, CallsOK, At
  <2>2. ASSUME Created(d), Exists(d) PROVE Far(h, files'[n])
    <3>1. Has(files[n], 1) BY <1>5, <2>1, <2>2 DEF Far
    <3>2. files' = files BY <1>6a DEF LooksAtAgents, Looks
    <3>3. h.pc = "bootstrap" => Has(files[n], 2) BY <1>6a, <2>1, <3>1, HasOneMore, PartNames
    <3> QED BY <1>6a, <2>1, <3>1, <3>2, <3>3 DEF Far
  <2> QED BY <1>4, <1>6a, <2>1, <2>2
<1>7. CASE LooksAtLink(c) /\ h.desk = d /\ (h.pc = "link" \/ (h.pc = "ready" /\ files[n]["link"] # "absent"))
  <2>1. call[c].step = 6 /\ call[c].pc = "bootstrap" BY <1>7, PartNames DEF LooksAtLink, Kinds, CallsOK, At
  <2>2. ASSUME Created(d), Exists(d) PROVE Far(h, files'[n])
    <3>1. Has(files'[n], 5) BY <1>5, <2>1, <2>2, HasKept DEF Far
    <3>2. h.pc = "ready" => Has(files'[n], 6) BY <1>7, <3>1, HasOneMore, PartNames DEF LooksAtLink
    <3> QED BY <1>7, <3>1, <3>2 DEF Far
  <2> QED BY <1>4, <1>7, <2>1, <2>2
<1>8. CASE Links(c) /\ h.desk = d /\ h.pc = "ready" /\ (files' # files \/ files[n]["link"] # "absent")
  <2>1. call[c].pc = "link" BY <1>8 DEF Links, At
  <2>2. ASSUME Created(d), Exists(d) PROVE Far(h, files'[n])
    <3>1. Has(files'[n], 5) BY <1>5, <2>1, <2>2, HasKept DEF Far
    <3>2. files'[n]["link"] # "absent"
      <4>1. CASE files' # files
        <5>1. PICK w : Grows(n, w) /\ w["link"] # "absent" BY <1>8, <4>1, LinksGrows
        <5> QED BY <5>1, GrowsFiles DEF Kinds
      <4> QED BY <1>8, <4>1
    <3>3. Has(files'[n], 6) BY <3>1, <3>2, HasOneMore, PartNames
    <3> QED BY <1>8, <3>3 DEF Far
  <2> QED BY <1>4, <1>8, <2>1, <2>2
<1> QED BY <1>1, <1>2, <1>6, <1>6a, <1>7, <1>8 DEF Arrives

LEMMA ProgressStep ==
  ASSUME Kinds, ProgressOK, NamesOnce, [Next]_vars
  PROVE  ProgressOK'
<1>0. RowsMoveOn /\ CallsOK BY RowsStep DEF Kinds
<1>1. ASSUME NEW b \in Actors, call'[b] = call[b] PROVE HandlerOK(call[b])'
  <2>1. PICK h : h = call[b] OBVIOUS
  <2>2. h \in Handler /\ HandlerOK(h) /\ (h.pc \notin {"idle", "boot"} => Created(h.desk))
        /\ (h.pc = "bootstrap" => h.step \in 1 .. 6)
    BY <1>0, <2>1 DEF CallsOK, ProgressOK, At
  <2>3. HandlerOK(h)' BY <2>2, Persists
  <2> QED BY <1>1, <2>1, <2>3
<1>2. CASE call' = call BY <1>1, <1>2 DEF ProgressOK
<1>3. CASE Crash BY <1>3, CrashCalls DEF ProgressOK, HandlerOK, Far
<1>4. ASSUME NEW c \in Actors, NEW h, Moves(c, h), Arrives(c, h) PROVE ProgressOK'
  <2>1. call'[c] = h /\ \A b \in Actors : b # c => call'[b] = call[b] BY <1>0, <1>4, MovesType
  <2>2. HandlerOK(h)' BY <1>4, ArrivesOK
  <2>3. HandlerOK(call[c])' BY <2>1, <2>2
  <2> QED BY <1>1, <2>1, <2>3 DEF ProgressOK
<1> QED BY <1>0, <1>2, <1>3, <1>4, CallsTurn DEF Turns

\* A row becomes READY by the end of the handler that found its bootstrap complete.
LEMMA ReadyStep ==
  ASSUME Kinds, [Next]_vars, NEW d \in Desks, desk'[d].state = "READY", desk[d].state # "READY"
  PROVE  \E c \in Actors : FinishReady(c) /\ call[c].desk = d /\ Exists(d)
<1> USE DEF Kinds, RowsOK
<1>1. ASSUME NEW e \in Desks, NEW state \in {"CREATING", "FAILED", "GONE"},
             desk' = [desk EXCEPT ![e].state = state]
      PROVE  FALSE
  BY <1>1 DEF Row
<1>2. ASSUME NEW c \in Callers, NEW e \in Desks, NEW n \in Names, Create(c, e, n) PROVE FALSE
  BY <1>2 DEF Create
<1>3. ASSUME NEW c \in Actors, call[c].pc \notin {"idle", "boot"} PROVE call[c].desk \in Desks
  BY <1>3 DEF CallsOK, Created
<1>4. ASSUME NEW c \in Actors, RetryUnit(c) \/ FinishFailed(c) PROVE FALSE
  BY <1>1, <1>3, <1>4 DEF RetryUnit, FinishFailed, At
<1>5. ASSUME NEW c \in Actors, FinishReady(c) PROVE call[c].desk = d /\ Exists(d)
  BY <1>3, <1>5 DEF FinishReady, MarksReady, At, Row, Exists
<1>6. ASSUME NEW c \in Callers, Prune(c) PROVE FALSE
  BY <1>1, <1>3, <1>6 DEF Prune, At, Actors
<1> QED BY <1>2, <1>4, <1>5, <1>6
        DEF Next, vars, RetryLoads, ActivateLoads, MarketLoads, DeleteLoads, Spawn, OpenProcess, Ensure,
            Finishes, Bootstrap, LooksAtAgents, Looks, Seeds, LooksAtLink, Links, BootstrapFails,
            Deletes, DeleteExits, DeleteShutdown, DeleteStops, Removes, ChildEnds, RowCloses,
            AgentEdits, Crash, BootNext, Serve

\* root SPEC 5.2: a desk becomes READY with its whole workspace in place, whatever was
\* interrupted, failed or retried at the same time, while no name is used again.
THEOREM Complete == Spec /\ []NamesOnce => ReadyComplete
<1> DEFINE Completes(d) == desk'[d].state = "READY" /\ desk[d].state # "READY" => Whole(files[Named(d)])
<1>1. Init => ProgressOK BY IdleType DEF Init, ProgressOK, HandlerOK, Far
<1>2. Kinds /\ ProgressOK /\ NamesOnce /\ [Next]_vars => ProgressOK' BY ProgressStep
<1>3. ASSUME Kinds, ProgressOK, [Next]_vars, NEW d \in Desks PROVE Completes(d)
  <2> SUFFICES ASSUME desk'[d].state = "READY", desk[d].state # "READY" PROVE Whole(files[Named(d)])
    OBVIOUS
  <2>1. PICK c \in Actors : FinishReady(c) /\ call[c].desk = d /\ Exists(d) BY <1>3, ReadyStep
  <2>2. Has(files[Named(d)], 6) BY <1>3, <2>1 DEF ProgressOK, HandlerOK, Far, FinishReady, At
  <2>3. \A p \in Range(Parts) : \E i \in 1 .. 6 : p = Parts[i] BY PartNames DEF Range, Parts
  <2> QED BY <2>2, <2>3 DEF Whole, Has
<1>4. Kinds /\ ProgressOK /\ [Next]_vars => [\A d \in Desks : Completes(d)]_vars BY <1>3
<1> QED BY <1>1, <1>2, <1>4, KindsHold, PTL DEF Spec, ReadyComplete

-------------------------------------------------------------------------------
(* Terminal: types *)

Signals   == {"superseded", "exited"}
QueueItem == {f \in [kind : {"byte"} \cup Signals, at : Nat] : f.kind = "byte" => f.at > 0}
DataFrame == [kind : {"attached", "bytes"}, term : Terms, from : Nat, to : Nat]
EndFrame  == [kind : {"close"}, code : {"gone"} \cup Signals]
Frame     == DataFrame \cup EndFrame

TermRec == [child : {"none", "running", "exited", "ended"}, written : Nat, out : Nat, gen : Nat,
            sender : {None} \cup Sockets, took : SUBSET ({None} \cup Terms)]
SockRec == [pc : {"free", "hello", "info", "replay", "live"}, term : {None} \cup Terms, gen : Nat,
            from : Nat, to : Nat, queue : Seq(QueueItem), buffered : Int]
PaneRec == [socket : {None} \cup Sockets, due : BOOLEAN, again : BOOLEAN, term : {None} \cup Terms,
            offset : Nat, stream : Nat, shown : Seq(Terms \X Nat), end : {"none"} \cup Signals]

Typed ==
  /\ entry \in {None} \cup Terms /\ term \in [Terms -> TermRec]
  /\ thread \in [Threads -> [pc : {"idle", "drain", "open", "insert"}, term : {None} \cup Terms, spawns : BOOLEAN]]
  /\ sock \in [Sockets -> SockRec] /\ wire \in [Sockets -> Seq(Frame)] /\ keys \in [Sockets -> Int]
  /\ pane \in [Panes -> PaneRec]

-------------------------------------------------------------------------------
(* Terminal: the invariant *)

\* Children are spawned in their order; one that ended was read to the end.
TermsOK ==
  /\ \A t \in Terms : /\ term[t].out <= term[t].written
                      /\ term[t].child = "ended" => term[t].out = term[t].written
  /\ \E k \in 0 .. MaxTerms : \A t \in Terms : term[t].child # "none" <=> t <= k

\* Who sends to a socket is the terminal it is attached to, within its budget.
SocksOK ==
  \A s \in Sockets :
    /\ sock[s].pc \in {"info", "replay", "live"} => sock[s].term \in Terms
    /\ sock[s].pc = "hello" => sock[s] = [Free EXCEPT !.pc = "hello"]
    /\ sock[s].buffered <= SendBuffer + 1
    /\ \A t \in Terms : term[t].sender = s =>
         /\ sock[s].term = t /\ sock[s].pc \in {"info", "replay", "live"}
         /\ sock[s].buffered <= SendBuffer

\* A pane's own affairs, T being the terminals
PaneOK(T, p) ==
  /\ p.stream <= p.offset
  /\ \A i \in DOMAIN p.shown : p.shown[i] = <<p.term, p.offset - (Len(p.shown) - i)>>
  /\ p.term # None => p.offset <= T[p.term].out
  /\ p.socket # None => ~p.due
  /\ p.end # "none" => p.socket = None /\ ~p.due
  /\ p.end = "exited" => /\ p.term # None /\ T[p.term].child = "ended"
                         /\ p.offset = T[p.term].out

\* How far a frame takes the stream it is on
EndOf(f) == IF f.kind = "attached" THEN f.from ELSE f.to

\* Where the stream of a pane is before the i-th frame on the wire
PlaceTerm(p, w, i) == IF i = 1 THEN p.term ELSE w[i - 1].term
PlaceAt(p, w, i)   == IF i = 1 THEN p.stream ELSE EndOf(w[i - 1])

\* The stream is over: its child ended and all of it is there.
Over(T, t, n) == t \in Terms /\ T[t].child = "ended" /\ n = T[t].out

\* Every frame on the wire goes on from the one before it, and the first from what
\* the pane received.
Carried(T, p, w) ==
  \A i \in DOMAIN w :
    /\ w[i].kind = "attached" => i = 1
    /\ w[i].kind = "close" => i = Len(w)
    /\ w[i].kind = "bytes" => w[i].term = PlaceTerm(p, w, i) /\ w[i].from = PlaceAt(p, w, i)
    /\ w[i].kind # "close" => w[i].from <= w[i].to /\ w[i].to <= T[w[i].term].out
    /\ w[i].kind = "close" /\ w[i].code = "exited" => Over(T, PlaceTerm(p, w, i), PlaceAt(p, w, i))

\* The queue of an attachment to t whose task has sent the first n bytes
Flow(T, q, t, n) ==
  /\ n <= T[t].out
  /\ \A i \in DOMAIN q :
       /\ q[i].kind = "byte" => q[i].at = n + i /\ q[i].at <= T[t].out
       /\ q[i].kind # "superseded" => \A j \in 1 .. i - 1 : q[j].kind = "byte"
       /\ q[i].kind = "exited" => T[t].child = "ended" /\ n + i - 1 = T[t].out

\* What a socket's task still sends goes on from the last frame on the wire.
Fed(T, p, w, k) ==
  /\ k.pc \in {"hello", "info"} => w = <<>>
  /\ k.pc # "free" => \A i \in DOMAIN w : w[i].kind # "close"
  /\ k.pc \in {"info", "replay"} => k.from <= k.to /\ Flow(T, k.queue, k.term, k.to)
  /\ k.pc \in {"replay", "live"} => PlaceTerm(p, w, Len(w) + 1) = k.term
  /\ k.pc = "replay" => PlaceAt(p, w, Len(w) + 1) = k.from
  /\ k.pc = "live" => Flow(T, k.queue, k.term, PlaceAt(p, w, Len(w) + 1))

\* Where an attachment's queue starts
Start(p, w, k) == IF k.pc = "live" THEN PlaceAt(p, w, Len(w) + 1) ELSE k.to

\* A queue that is to go on from n has all that was read, and the exit.
AllThere(T, q, t, n) ==
  \/ (\A i \in DOMAIN q : q[i].kind = "byte") /\ n + Len(q) = T[t].out
  \/ T[t].child = "ended" /\ q # <<>> /\ q[Len(q)].kind = "exited"

\* That of the one attachment is complete.
Current(T, p, w, k) == AllThere(T, k.queue, k.term, Start(p, w, k))

\* A pane and the socket it holds
Linked(T, p, w, k, s) ==
  /\ Carried(T, p, w) /\ Fed(T, p, w, k)
  /\ k.term \in Terms => (T[k.term].sender = s => Current(T, p, w, k))

Attachments ==
  \A v \in Panes : LET s == pane[v].socket IN
    s # None => /\ Linked(term, pane[v], wire[s], sock[s], s)
                /\ \A u \in Panes : pane[u].socket = s => u = v

TerminalInv == Typed /\ TermsOK /\ SocksOK /\ (\A v \in Panes : PaneOK(term, pane[v])) /\ Attachments
-------------------------------------------------------------------------------
(* Terminals: what is read stays read *)

\* Nothing that was read is taken back, and what ended stays as it is.
Later(T, U) ==
  \A t \in Terms : /\ T[t].out <= U[t].out
                   /\ T[t].child = "ended" => U[t].child = "ended" /\ U[t].out = T[t].out

LEMMA NoneIsNone == /\ None \notin Terms /\ None \notin Sockets /\ None \in Nat /\ Terms \subseteq Nat
BY TerminalAssumption DEF None, Terms

LEMMA LaterPane ==
  ASSUME NEW T \in [Terms -> TermRec], NEW U \in [Terms -> TermRec], Later(T, U),
         NEW p \in PaneRec, PaneOK(T, p)
  PROVE  PaneOK(U, p)
<1>1. p.term \in {None} \cup Terms /\ p.offset \in Nat BY DEF PaneRec
<1>2. ASSUME NEW t \in Terms, p.offset <= T[t].out PROVE p.offset <= U[t].out
  BY <1>1, <1>2 DEF Later, TermRec
<1>3. p.term # None => p.offset <= U[p.term].out BY <1>1, <1>2 DEF PaneOK
<1>4. p.end = "exited" => p.term # None /\ U[p.term].child = "ended" /\ p.offset = U[p.term].out
  BY <1>1 DEF PaneOK, Later
<1> QED BY <1>3, <1>4 DEF PaneOK

LEMMA LaterFlow ==
  ASSUME NEW T \in [Terms -> TermRec], NEW U \in [Terms -> TermRec], Later(T, U),
         NEW q \in Seq(QueueItem), NEW t \in Terms, NEW n \in Nat, Flow(T, q, t, n)
  PROVE  Flow(U, q, t, n)
<1>1. ASSUME NEW i \in DOMAIN q PROVE q[i] \in QueueItem OBVIOUS
<1> QED BY <1>1 DEF Flow, Later, TermRec, QueueItem

LEMMA FrameKinds ==
  ASSUME NEW f \in Frame
  PROVE  /\ f.kind \in {"attached", "bytes", "close"}
         /\ f.kind = "close" => f.code \in {"gone"} \cup Signals
         /\ f.kind # "close" => f.term \in Terms /\ f.from \in Nat /\ f.to \in Nat /\ EndOf(f) \in Nat
BY DEF Frame, DataFrame, EndFrame, EndOf

LEMMA LaterCarried ==
  ASSUME NEW T \in [Terms -> TermRec], NEW U \in [Terms -> TermRec], Later(T, U),
         NEW p \in PaneRec, NEW w \in Seq(Frame), Carried(T, p, w)
  PROVE  Carried(U, p, w)
<1> SUFFICES ASSUME NEW i \in DOMAIN w
             PROVE  /\ w[i].kind = "attached" => i = 1
                    /\ w[i].kind = "close" => i = Len(w)
                    /\ w[i].kind = "bytes" => w[i].term = PlaceTerm(p, w, i) /\ w[i].from = PlaceAt(p, w, i)
                    /\ w[i].kind # "close" => w[i].from <= w[i].to /\ w[i].to <= U[w[i].term].out
                    /\ w[i].kind = "close" /\ w[i].code = "exited" => Over(U, PlaceTerm(p, w, i), PlaceAt(p, w, i))
  BY DEF Carried
<1>1. w[i] \in Frame OBVIOUS
<1>2. w[i].kind # "close" => w[i].term \in Terms /\ w[i].to \in Nat BY <1>1, FrameKinds
<1>3. w[i].kind # "close" => w[i].from <= w[i].to /\ w[i].to <= T[w[i].term].out BY DEF Carried
<1>4. w[i].kind # "close" => w[i].to <= U[w[i].term].out BY <1>2, <1>3 DEF Later, TermRec
<1>5. ASSUME w[i].kind = "close", w[i].code = "exited"
      PROVE  Over(U, PlaceTerm(p, w, i), PlaceAt(p, w, i))
  <2>1. Over(T, PlaceTerm(p, w, i), PlaceAt(p, w, i)) BY <1>5 DEF Carried
  <2> QED BY <2>1 DEF Over, Later
<1> QED BY <1>3, <1>4, <1>5 DEF Carried

\* Where a stream is
LEMMA PlaceType ==
  ASSUME NEW p \in PaneRec, NEW w \in Seq(Frame), NEW i \in 1 .. Len(w) + 1,
         \A j \in DOMAIN w : w[j].kind # "close"
  PROVE  PlaceTerm(p, w, i) \in {None} \cup Terms /\ PlaceAt(p, w, i) \in Nat
<1>1. CASE i = 1 BY <1>1 DEF PlaceTerm, PlaceAt, PaneRec
<1>2. CASE i # 1
  <2>1. i - 1 \in DOMAIN w BY <1>2
  <2>2. w[i - 1] \in Frame /\ w[i - 1].kind # "close" BY <2>1
  <2>3. w[i - 1].term \in Terms /\ EndOf(w[i - 1]) \in Nat BY <2>2, FrameKinds
  <2> QED BY <1>2, <2>3 DEF PlaceTerm, PlaceAt
<1> QED BY <1>1, <1>2

LEMMA LaterFed ==
  ASSUME NEW T \in [Terms -> TermRec], NEW U \in [Terms -> TermRec], Later(T, U),
         NEW p \in PaneRec, NEW w \in Seq(Frame), NEW k \in SockRec, Fed(T, p, w, k),
         k.pc \in {"info", "replay", "live"} => k.term \in Terms
  PROVE  Fed(U, p, w, k)
<1> DEFINE e == Len(w) + 1
<1>1. e \in 1 .. Len(w) + 1 OBVIOUS
<1>2. k.pc = "live" => PlaceAt(p, w, e) \in Nat BY <1>1, PlaceType DEF Fed
<1>3. k.queue \in Seq(QueueItem) /\ k.to \in Nat BY DEF SockRec
<1>4. k.pc \in {"info", "replay"} => Flow(U, k.queue, k.term, k.to) BY <1>3, LaterFlow DEF Fed
<1>5. k.pc = "live" => Flow(T, k.queue, k.term, PlaceAt(p, w, e)) BY DEF Fed
<1>6. k.pc = "live" => Flow(U, k.queue, k.term, PlaceAt(p, w, e)) BY <1>2, <1>3, <1>5, LaterFlow
<1> QED BY <1>4, <1>6 DEF Fed

\* A pane's link outlives what changes elsewhere.
LEMMA LaterLinked ==
  ASSUME NEW T \in [Terms -> TermRec], NEW U \in [Terms -> TermRec], Later(T, U),
         NEW p \in PaneRec, NEW w \in Seq(Frame), NEW k \in SockRec, NEW s \in Sockets,
         Linked(T, p, w, k, s),
         k.pc \in {"info", "replay", "live"} => k.term \in Terms,
         k.term \in Terms /\ U[k.term].sender = s => T[k.term].sender = s /\ U[k.term].out = T[k.term].out
  PROVE  Linked(U, p, w, k, s)
<1>1. Carried(U, p, w) BY LaterCarried DEF Linked
<1>2. Fed(U, p, w, k) BY LaterFed DEF Linked
<1>3. k.term \in Terms => (U[k.term].sender = s => Current(U, p, w, k))
  BY DEF Linked, Current, AllThere, Later
<1> QED BY <1>1, <1>2, <1>3 DEF Linked
-------------------------------------------------------------------------------
(* Wires *)

\* A frame at the end moves no frame before it.
LEMMA PlaceAppend ==
  ASSUME NEW p \in PaneRec, NEW w \in Seq(Frame), NEW f \in Frame
  PROVE  /\ Append(w, f) \in Seq(Frame) /\ Len(Append(w, f)) = Len(w) + 1
         /\ \A i \in 1 .. Len(w) + 1 : /\ PlaceTerm(p, Append(w, f), i) = PlaceTerm(p, w, i)
                                       /\ PlaceAt(p, Append(w, f), i) = PlaceAt(p, w, i)
         /\ PlaceTerm(p, Append(w, f), Len(w) + 2) = f.term
         /\ PlaceAt(p, Append(w, f), Len(w) + 2) = EndOf(f)
<1> DEFINE x == Append(w, f)
<1>1. x \in Seq(Frame) /\ Len(x) = Len(w) + 1 /\ x[Len(w) + 1] = f OBVIOUS
<1>2. \A i \in 1 .. Len(w) : x[i] = w[i] OBVIOUS
<1> HIDE DEF x
<1>3. ASSUME NEW i \in 1 .. Len(w) + 1
      PROVE  PlaceTerm(p, x, i) = PlaceTerm(p, w, i) /\ PlaceAt(p, x, i) = PlaceAt(p, w, i)
  <2>1. i # 1 => x[i - 1] = w[i - 1] BY <1>2
  <2> QED BY <2>1 DEF PlaceTerm, PlaceAt
<1>4. PlaceTerm(p, x, Len(w) + 2) = f.term /\ PlaceAt(p, x, Len(w) + 2) = EndOf(f)
  BY <1>1 DEF PlaceTerm, PlaceAt
<1> QED BY <1>1, <1>3, <1>4 DEF x

LEMMA CarriedAppend ==
  ASSUME NEW T \in [Terms -> TermRec], NEW p \in PaneRec, NEW w \in Seq(Frame), NEW f \in Frame,
         Carried(T, p, w), \A i \in DOMAIN w : w[i].kind # "close",
         f.kind = "attached" => w = <<>>,
         f.kind = "bytes" => f.term = PlaceTerm(p, w, Len(w) + 1) /\ f.from = PlaceAt(p, w, Len(w) + 1),
         f.kind # "close" => f.from <= f.to /\ f.to <= T[f.term].out,
         f.kind = "close" /\ f.code = "exited" =>
           Over(T, PlaceTerm(p, w, Len(w) + 1), PlaceAt(p, w, Len(w) + 1))
  PROVE  Carried(T, p, Append(w, f))
<1>1. PICK x : x = Append(w, f) OBVIOUS
<1>2. x \in Seq(Frame) /\ Len(x) = Len(w) + 1 /\ x[Len(w) + 1] = f BY <1>1
<1>3. \A i \in 1 .. Len(w) : x[i] = w[i] BY <1>1
<1>4. \A i \in 1 .. Len(w) + 1 : PlaceTerm(p, x, i) = PlaceTerm(p, w, i) /\ PlaceAt(p, x, i) = PlaceAt(p, w, i)
  BY <1>1, PlaceAppend
<1> SUFFICES ASSUME NEW i \in DOMAIN x
             PROVE  /\ x[i].kind = "attached" => i = 1
                    /\ x[i].kind = "close" => i = Len(x)
                    /\ x[i].kind = "bytes" => x[i].term = PlaceTerm(p, x, i) /\ x[i].from = PlaceAt(p, x, i)
                    /\ x[i].kind # "close" => x[i].from <= x[i].to /\ x[i].to <= T[x[i].term].out
                    /\ x[i].kind = "close" /\ x[i].code = "exited" => Over(T, PlaceTerm(p, x, i), PlaceAt(p, x, i))
  BY <1>1 DEF Carried
<1>5. CASE i = Len(w) + 1
  <2>1. x[i] = f /\ PlaceTerm(p, x, i) = PlaceTerm(p, w, Len(w) + 1) /\ PlaceAt(p, x, i) = PlaceAt(p, w, Len(w) + 1)
    BY <1>2, <1>4, <1>5
  <2>2. f.kind = "attached" => i = 1 BY <1>5
  <2> QED BY <1>2, <1>5, <2>1, <2>2
<1>6. CASE i # Len(w) + 1
  <2>1. i \in DOMAIN w BY <1>2, <1>6
  <2>2. x[i] = w[i] /\ PlaceTerm(p, x, i) = PlaceTerm(p, w, i) /\ PlaceAt(p, x, i) = PlaceAt(p, w, i)
    BY <1>3, <1>4, <2>1
  <2> QED BY <2>1, <2>2 DEF Carried
<1> QED BY <1>5, <1>6

\* The pane takes the first frame, and the others stay where they are.
Took(p, f, r) == r.term = f.term /\ r.stream = EndOf(f)

LEMMA PlaceTail ==
  ASSUME NEW p \in PaneRec, NEW r \in PaneRec, NEW w \in Seq(Frame), w # <<>>, Took(p, w[1], r)
  PROVE  /\ Tail(w) \in Seq(Frame) /\ Len(Tail(w)) = Len(w) - 1
         /\ \A i \in 1 .. Len(w) : /\ PlaceTerm(r, Tail(w), i) = PlaceTerm(p, w, i + 1)
                                   /\ PlaceAt(r, Tail(w), i) = PlaceAt(p, w, i + 1)
<1> DEFINE x == Tail(w)
<1>1. x \in Seq(Frame) /\ Len(x) = Len(w) - 1 /\ \A i \in 1 .. Len(w) - 1 : x[i] = w[i + 1] OBVIOUS
<1> HIDE DEF x
<1>2. ASSUME NEW i \in 1 .. Len(w)
      PROVE  PlaceTerm(r, x, i) = PlaceTerm(p, w, i + 1) /\ PlaceAt(r, x, i) = PlaceAt(p, w, i + 1)
  <2>1. PlaceTerm(p, w, i + 1) = w[i].term /\ PlaceAt(p, w, i + 1) = EndOf(w[i])
    BY DEF PlaceTerm, PlaceAt
  <2>2. CASE i = 1 BY <2>1, <2>2 DEF PlaceTerm, PlaceAt, Took
  <2>3. CASE i # 1
    <3>1. x[i - 1] = w[i] BY <1>1, <2>3
    <3> QED BY <2>1, <2>3, <3>1 DEF PlaceTerm, PlaceAt
  <2> QED BY <2>2, <2>3
<1> QED BY <1>1, <1>2 DEF x

LEMMA TookLinked ==
  ASSUME NEW T \in [Terms -> TermRec], NEW p \in PaneRec, NEW r \in PaneRec, NEW w \in Seq(Frame),
         NEW k \in SockRec, NEW s \in Sockets, w # <<>>, Took(p, w[1], r), Linked(T, p, w, k, s)
  PROVE  Linked(T, r, Tail(w), k, s)
<1>1. PICK x : x = Tail(w) OBVIOUS
<1>2. x \in Seq(Frame) /\ Len(x) = Len(w) - 1 /\ \A i \in 1 .. Len(w) - 1 : x[i] = w[i + 1] BY <1>1
<1>3. \A i \in 1 .. Len(w) : PlaceTerm(r, x, i) = PlaceTerm(p, w, i + 1) /\ PlaceAt(r, x, i) = PlaceAt(p, w, i + 1)
  BY <1>1, PlaceTail
<1>4. Carried(T, r, x)
  <2> SUFFICES ASSUME NEW i \in DOMAIN x
               PROVE  /\ x[i].kind = "attached" => i = 1
                      /\ x[i].kind = "close" => i = Len(x)
                      /\ x[i].kind = "bytes" => x[i].term = PlaceTerm(r, x, i) /\ x[i].from = PlaceAt(r, x, i)
                      /\ x[i].kind # "close" => x[i].from <= x[i].to /\ x[i].to <= T[x[i].term].out
                      /\ x[i].kind = "close" /\ x[i].code = "exited" => Over(T, PlaceTerm(r, x, i), PlaceAt(r, x, i))
    BY DEF Carried
  <2>1. PICK j \in DOMAIN w : j = i + 1 BY <1>2
  <2>2. x[i] = w[j] BY <1>2, <2>1
  <2>3. PlaceTerm(r, x, i) = PlaceTerm(p, w, j) /\ PlaceAt(r, x, i) = PlaceAt(p, w, j)
    BY <1>2, <1>3, <2>1
  <2>4. /\ w[j].kind = "attached" => j = 1
        /\ w[j].kind = "close" => j = Len(w)
        /\ w[j].kind = "bytes" => w[j].term = PlaceTerm(p, w, j) /\ w[j].from = PlaceAt(p, w, j)
        /\ w[j].kind # "close" => w[j].from <= w[j].to /\ w[j].to <= T[w[j].term].out
        /\ w[j].kind = "close" /\ w[j].code = "exited" => Over(T, PlaceTerm(p, w, j), PlaceAt(p, w, j))
    BY DEF Linked, Carried
  <2>5. j # 1 /\ (j = Len(w) => i = Len(x)) BY <1>2, <2>1
  <2> QED BY <2>2, <2>3, <2>4, <2>5
<1>5. PlaceTerm(r, x, Len(x) + 1) = PlaceTerm(p, w, Len(w) + 1) /\ PlaceAt(r, x, Len(x) + 1) = PlaceAt(p, w, Len(w) + 1)
  <2>1. PICK n \in 1 .. Len(w) : n = Len(w) BY EmptySeq
  <2> QED BY <1>2, <1>3, <2>1
<1>6. Fed(T, r, x, k)
  <2>1. k.pc \notin {"hello", "info"} BY DEF Linked, Fed
  <2>2. k.pc # "free" => \A i \in DOMAIN x : x[i].kind # "close"
    <3>1. k.pc # "free" => \A i \in DOMAIN w : w[i].kind # "close" BY DEF Linked, Fed
    <3> QED BY <1>2, <3>1
  <2> QED BY <1>5, <2>1, <2>2 DEF Linked, Fed
<1>7. k.term \in Terms => (T[k.term].sender = s => Current(T, r, x, k)) BY <1>5 DEF Linked, Current, Start
<1> QED BY <1>1, <1>4, <1>6, <1>7 DEF Linked
-------------------------------------------------------------------------------
(* Queues *)

\* The reader appends a byte, the exit thread the exit, a new attachment the end of
\* the one before.
LEMMA FlowAppend ==
  ASSUME NEW T \in [Terms -> TermRec], NEW q \in Seq(QueueItem), NEW f \in QueueItem,
         NEW t \in Terms, NEW n \in Nat, Flow(T, q, t, n),
         f.kind # "superseded" => \A i \in DOMAIN q : q[i].kind = "byte",
         f.kind = "byte" => f.at = n + Len(q) + 1 /\ f.at <= T[t].out,
         f.kind = "exited" => T[t].child = "ended" /\ n + Len(q) = T[t].out
  PROVE  Flow(T, Append(q, f), t, n)
<1>1. PICK x : x = Append(q, f) OBVIOUS
<1>2. x \in Seq(QueueItem) /\ Len(x) = Len(q) + 1 /\ x[Len(q) + 1] = f BY <1>1
<1>3. \A i \in 1 .. Len(q) : x[i] = q[i] BY <1>1
<1> SUFFICES ASSUME NEW i \in DOMAIN x
             PROVE  /\ x[i].kind = "byte" => x[i].at = n + i /\ x[i].at <= T[t].out
                    /\ x[i].kind # "superseded" => \A j \in 1 .. i - 1 : x[j].kind = "byte"
                    /\ x[i].kind = "exited" => T[t].child = "ended" /\ n + i - 1 = T[t].out
  BY <1>1 DEF Flow
<1>4. CASE i = Len(q) + 1
  <2>1. x[i] = f /\ f.at \in Nat BY <1>2, <1>4 DEF QueueItem
  <2>2. f.kind # "superseded" => \A j \in 1 .. i - 1 : x[j].kind = "byte"
    <3>1. \A j \in 1 .. i - 1 : j \in DOMAIN q /\ x[j] = q[j] BY <1>3, <1>4
    <3> QED BY <3>1
  <2>3. n + Len(q) + 1 = n + i /\ n + Len(q) = n + i - 1 BY <1>4
  <2> QED BY <2>1, <2>2, <2>3
<1>5. CASE i # Len(q) + 1
  <2>1. i \in DOMAIN q /\ x[i] = q[i] BY <1>2, <1>3, <1>5
  <2>2. \A j \in 1 .. i - 1 : x[j] = q[j] BY <1>3, <2>1
  <2> QED BY <2>1, <2>2 DEF Flow
<1> QED BY <1>4, <1>5

\* The task sends the byte at the head.
LEMMA FlowTail ==
  ASSUME NEW T \in [Terms -> TermRec], NEW q \in Seq(QueueItem), q # <<>>,
         NEW t \in Terms, NEW n \in Nat, Flow(T, q, t, n), q[1].kind = "byte"
  PROVE  q[1].at = n + 1 /\ Tail(q) \in Seq(QueueItem) /\ Flow(T, Tail(q), t, n + 1)
<1>1. PICK x : x = Tail(q) OBVIOUS
<1>2. x \in Seq(QueueItem) /\ Len(x) = Len(q) - 1 /\ \A i \in 1 .. Len(q) - 1 : x[i] = q[i + 1] BY <1>1
<1>3. 1 \in DOMAIN q OBVIOUS
<1>4. q[1].at = n + 1 /\ n + 1 <= T[t].out BY <1>3 DEF Flow
<1>5. ASSUME NEW i \in DOMAIN x
      PROVE  /\ x[i].kind = "byte" => x[i].at = n + 1 + i /\ x[i].at <= T[t].out
             /\ x[i].kind # "superseded" => \A j \in 1 .. i - 1 : x[j].kind = "byte"
             /\ x[i].kind = "exited" => T[t].child = "ended" /\ n + 1 + i - 1 = T[t].out
  <2>1. PICK m \in DOMAIN q : m = i + 1 BY <1>2
  <2>2. x[i] = q[m] BY <1>2, <2>1
  <2>3. \A j \in 1 .. i - 1 : x[j] = q[j + 1] /\ j + 1 \in 1 .. m - 1 BY <1>2, <2>1
  <2>4. /\ q[m].kind = "byte" => q[m].at = n + m /\ q[m].at <= T[t].out
        /\ q[m].kind # "superseded" => \A j \in 1 .. m - 1 : q[j].kind = "byte"
        /\ q[m].kind = "exited" => T[t].child = "ended" /\ n + m - 1 = T[t].out
    BY DEF Flow
  <2>5. x[i].kind # "superseded" => \A j \in 1 .. i - 1 : x[j].kind = "byte" BY <2>2, <2>3, <2>4
  <2>6. i \in Nat /\ m \in Nat BY <1>2, <2>1
  <2>7. n + m = n + 1 + i /\ n + m - 1 = n + 1 + i - 1 BY <2>1, <2>6
  <2> QED BY <2>2, <2>4, <2>5, <2>7
<1> QED BY <1>1, <1>2, <1>4, <1>5 DEF Flow

LEMMA Started ==
  ASSUME NEW T \in [Terms -> TermRec], NEW p \in PaneRec, NEW w \in Seq(Frame), NEW k \in SockRec,
         Fed(T, p, w, k), k.pc \in {"info", "replay", "live"}
  PROVE  Start(p, w, k) \in Nat /\ Flow(T, k.queue, k.term, Start(p, w, k))
<1>1. k.to \in Nat BY DEF SockRec
<1>2. k.pc = "live" => PlaceAt(p, w, Len(w) + 1) \in Nat BY PlaceType DEF Fed
<1> QED BY <1>1, <1>2 DEF Start, Fed

\* A link whose attachment's queue alone changes
LEMMA QueueLinked ==
  ASSUME NEW T \in [Terms -> TermRec], NEW p \in PaneRec, NEW w \in Seq(Frame), NEW s \in Sockets,
         NEW k \in SockRec, NEW l \in SockRec,
         l.pc = k.pc, l.term = k.term, l.from = k.from, l.to = k.to,
         Carried(T, p, w), Fed(T, p, w, k), k.pc \in {"info", "replay", "live"},
         Flow(T, l.queue, k.term, Start(p, w, k)),
         T[k.term].sender = s => Current(T, p, w, l)
  PROVE  Linked(T, p, w, l, s)
<1>1. Fed(T, p, w, l) BY DEF Fed, Start
<1> QED BY <1>1 DEF Linked
\* A frame joins the queue of an attachment.
Joins(k, l, f, c) ==
  /\ l.pc = k.pc /\ l.term = k.term /\ l.gen = k.gen /\ l.from = k.from /\ l.to = k.to
  /\ l.queue = Append(k.queue, f) /\ l.buffered = k.buffered + c

LEMMA JoinsLinked ==
  ASSUME NEW T \in [Terms -> TermRec], NEW U \in [Terms -> TermRec], Later(T, U),
         NEW p \in PaneRec, NEW w \in Seq(Frame), NEW s \in Sockets, NEW t \in Terms,
         NEW k \in SockRec, NEW l \in SockRec, NEW f \in QueueItem, NEW c, Joins(k, l, f, c),
         Linked(T, p, w, k, s), k.pc \in {"info", "replay", "live"}, k.term = t, T[t].sender = s,
         \/ f.kind = "superseded" /\ U[t].sender # s
         \/ f.kind = "byte" /\ f.at = U[t].out /\ U[t].out = T[t].out + 1 /\ T[t].child # "ended"
         \/ f.kind = "exited" /\ U[t].child = "ended" /\ U[t].out = T[t].out /\ T[t].child # "ended"
  PROVE  Linked(U, p, w, l, s)
<1>1. PICK n \in Nat : n = Start(p, w, k) BY Started DEF Linked
<1>2. PICK q \in Seq(QueueItem) : q = k.queue BY DEF SockRec
<1>3. Flow(T, q, t, n) BY <1>1, <1>2, Started DEF Linked
<1>4. Flow(U, q, t, n) BY <1>3, LaterFlow
<1>5. T[t].child # "ended" => (\A i \in DOMAIN q : q[i].kind = "byte") /\ n + Len(q) = T[t].out
  BY <1>1, <1>2 DEF Linked, Current, AllThere, Start
<1>6. PICK x : x = Append(q, f) OBVIOUS
<1>7. Flow(U, x, t, n)
  <2>1. f.kind # "superseded" => \A i \in DOMAIN q : q[i].kind = "byte" BY <1>5
  <2>2. f.kind = "byte" => f.at = n + Len(q) + 1 /\ f.at <= U[t].out BY <1>5 DEF TermRec
  <2>3. f.kind = "exited" => U[t].child = "ended" /\ n + Len(q) = U[t].out BY <1>5
  <2> QED BY <1>4, <1>6, <2>1, <2>2, <2>3, FlowAppend
<1>8. l.queue = x BY <1>2, <1>6 DEF Joins
<1>9. x \in Seq(QueueItem) /\ Len(x) = Len(q) + 1 /\ x[Len(x)] = f /\ \A i \in 1 .. Len(q) : x[i] = q[i] BY <1>6
<1>10. U[t].sender = s => Current(U, p, w, l)
  <2>1. Start(p, w, l) = n BY <1>1 DEF Start, Joins
  <2>2. CASE f.kind = "superseded" BY <2>2
  <2>3. CASE f.kind = "byte"
    <3>1. \A i \in DOMAIN x : x[i].kind = "byte"
      <4>1. \A i \in DOMAIN q : q[i].kind = "byte" BY <1>5, <2>3
      <4>2. ASSUME NEW i \in DOMAIN x PROVE i = Len(x) \/ i \in 1 .. Len(q) BY <1>9
      <4> QED BY <1>9, <2>3, <4>1, <4>2
    <3>2. n + Len(x) = U[t].out BY <1>5, <1>9, <2>3 DEF TermRec
    <3> QED BY <1>8, <2>1, <3>1, <3>2 DEF Current, AllThere, Start, Joins
  <2>4. CASE f.kind = "exited"
    <3>1. x # <<>> /\ x[Len(x)].kind = "exited" BY <1>9, <2>4
    <3> QED BY <1>8, <2>4, <3>1 DEF Current, AllThere, Joins
  <2> QED BY <2>2, <2>3, <2>4
<1>11. Carried(U, p, w) /\ Fed(U, p, w, k) BY LaterCarried, LaterFed DEF Linked
<1>12. Flow(U, l.queue, k.term, Start(p, w, k)) BY <1>1, <1>7, <1>8
<1> QED BY <1>10, <1>11, <1>12, QueueLinked DEF Joins
-------------------------------------------------------------------------------
(* The frame of a step *)

PanesOK == \A v \in Panes : PaneOK(term, pane[v])

LEMMA InvParts == TerminalInv <=> Typed /\ TermsOK /\ SocksOK /\ PanesOK /\ Attachments
BY DEF TerminalInv, PanesOK

\* Panes that are not touched, and what they hold
LEMMA PanesStay ==
  ASSUME TerminalInv, Typed', TermsOK', SocksOK', Later(term, term'), UNCHANGED pane,
         \A v \in Panes : \A s \in Sockets : pane[v].socket = s =>
           Linked(term', pane[v], wire'[s], sock'[s], s)
  PROVE  TerminalInv'
<1>1. PICK U : U = term' OBVIOUS
<1>2. PanesOK'
  <2> SUFFICES ASSUME NEW v \in Panes PROVE PaneOK(U, pane[v]) BY <1>1 DEF PanesOK
  <2>1. term \in [Terms -> TermRec] /\ U \in [Terms -> TermRec] /\ pane[v] \in PaneRec
    BY <1>1 DEF TerminalInv, Typed
  <2>2. PaneOK(term, pane[v]) BY DEF TerminalInv
  <2> QED BY <1>1, <2>1, <2>2, LaterPane
<1>3. Attachments'
  <2> SUFFICES ASSUME NEW v \in Panes, pane[v].socket # None
               PROVE  /\ Linked(term', pane[v], wire'[pane[v].socket], sock'[pane[v].socket], pane[v].socket)
                      /\ \A u \in Panes : pane[u].socket = pane[v].socket => u = v
    BY DEF Attachments
  <2>1. pane[v].socket \in Sockets BY DEF TerminalInv, Typed, PaneRec
  <2>2. \A u \in Panes : pane[u].socket = pane[v].socket => u = v BY DEF TerminalInv, Attachments
  <2> QED BY <2>1, <2>2
<1> QED BY <1>2, <1>3, InvParts DEF TerminalInv, PanesOK

\* A socket that is not touched
LEMMA Elsewhere ==
  ASSUME TerminalInv, term' \in [Terms -> TermRec], Later(term, term'),
         NEW v \in Panes, NEW s \in Sockets, pane[v].socket = s,
         wire'[s] = wire[s], sock'[s] = sock[s],
         \A t \in Terms : term'[t].sender = s => term[t].sender = s /\ term'[t].out = term[t].out
  PROVE  Linked(term', pane[v], wire'[s], sock'[s], s)
<1>1. PICK U : U = term' OBVIOUS
<1>2. PICK p \in PaneRec : p = pane[v] BY DEF TerminalInv, Typed
<1>3. PICK w \in Seq(Frame) : w = wire[s] BY DEF TerminalInv, Typed
<1>4. PICK k \in SockRec : k = sock[s] BY DEF TerminalInv, Typed
<1>5. term \in [Terms -> TermRec] /\ U \in [Terms -> TermRec] /\ Later(term, U)
  BY <1>1 DEF TerminalInv, Typed
<1>6. Linked(term, p, w, k, s) BY <1>2, <1>3, <1>4, NoneIsNone DEF TerminalInv, Attachments
<1>7. k.pc \in {"info", "replay", "live"} => k.term \in Terms BY <1>4 DEF TerminalInv, SocksOK
<1>8. k.term \in Terms /\ U[k.term].sender = s => term[k.term].sender = s /\ U[k.term].out = term[k.term].out
  BY <1>1
<1>9. Linked(U, p, w, k, s) BY <1>5, <1>6, <1>7, <1>8, LaterLinked
<1> QED BY <1>1, <1>2, <1>3, <1>4, <1>9
LEMMA InvTypes ==
  ASSUME TerminalInv
  PROVE  /\ entry \in {None} \cup Terms /\ term \in [Terms -> TermRec]
         /\ sock \in [Sockets -> SockRec] /\ wire \in [Sockets -> Seq(Frame)] /\ keys \in [Sockets -> Int]
         /\ pane \in [Panes -> PaneRec]
         /\ \A t \in Terms : /\ term[t].out \in Nat /\ term[t].written \in Nat /\ term[t].gen \in Nat
                             /\ term[t].sender \in {None} \cup Sockets
                             /\ term[t].out <= term[t].written
                             /\ term[t].child = "ended" => term[t].out = term[t].written
<1>1. Typed /\ TermsOK BY DEF TerminalInv
<1>2. term \in [Terms -> TermRec] BY <1>1 DEF Typed
<1>3. \A t \in Terms : /\ term[t].out \in Nat /\ term[t].written \in Nat /\ term[t].gen \in Nat
                       /\ term[t].sender \in {None} \cup Sockets
  BY <1>2 DEF TermRec
<1> QED BY <1>1, <1>3 DEF Typed, TermsOK

-------------------------------------------------------------------------------
(* Threads *)

ThreadRec == [pc : {"idle", "drain", "open", "insert"}, term : {None} \cup Terms, spawns : BOOLEAN]

\* What moves threads and the entry alone
LEMMA ThreadsMove ==
  ASSUME TerminalInv, UNCHANGED <<term, net, pane>>,
         entry' \in {None} \cup Terms, thread' \in [Threads -> ThreadRec]
  PROVE  TerminalInv'
<1>1. UNCHANGED <<term, sock, wire, keys, pane>> BY DEF net
<1>2. Typed' BY <1>1 DEF TerminalInv, Typed, ThreadRec
<1>3. TermsOK' BY <1>1 DEF TerminalInv, TermsOK
<1>4. SocksOK' BY <1>1 DEF TerminalInv, SocksOK
<1>5. PanesOK' BY <1>1 DEF TerminalInv, PanesOK
<1>6. Attachments' BY <1>1 DEF TerminalInv, Attachments
<1> QED BY <1>2, <1>3, <1>4, <1>5, <1>6, InvParts DEF TerminalInv, PanesOK

LEMMA ThreadTypes ==
  ASSUME TerminalInv
  PROVE  thread \in [Threads -> ThreadRec] /\ NoCall \in ThreadRec
BY DEF TerminalInv, Typed, ThreadRec, NoCall

LEMMA TakeEntryKeeps ==
  ASSUME TerminalInv, NEW a \in Threads, NEW spawns \in BOOLEAN, TakeEntry(a, spawns)
  PROVE  TerminalInv'
<1>1. PICK h : h = [pc |-> IF entry = None THEN "open" ELSE "drain", term |-> entry, spawns |-> spawns]
  OBVIOUS
<1>2. h \in ThreadRec BY <1>1, InvTypes DEF ThreadRec
<1>3. thread' = [thread EXCEPT ![a] = h] /\ entry' = None BY <1>1 DEF TakeEntry
<1>4. thread' \in [Threads -> ThreadRec] BY <1>2, <1>3, ThreadTypes
<1> QED BY <1>3, <1>4, ThreadsMove DEF TakeEntry, net

LEMMA DrainedKeeps ==
  ASSUME TerminalInv, NEW a \in Threads, Drained(a)
  PROVE  TerminalInv'
<1>1. PICK h : h = IF thread[a].spawns THEN [thread[a] EXCEPT !.pc = "open", !.term = None] ELSE NoCall
  OBVIOUS
<1>2. h \in ThreadRec BY <1>1, ThreadTypes DEF ThreadRec
<1>3. thread' = [thread EXCEPT ![a] = h] BY <1>1, ThreadTypes DEF Drained
<1>4. thread' \in [Threads -> ThreadRec] BY <1>2, <1>3, ThreadTypes
<1> QED BY <1>4, ThreadsMove, InvTypes DEF Drained, net

LEMMA OpenFailsKeeps ==
  ASSUME TerminalInv, NEW a \in Threads, OpenFails(a)
  PROVE  TerminalInv'
<1>1. thread' \in [Threads -> ThreadRec] BY ThreadTypes DEF OpenFails
<1> QED BY <1>1, ThreadsMove, InvTypes DEF OpenFails, net

LEMMA InsertKeeps ==
  ASSUME TerminalInv, NEW a \in Threads, Insert(a)
  PROVE  TerminalInv'
<1>1. thread' \in [Threads -> ThreadRec] BY ThreadTypes DEF Insert
<1>2. entry' \in {None} \cup Terms BY ThreadTypes DEF Insert, ThreadRec
<1> QED BY <1>1, <1>2, ThreadsMove DEF Insert, net

-------------------------------------------------------------------------------
(* Children *)

\* The next terminal is one that was not there yet.
LEMMA NextTerm ==
  ASSUME TerminalInv, NEW t \in Terms, t = 1 + Cardinality({u \in Terms : term[u].child # "none"})
  PROVE  /\ term[t].child = "none"
         /\ \E k \in 0 .. MaxTerms : \A u \in Terms : (term[u].child # "none" \/ u = t) <=> u <= k
<1>1. PICK k \in 0 .. MaxTerms : \A u \in Terms : term[u].child # "none" <=> u <= k
  BY DEF TerminalInv, TermsOK
<1>2. k \in Nat /\ MaxTerms \in Nat BY TerminalAssumption
<1>3. {u \in Terms : term[u].child # "none"} = 1 .. k BY <1>1, <1>2 DEF Terms
<1>4. Cardinality({u \in Terms : term[u].child # "none"}) = k
  <2>1. Cardinality(1 .. k) = k BY <1>2, FS_Interval
  <2> QED BY <1>3, <2>1
<1>5. t = k + 1
  <2>1. t = 1 + k BY <1>4, Zenon
  <2> QED BY <1>2, <2>1
<1>6. term[t].child = "none" BY <1>1, <1>2, <1>5
<1>7. k + 1 \in 0 .. MaxTerms BY <1>2, <1>5 DEF Terms
<1>8. \A u \in Terms : (term[u].child # "none" \/ u = t) <=> u <= k + 1 BY <1>1, <1>2, <1>5 DEF Terms
<1> QED BY <1>6, <1>7, <1>8

\* A terminal's own steps: what it read and whom it sends to stay as they are.
Steps(t, r) ==
  /\ term' = [term EXCEPT ![t] = r] /\ r \in TermRec
  /\ r.out = term[t].out /\ r.gen = term[t].gen /\ r.sender = term[t].sender
  /\ term[t].child # "ended" /\ r.child # "ended" /\ r.out <= r.written
  /\ r.child # "none"
  /\ term[t].child = "none" =>
       \E k \in 0 .. MaxTerms : \A u \in Terms : (term[u].child # "none" \/ u = t) <=> u <= k

LEMMA StepsKeeps ==
  ASSUME TerminalInv, NEW t \in Terms, NEW r, Steps(t, r),
         UNCHANGED <<entry, net, pane>>, thread' \in [Threads -> ThreadRec]
  PROVE  TerminalInv'
<1>1. UNCHANGED <<entry, sock, wire, keys, pane>> BY DEF net
<1>2. term' \in [Terms -> TermRec] /\ term'[t] = r /\ \A u \in Terms \ {t} : term'[u] = term[u]
  BY InvTypes DEF Steps
<1>3. \A u \in Terms : term'[u].out = term[u].out /\ term'[u].sender = term[u].sender BY <1>2 DEF Steps
<1>4. Later(term, term') BY <1>2, InvTypes DEF Later, Steps
<1>5. Typed' BY <1>1, <1>2 DEF TerminalInv, Typed, ThreadRec
<1>6. TermsOK'
  <2>1. \A u \in Terms : /\ term'[u].out <= term'[u].written
                         /\ term'[u].child = "ended" => term'[u].out = term'[u].written
    BY <1>2, InvTypes DEF Steps
  <2>2. \A u \in Terms : term'[u].child # "none" <=> term[u].child # "none" \/ u = t
    BY <1>2 DEF Steps
  <2>3. \E k \in 0 .. MaxTerms : \A u \in Terms : (term[u].child # "none" \/ u = t) <=> u <= k
    <3>1. PICK k \in 0 .. MaxTerms : \A u \in Terms : term[u].child # "none" <=> u <= k
      BY DEF TerminalInv, TermsOK
    <3> QED BY <3>1 DEF Steps
  <2> QED BY <2>1, <2>2, <2>3 DEF TermsOK
<1>7. SocksOK' BY <1>1, <1>3 DEF TerminalInv, SocksOK
<1>8. ASSUME NEW v \in Panes, NEW s \in Sockets, pane[v].socket = s
      PROVE  Linked(term', pane[v], wire'[s], sock'[s], s)
  BY <1>1, <1>2, <1>3, <1>4, <1>8, Elsewhere
<1> QED BY <1>1, <1>4, <1>5, <1>6, <1>7, <1>8, PanesStay

LEMMA OpenChildKeeps ==
  ASSUME TerminalInv, NEW a \in Threads, NEW t \in Terms, OpenChild(a, t)
  PROVE  TerminalInv'
<1>1. PICK r : r = [term[t] EXCEPT !.child = "running"] OBVIOUS
<1>2. term[t] \in TermRec BY InvTypes
<1>3. /\ r \in TermRec /\ r.child = "running" /\ r.out = term[t].out /\ r.gen = term[t].gen
      /\ r.sender = term[t].sender /\ r.written = term[t].written
  BY <1>1, <1>2 DEF TermRec
<1>4. term' = [term EXCEPT ![t] = r] BY <1>1, InvTypes DEF OpenChild
<1>5. Steps(t, r) BY <1>3, <1>4, NextTerm, InvTypes DEF Steps, OpenChild
<1>6. PICK h : h = [thread[a] EXCEPT !.pc = "insert", !.term = t] OBVIOUS
<1>7. h \in ThreadRec BY <1>6, ThreadTypes DEF ThreadRec
<1>8. thread' = [thread EXCEPT ![a] = h] BY <1>6, ThreadTypes DEF OpenChild
<1>9. thread' \in [Threads -> ThreadRec] BY <1>7, <1>8, ThreadTypes
<1> QED BY <1>5, <1>9, StepsKeeps DEF OpenChild

LEMMA WritesKeeps ==
  ASSUME TerminalInv, NEW t \in Terms, Writes(t)
  PROVE  TerminalInv'
<1>1. PICK r : r = [term[t] EXCEPT !.written = @ + 1] OBVIOUS
<1>2. term[t] \in TermRec BY InvTypes
<1>3. /\ r \in TermRec /\ r.child = term[t].child /\ r.out = term[t].out /\ r.gen = term[t].gen
      /\ r.sender = term[t].sender /\ r.written = term[t].written + 1
  BY <1>1, <1>2 DEF TermRec
<1>4. term' = [term EXCEPT ![t] = r] BY <1>1, InvTypes DEF Writes
<1>5. term[t].child = "running" BY DEF Writes
<1>6. Steps(t, r) BY <1>3, <1>4, <1>5, InvTypes DEF Steps
<1> QED BY <1>6, ThreadTypes, StepsKeeps DEF Writes

LEMMA ChildExitsKeeps ==
  ASSUME TerminalInv, NEW t \in Terms, ChildExits(t)
  PROVE  TerminalInv'
<1>1. PICK r : r = [term[t] EXCEPT !.child = "exited"] OBVIOUS
<1>2. term[t] \in TermRec BY InvTypes
<1>3. /\ r \in TermRec /\ r.child = "exited" /\ r.out = term[t].out /\ r.gen = term[t].gen
      /\ r.sender = term[t].sender /\ r.written = term[t].written
  BY <1>1, <1>2 DEF TermRec
<1>4. term' = [term EXCEPT ![t] = r] BY <1>1, InvTypes DEF ChildExits
<1>5. Steps(t, r) BY <1>3, <1>4, InvTypes DEF Steps, ChildExits
<1> QED BY <1>5, ThreadTypes, StepsKeeps DEF ChildExits
-------------------------------------------------------------------------------
(* The sink *)

LEMMA SendsTo ==
  ASSUME TerminalInv, NEW t \in Terms, NEW f \in QueueItem, NEW c \in {0, 1}
  PROVE  /\ Sent(t, f, c) \in [Sockets -> SockRec]
         /\ \A s \in Sockets : IF term[t].sender = s THEN Joins(sock[s], Sent(t, f, c)[s], f, c)
                               ELSE Sent(t, f, c)[s] = sock[s]
<1>1. sock \in [Sockets -> SockRec] /\ term[t].sender \in {None} \cup Sockets BY InvTypes
<1>2. CASE term[t].sender = None
  <2>1. Sent(t, f, c) = sock BY <1>2 DEF Sent
  <2> QED BY <1>1, <1>2, <2>1, NoneIsNone
<1>3. CASE term[t].sender \in Sockets
  <2>1. PICK x \in Sockets : x = term[t].sender BY <1>3
  <2>2. PICK l : l = [sock[x] EXCEPT !.queue = Append(@, f), !.buffered = @ + c] OBVIOUS
  <2>3. sock[x] \in SockRec BY <1>1
  <2>4. Append(sock[x].queue, f) \in Seq(QueueItem) /\ sock[x].buffered + c \in Int BY <2>3 DEF SockRec
  <2>5. l \in SockRec BY <2>2, <2>3, <2>4 DEF SockRec
  <2>6. Joins(sock[x], l, f, c) BY <2>2, <2>3 DEF Joins, SockRec
  <2>7. Sent(t, f, c) = [sock EXCEPT ![x] = l] BY <1>1, <2>1, <2>2, NoneIsNone DEF Sent
  <2> QED BY <1>1, <2>1, <2>5, <2>6, <2>7
<1> QED BY <1>1, <1>2, <1>3

\* A socket's own part of SocksOK
SockOK(T, k, s) ==
  /\ k.pc \in {"info", "replay", "live"} => k.term \in Terms
  /\ k.pc = "hello" => k = [Free EXCEPT !.pc = "hello"]
  /\ k.buffered <= SendBuffer + 1
  /\ \A t \in Terms : T[t].sender = s =>
       /\ k.term = t /\ k.pc \in {"info", "replay", "live"}
       /\ k.buffered <= SendBuffer

LEMMA SocksOne == SocksOK <=> \A s \in Sockets : SockOK(term, sock[s], s)
BY DEF SocksOK, SockOK

\* The terminal that sent a frame, and what its step makes of it
Emits(t, r, f) ==
  /\ term' = [term EXCEPT ![t] = r] /\ r \in TermRec
  /\ term[t].child \notin {"none", "ended"} /\ r.child # "none"
  /\ r.written = term[t].written /\ term[t].out <= r.out /\ r.out <= r.written
  /\ r.child = "ended" => r.out = r.written
  /\ r.sender \in {None, term[t].sender}
  /\ \/ f.kind = "byte" /\ f.at = r.out /\ r.out = term[t].out + 1
     \/ f.kind = "exited" /\ r.child = "ended" /\ r.out = term[t].out

LEMMA EmitsKeeps ==
  ASSUME TerminalInv, NEW t \in Terms, NEW r, NEW f \in QueueItem, NEW c \in {0, 1}, Emits(t, r, f),
         sock' = Sent(t, f, c), UNCHANGED <<entry, thread, wire, keys, pane>>,
         \A s \in Sockets : r.sender = s => sock[s].buffered + c <= SendBuffer
  PROVE  TerminalInv'
<1>1. term' \in [Terms -> TermRec] /\ term'[t] = r /\ \A u \in Terms \ {t} : term'[u] = term[u]
  BY InvTypes DEF Emits
<1>2. PICK S \in [Sockets -> SockRec] :
        S = sock' /\ \A s \in Sockets : IF term[t].sender = s THEN Joins(sock[s], S[s], f, c) ELSE S[s] = sock[s]
  BY SendsTo
<1>3. Later(term, term') BY <1>1, InvTypes DEF Later, Emits
<1>4. Typed' BY <1>1, <1>2 DEF TerminalInv, Typed
<1>5. TermsOK'
  <2>1. \A u \in Terms : /\ term'[u].out <= term'[u].written
                         /\ term'[u].child = "ended" => term'[u].out = term'[u].written
    BY <1>1, InvTypes DEF Emits
  <2>2. \A u \in Terms : term'[u].child # "none" <=> term[u].child # "none" BY <1>1 DEF Emits
  <2> QED BY <2>1, <2>2 DEF TermsOK, TerminalInv
<1>6. \A u \in Terms : \A s \in Sockets : term'[u].sender = s => term[u].sender = s
  BY <1>1, NoneIsNone DEF Emits
<1>7. ASSUME NEW s \in Sockets PROVE SockOK(term', S[s], s)
  <2>1. SockOK(term, sock[s], s) BY SocksOne DEF TerminalInv
  <2>2. CASE term[t].sender # s BY <1>2, <1>6, <2>1, <2>2 DEF SockOK
  <2>3. CASE term[t].sender = s
    <3>1. Joins(sock[s], S[s], f, c) BY <1>2, <2>3
    <3>2. sock[s].pc \in {"info", "replay", "live"} /\ sock[s].buffered <= SendBuffer
      BY <2>1, <2>3 DEF SockOK
    <3>3. sock[s].buffered \in Int /\ SendBuffer \in Nat BY InvTypes, TerminalAssumption DEF SockRec
    <3>4. S[s].buffered <= SendBuffer + 1 BY <3>1, <3>2, <3>3 DEF Joins
    <3>5. ASSUME NEW u \in Terms, term'[u].sender = s
          PROVE  S[s].term = u /\ S[s].pc \in {"info", "replay", "live"} /\ S[s].buffered <= SendBuffer
      <4>1. sock[s].term = u /\ sock[s].term = t BY <1>6, <2>1, <2>3, <3>5 DEF SockOK
      <4>2. r.sender = s BY <1>1, <3>5, <4>1
      <4> QED BY <3>1, <3>2, <4>1, <4>2 DEF Joins
    <3> QED BY <2>1, <3>1, <3>2, <3>4, <3>5 DEF SockOK, Joins
  <2> QED BY <2>2, <2>3
<1>8. SocksOK' BY <1>2, <1>7 DEF SocksOK, SockOK
<1>9. ASSUME NEW v \in Panes, NEW s \in Sockets, pane[v].socket = s
      PROVE  Linked(term', pane[v], wire'[s], sock'[s], s)
  <2>1. CASE term[t].sender # s
    <3>1. \A u \in Terms : term'[u].sender = s => term[u].sender = s /\ term'[u].out = term[u].out
      BY <1>1, <1>6, <2>1
    <3> QED BY <1>1, <1>2, <1>3, <1>9, <2>1, <3>1, Elsewhere
  <2>2. CASE term[t].sender = s
    <3>1. PICK U : U = term' OBVIOUS
    <3>2. PICK p \in PaneRec : p = pane[v] BY InvTypes
    <3>3. PICK w \in Seq(Frame) : w = wire[s] BY InvTypes
    <3>4. PICK k \in SockRec : k = sock[s] BY InvTypes
    <3>5. PICK l \in SockRec : l = S[s] OBVIOUS
    <3>6. Joins(k, l, f, c) BY <1>2, <2>2, <3>4, <3>5
    <3>7. Linked(term, p, w, k, s) BY <1>9, <3>2, <3>3, <3>4, NoneIsNone DEF TerminalInv, Attachments
    <3>8. k.pc \in {"info", "replay", "live"} /\ k.term = t BY <2>2, <3>4, SocksOne DEF TerminalInv, SockOK
    <3>9. \/ f.kind = "byte" /\ f.at = U[t].out /\ U[t].out = term[t].out + 1 /\ term[t].child # "ended"
          \/ f.kind = "exited" /\ U[t].child = "ended" /\ U[t].out = term[t].out /\ term[t].child # "ended"
      BY <1>1, <3>1 DEF Emits
    <3>10. term \in [Terms -> TermRec] /\ U \in [Terms -> TermRec] /\ Later(term, U)
      BY <1>1, <1>3, <3>1, InvTypes
    <3>11. Linked(U, p, w, l, s) BY <2>2, <3>6, <3>7, <3>8, <3>9, <3>10, JoinsLinked
    <3> QED BY <1>2, <3>1, <3>2, <3>3, <3>5, <3>11
  <2> QED BY <2>1, <2>2
<1> QED BY <1>3, <1>4, <1>5, <1>8, <1>9, PanesStay

LEMMA SenderStays ==
  ASSUME TerminalInv, NEW t \in Terms, NEW c \in {0, 1}
  PROVE  /\ StillSending(t, c) \in {None, term[t].sender}
         /\ \A s \in Sockets : StillSending(t, c) = s => sock[s].buffered + c <= SendBuffer
<1>1. term[t].sender \in {None} \cup Sockets /\ None \notin Sockets BY InvTypes, NoneIsNone
<1>2. \A s \in Sockets : sock[s].buffered \in Int BY InvTypes DEF SockRec
<1>3. SendBuffer \in Nat BY TerminalAssumption
<1>4. ASSUME NEW s \in Sockets, StillSending(t, c) = s PROVE sock[s].buffered + c <= SendBuffer
  <2>1. term[t].sender = s /\ ~(sock[s].buffered + c > SendBuffer) BY <1>1, <1>4 DEF StillSending
  <2> QED BY <1>2, <1>3, <2>1
<1> QED BY <1>4 DEF StillSending

LEMMA PushKeeps ==
  ASSUME TerminalInv, NEW t \in Terms, Push(t)
  PROVE  TerminalInv'
<1>1. PICK f : f = Byte(term[t].out + 1) OBVIOUS
<1>2. f \in QueueItem /\ f.kind = "byte" /\ f.at = term[t].out + 1 BY <1>1, InvTypes DEF Byte, QueueItem
<1>3. PICK x \in {None} \cup Sockets : x = StillSending(t, 1) BY InvTypes, SenderStays
<1>4. PICK r : r = [term[t] EXCEPT !.out = @ + 1, !.sender = x] OBVIOUS
<1>5. /\ r \in TermRec /\ r.child = term[t].child /\ r.out = term[t].out + 1 /\ r.written = term[t].written
      /\ r.sender = StillSending(t, 1)
  <2>1. PICK o \in TermRec : o = term[t] BY InvTypes
  <2>2. PICK n \in Nat : n = o.out + 1 BY DEF TermRec
  <2>3. r = [o EXCEPT !.out = n, !.sender = x] BY <1>4, <2>1, <2>2
  <2>4. r \in TermRec BY <2>3 DEF TermRec
  <2>5. r.child = o.child /\ r.out = n /\ r.written = o.written /\ r.sender = x BY <2>3 DEF TermRec
  <2> QED BY <1>3, <2>1, <2>2, <2>4, <2>5
<1>6. term' = [term EXCEPT ![t] = r] BY <1>3, <1>4, InvTypes DEF Push
<1>7. term[t].child \in {"running", "exited"} /\ term[t].out < term[t].written BY DEF Push
<1>8. Emits(t, r, f) BY <1>2, <1>5, <1>6, <1>7, SenderStays, InvTypes DEF Emits
<1>9. sock' = Sent(t, f, 1) BY <1>1 DEF Push
<1> QED BY <1>2, <1>5, <1>8, <1>9, SenderStays, EmitsKeeps DEF Push

LEMMA ReportExitKeeps ==
  ASSUME TerminalInv, NEW t \in Terms, ReportExit(t)
  PROVE  TerminalInv'
<1>1. PICK f : f = Signal("exited") OBVIOUS
<1>2. f \in QueueItem /\ f.kind = "exited" BY <1>1 DEF Signal, QueueItem, Signals
<1>3. PICK r : r = [term[t] EXCEPT !.child = "ended"] OBVIOUS
<1>4. term[t] \in TermRec BY InvTypes
<1>5. /\ r \in TermRec /\ r.child = "ended" /\ r.out = term[t].out /\ r.written = term[t].written
      /\ r.sender = term[t].sender
  BY <1>3, <1>4 DEF TermRec
<1>6. term' = [term EXCEPT ![t] = r] BY <1>3, InvTypes DEF ReportExit
<1>7. term[t].child = "exited" /\ term[t].out = term[t].written BY DEF ReportExit, Joined
<1>8. Emits(t, r, f) BY <1>2, <1>5, <1>6, <1>7, InvTypes DEF Emits
<1>9. sock' = Sent(t, f, 0) BY <1>1 DEF ReportExit
<1>10. \A s \in Sockets : r.sender = s => sock[s].buffered + 0 <= SendBuffer
  <2>1. \A s \in Sockets : sock[s].buffered \in Int BY InvTypes DEF SockRec
  <2>2. ASSUME NEW s \in Sockets, term[t].sender = s PROVE sock[s].buffered <= SendBuffer
    BY <2>2 DEF TerminalInv, SocksOK
  <2> QED BY <1>5, <2>1, <2>2
<1> QED BY <1>2, <1>8, <1>9, <1>10, EmitsKeeps DEF ReportExit
-------------------------------------------------------------------------------
(* A socket's task *)

\* The task sends a frame that is not the end.
LEMMA SentLinked ==
  ASSUME NEW T \in [Terms -> TermRec], NEW p \in PaneRec, NEW w \in Seq(Frame), NEW s \in Sockets,
         NEW k \in SockRec, NEW l \in SockRec, NEW f \in Frame,
         Linked(T, p, w, k, s), k.pc # "free", l.pc \in {"replay", "live"}, l.term = k.term,
         k.term \in Terms, f.term = k.term,
         \/ f.kind = "attached" /\ w = <<>>
         \/ f.kind = "bytes" /\ f.term = PlaceTerm(p, w, Len(w) + 1) /\ f.from = PlaceAt(p, w, Len(w) + 1),
         f.from <= f.to, f.to <= T[k.term].out,
         l.pc = "replay" => EndOf(f) = l.from /\ l.from <= l.to /\ Flow(T, l.queue, l.term, l.to),
         l.pc = "live" => Flow(T, l.queue, l.term, EndOf(f)),
         T[k.term].sender = s => AllThere(T, l.queue, l.term, IF l.pc = "live" THEN EndOf(f) ELSE l.to)
  PROVE  Linked(T, p, Append(w, f), l, s)
<1>1. PICK x : x = Append(w, f) OBVIOUS
<1>2. x \in Seq(Frame) /\ Len(x) = Len(w) + 1 /\ x[Len(x)] = f /\ \A i \in 1 .. Len(w) : x[i] = w[i] BY <1>1
<1>3. \A i \in DOMAIN w : w[i].kind # "close" BY DEF Linked, Fed
<1>4. Carried(T, p, x)
  <2>1. Carried(T, p, w) BY DEF Linked
  <2>2. f.kind # "close" BY DEF Linked
  <2> QED BY <1>1, <1>3, <2>1, <2>2, CarriedAppend
<1>5. PlaceTerm(p, x, Len(x) + 1) = f.term /\ PlaceAt(p, x, Len(x) + 1) = EndOf(f)
  <2>1. PICK n \in Nat : n = Len(w) OBVIOUS
  <2>2. PlaceTerm(p, x, n + 2) = f.term /\ PlaceAt(p, x, n + 2) = EndOf(f) BY <1>1, <2>1, PlaceAppend
  <2>3. Len(x) + 1 = n + 2 BY <1>2, <2>1
  <2> QED BY <2>2, <2>3
<1>6. \A i \in DOMAIN x : x[i].kind # "close"
  <2>1. \A i \in DOMAIN x : i = Len(x) \/ i \in DOMAIN w BY <1>2
  <2> QED BY <1>2, <1>3, <2>1
<1>7. Fed(T, p, x, l) BY <1>5, <1>6 DEF Fed
<1>8. T[l.term].sender = s => Current(T, p, x, l) BY <1>5 DEF Current, Start
<1> QED BY <1>1, <1>4, <1>7, <1>8 DEF Linked

\* The task sends the end, and is over.
LEMMA ClosedLinked ==
  ASSUME NEW T \in [Terms -> TermRec], NEW p \in PaneRec, NEW w \in Seq(Frame), NEW s \in Sockets,
         NEW k \in SockRec, NEW f \in Frame, Linked(T, p, w, k, s), k.pc # "free", f.kind = "close",
         f.code = "exited" => Over(T, PlaceTerm(p, w, Len(w) + 1), PlaceAt(p, w, Len(w) + 1))
  PROVE  Linked(T, p, Append(w, f), Free, s)
<1>1. \A i \in DOMAIN w : w[i].kind # "close" BY DEF Linked, Fed
<1>2. Carried(T, p, Append(w, f)) BY <1>1, CarriedAppend DEF Linked
<1>3. Free.pc = "free" /\ Free.term \notin Terms BY NoneIsNone DEF Free
<1>4. Fed(T, p, Append(w, f), Free) BY <1>3 DEF Fed
<1> QED BY <1>2, <1>3, <1>4 DEF Linked

\* What the tasks leave of the terminals: all but whom they send to
SameStreams ==
  /\ term' \in [Terms -> TermRec]
  /\ \A t \in Terms : /\ term'[t].child = term[t].child /\ term'[t].out = term[t].out
                      /\ term'[t].written = term[t].written

LEMMA SameStreamsKeep ==
  ASSUME TerminalInv, SameStreams
  PROVE  TermsOK' /\ Later(term, term')
<1>1. Later(term, term') BY InvTypes DEF SameStreams, Later
<1>2. \A t \in Terms : /\ term'[t].out <= term'[t].written
                       /\ term'[t].child = "ended" => term'[t].out = term'[t].written
  BY InvTypes DEF SameStreams
<1>3. \E k \in 0 .. MaxTerms : \A t \in Terms : term'[t].child # "none" <=> t <= k
  BY DEF TerminalInv, TermsOK, SameStreams
<1> QED BY <1>1, <1>2, <1>3 DEF TermsOK

\* One task takes a step.
LEMMA TaskKeeps ==
  ASSUME TerminalInv, NEW s \in Sockets, NEW l \in SockRec, NEW x \in Seq(Frame),
         sock' = [sock EXCEPT ![s] = l], wire' = [wire EXCEPT ![s] = x], keys' \in [Sockets -> Int],
         UNCHANGED <<entry, thread, pane>>, SameStreams,
         \A t \in Terms : term'[t].sender \in {None, term[t].sender},
         SockOK(term', l, s),
         \A v \in Panes : pane[v].socket = s => Linked(term', pane[v], x, l, s)
  PROVE  TerminalInv'
<1>1. TermsOK' /\ Later(term, term') BY SameStreamsKeep
<1>2. /\ sock' \in [Sockets -> SockRec] /\ sock'[s] = l /\ \A r \in Sockets \ {s} : sock'[r] = sock[r]
      /\ wire' \in [Sockets -> Seq(Frame)] /\ wire'[s] = x /\ \A r \in Sockets \ {s} : wire'[r] = wire[r]
  BY InvTypes
<1>3. Typed' BY <1>2 DEF TerminalInv, Typed, SameStreams
<1>4. \A r \in Sockets : \A t \in Terms : term'[t].sender = r => term[t].sender = r BY NoneIsNone
<1>5. ASSUME NEW r \in Sockets PROVE SockOK(term', sock'[r], r)
  <2>1. SockOK(term, sock[r], r) BY SocksOne DEF TerminalInv
  <2> QED BY <1>2, <1>4, <2>1 DEF SockOK
<1>6. SocksOK' BY <1>5 DEF SocksOK, SockOK
<1>7. ASSUME NEW v \in Panes, NEW r \in Sockets, pane[v].socket = r
      PROVE  Linked(term', pane[v], wire'[r], sock'[r], r)
  <2>1. CASE r = s BY <1>2, <1>7, <2>1
  <2>2. CASE r # s
    <3>1. \A t \in Terms : term'[t].sender = r => term[t].sender = r /\ term'[t].out = term[t].out
      BY <1>4 DEF SameStreams
    <3> QED BY <1>1, <1>2, <1>3, <1>7, <2>2, <3>1, Elsewhere DEF SameStreams
  <2> QED BY <2>1, <2>2
<1> QED BY <1>1, <1>3, <1>6, <1>7, PanesStay

\* A task that is over is nobody's to send to.
LEMMA DroppedTerms ==
  ASSUME TerminalInv, NEW s \in Sockets, term' = Dropped(s)
  PROVE  /\ SameStreams
         /\ \A t \in Terms : term'[t].sender \in {None, term[t].sender} /\ term'[t].sender # s
         /\ SockOK(term', Free, s) /\ Free \in SockRec
<1>1. ASSUME NEW t \in Terms
      PROVE  /\ term'[t] \in TermRec
             /\ term'[t].child = term[t].child /\ term'[t].out = term[t].out /\ term'[t].written = term[t].written
             /\ term'[t].sender \in {None, term[t].sender} /\ term'[t].sender # s
  <2>1. term[t] \in TermRec BY InvTypes
  <2>2. term'[t] = IF term[t].sender = s THEN [term[t] EXCEPT !.sender = None] ELSE term[t] BY DEF Dropped
  <2> QED BY <2>1, <2>2, NoneIsNone DEF TermRec
<1>2. term' \in [Terms -> TermRec] BY <1>1 DEF Dropped
<1>3. Free \in SockRec /\ Free.pc = "free" /\ Free.buffered = 0 BY DEF Free, SockRec
<1>4. SendBuffer \in Nat BY TerminalAssumption
<1> QED BY <1>1, <1>2, <1>3, <1>4 DEF SameStreams, SockOK
\* A pane's link, once the step has changed the terminals but not yet the socket
LEMMA LinkedThen ==
  ASSUME TerminalInv, SameStreams, \A t \in Terms : term'[t].sender \in {None, term[t].sender},
         NEW v \in Panes, NEW s \in Sockets, pane[v].socket = s
  PROVE  Linked(term', pane[v], wire[s], sock[s], s)
<1>1. PICK U : U = term' OBVIOUS
<1>2. PICK p \in PaneRec : p = pane[v] BY InvTypes
<1>3. PICK w \in Seq(Frame) : w = wire[s] BY InvTypes
<1>4. PICK k \in SockRec : k = sock[s] BY InvTypes
<1>5. term \in [Terms -> TermRec] /\ U \in [Terms -> TermRec] /\ Later(term, U)
  BY <1>1, InvTypes, SameStreamsKeep DEF SameStreams
<1>6. Linked(term, p, w, k, s) BY <1>2, <1>3, <1>4, NoneIsNone DEF TerminalInv, Attachments
<1>7. k.pc \in {"info", "replay", "live"} => k.term \in Terms BY <1>4 DEF TerminalInv, SocksOK
<1>8. k.term \in Terms /\ U[k.term].sender = s => term[k.term].sender = s /\ U[k.term].out = term[k.term].out
  BY <1>1, NoneIsNone DEF SameStreams
<1>9. Linked(U, p, w, k, s) BY <1>5, <1>6, <1>7, <1>8, LaterLinked
<1> QED BY <1>1, <1>2, <1>3, <1>4, <1>9

LEMMA CloseKeeps ==
  ASSUME TerminalInv, NEW s \in Sockets, NEW code \in {"gone"} \cup Signals, CloseWith(s, code),
         sock[s].pc # "free",
         \A v \in Panes : pane[v].socket = s /\ code = "exited" =>
           Over(term, PlaceTerm(pane[v], wire[s], Len(wire[s]) + 1), PlaceAt(pane[v], wire[s], Len(wire[s]) + 1))
  PROVE  TerminalInv'
<1>1. PICK f : f = [kind |-> "close", code |-> code] OBVIOUS
<1>2. f \in Frame /\ f.kind = "close" /\ f.code = code BY <1>1 DEF Frame, EndFrame
<1>3. PICK x : x = Append(wire[s], f) OBVIOUS
<1>4. x \in Seq(Frame) BY <1>2, <1>3, InvTypes
<1>5. /\ SameStreams
      /\ \A t \in Terms : term'[t].sender \in {None, term[t].sender} /\ term'[t].sender # s
      /\ SockOK(term', Free, s) /\ Free \in SockRec
  BY DroppedTerms DEF CloseWith
<1>6. ASSUME NEW v \in Panes, pane[v].socket = s PROVE Linked(term', pane[v], x, Free, s)
  <2>1. PICK U : U = term' OBVIOUS
  <2>2. PICK p \in PaneRec : p = pane[v] BY InvTypes
  <2>3. PICK w \in Seq(Frame) : w = wire[s] BY InvTypes
  <2>4. PICK k \in SockRec : k = sock[s] BY InvTypes
  <2>5. U \in [Terms -> TermRec] BY <1>5, <2>1 DEF SameStreams
  <2>6. Linked(U, p, w, k, s) BY <1>5, <1>6, <2>1, <2>2, <2>3, <2>4, LinkedThen
  <2>7. f.code = "exited" => Over(U, PlaceTerm(p, w, Len(w) + 1), PlaceAt(p, w, Len(w) + 1))
    BY <1>2, <1>5, <1>6, <2>1, <2>2, <2>3 DEF Over, SameStreams
  <2>8. Linked(U, p, Append(w, f), Free, s) BY <1>2, <2>4, <2>5, <2>6, <2>7, ClosedLinked
  <2> QED BY <1>3, <2>1, <2>2, <2>3, <2>8
<1>7. sock' = [sock EXCEPT ![s] = Free] /\ wire' = [wire EXCEPT ![s] = x]
  BY <1>1, <1>3, InvTypes DEF CloseWith, Put
<1>8. keys' \in [Sockets -> Int] BY InvTypes DEF CloseWith
<1> QED BY <1>4, <1>5, <1>6, <1>7, <1>8, TaskKeeps DEF CloseWith

LEMMA NoLiveTerminalKeeps ==
  ASSUME TerminalInv, NEW s \in Sockets, NoLiveTerminal(s)
  PROVE  TerminalInv'
BY CloseKeeps DEF NoLiveTerminal

LEMMA SendEndKeeps ==
  ASSUME TerminalInv, NEW s \in Sockets, SendEnd(s)
  PROVE  TerminalInv'
<1>1. CASE CloseWith(s, "superseded") BY <1>1, CloseKeeps DEF SendEnd, Signals
<1>2. CASE sock[s].queue # <<>> /\ Head(sock[s].queue).kind # "byte" /\ CloseWith(s, Head(sock[s].queue).kind)
  <2>1. PICK k \in SockRec : k = sock[s] BY InvTypes
  <2>2. PICK q \in Seq(QueueItem) : q = k.queue BY DEF SockRec
  <2>3. q # <<>> /\ q[1].kind # "byte" /\ CloseWith(s, q[1].kind) BY <1>2, <2>1, <2>2
  <2>4. 1 \in DOMAIN q /\ q[1] \in QueueItem BY <2>2, <2>3
  <2>5. PICK code \in Signals : code = q[1].kind BY <2>3, <2>4 DEF QueueItem
  <2>6. k.pc = "live" BY <2>1 DEF SendEnd
  <2>7. ASSUME NEW v \in Panes, pane[v].socket = s, code = "exited"
        PROVE  Over(term, PlaceTerm(pane[v], wire[s], Len(wire[s]) + 1), PlaceAt(pane[v], wire[s], Len(wire[s]) + 1))
    <3>1. Linked(term, pane[v], wire[s], k, s) BY <2>1, <2>7, NoneIsNone DEF TerminalInv, Attachments
    <3>2. PICK n : n = PlaceAt(pane[v], wire[s], Len(wire[s]) + 1) OBVIOUS
    <3>3. n \in Nat
      <4>1. PICK w \in Seq(Frame) : w = wire[s] BY InvTypes
      <4>2. \A i \in DOMAIN w : w[i].kind # "close" BY <2>6, <3>1, <4>1 DEF Linked, Fed
      <4>3. pane[v] \in PaneRec BY InvTypes
      <4> QED BY <3>2, <4>1, <4>2, <4>3, PlaceType
    <3>4. PlaceTerm(pane[v], wire[s], Len(wire[s]) + 1) = k.term /\ Flow(term, q, k.term, n)
      BY <2>2, <2>6, <3>1, <3>2 DEF Linked, Fed
    <3>5. k.term \in Terms BY <2>1, <2>6 DEF TerminalInv, SocksOK
    <3>6. term[k.term].child = "ended" /\ n + 1 - 1 = term[k.term].out BY <2>4, <2>5, <2>7, <3>4 DEF Flow
    <3>7. n = term[k.term].out BY <3>3, <3>6
    <3> QED BY <3>2, <3>4, <3>5, <3>6, <3>7 DEF Over
  <2> QED BY <2>1, <2>3, <2>5, <2>6, <2>7, CloseKeeps
<1> QED BY <1>1, <1>2 DEF SendEnd

LEMMA PeerGoneKeeps ==
  ASSUME TerminalInv, NEW s \in Sockets, PeerGone(s)
  PROVE  TerminalInv'
<1>1. /\ SameStreams
      /\ \A t \in Terms : term'[t].sender \in {None, term[t].sender} /\ term'[t].sender # s
      /\ SockOK(term', Free, s) /\ Free \in SockRec
  BY DroppedTerms DEF PeerGone
<1>2. \A v \in Panes : pane[v].socket # s BY DEF PeerGone, Unowned
<1>3. <<>> \in Seq(Frame) OBVIOUS
<1>4. keys' \in [Sockets -> Int] BY InvTypes DEF PeerGone
<1> QED BY <1>1, <1>2, <1>3, <1>4, TaskKeeps DEF PeerGone

LEMMA ReadKeyKeeps ==
  ASSUME TerminalInv, NEW s \in Sockets, ReadKey(s)
  PROVE  TerminalInv'
<1>1. /\ SameStreams /\ \A t \in Terms : term'[t].sender = term[t].sender
  <2>1. CASE entry # None /\ term[entry].gen = sock[s].gen
    <3>1. entry \in Terms /\ term[entry] \in TermRec /\ sock[s].term \in {None} \cup Terms
      BY <2>1, InvTypes DEF SockRec
    <3>2. PICK r : r = [term[entry] EXCEPT !.took = @ \cup {sock[s].term}] OBVIOUS
    <3>3. /\ r \in TermRec /\ r.child = term[entry].child /\ r.out = term[entry].out
          /\ r.written = term[entry].written /\ r.sender = term[entry].sender
      BY <3>1, <3>2 DEF TermRec
    <3>4. term' = [term EXCEPT ![entry] = r] BY <2>1, <3>2, InvTypes DEF ReadKey
    <3> QED BY <3>1, <3>3, <3>4, InvTypes DEF SameStreams
  <2>2. CASE ~(entry # None /\ term[entry].gen = sock[s].gen) BY <2>2, InvTypes DEF SameStreams, ReadKey
  <2> QED BY <2>1, <2>2
<1>2. sock' = [sock EXCEPT ![s] = sock[s]] /\ wire' = [wire EXCEPT ![s] = wire[s]] BY InvTypes DEF ReadKey
<1>3. keys' \in [Sockets -> Int] BY InvTypes DEF ReadKey
<1>4. SockOK(term', sock[s], s) BY <1>1, SocksOne DEF TerminalInv, SockOK
<1>5. \A v \in Panes : pane[v].socket = s => Linked(term', pane[v], wire[s], sock[s], s) BY <1>1, LinkedThen
<1>6. sock[s] \in SockRec /\ wire[s] \in Seq(Frame) BY InvTypes
<1> QED BY <1>1, <1>2, <1>3, <1>4, <1>5, <1>6, TaskKeeps DEF ReadKey
\* The task sends a frame that leaves the terminals alone.
LEMMA SendKeeps ==
  ASSUME TerminalInv, NEW s \in Sockets, NEW l \in SockRec, NEW f \in Frame,
         sock' = [sock EXCEPT ![s] = l], Put(s, f), UNCHANGED <<daemon, keys, pane>>,
         SockOK(term, l, s),
         \A v \in Panes : \A w \in Seq(Frame) :
           pane[v].socket = s /\ w = wire[s] => Linked(term, pane[v], Append(w, f), l, s)
  PROVE  TerminalInv'
<1>1. PICK x : x = Append(wire[s], f) OBVIOUS
<1>2. x \in Seq(Frame) BY <1>1, InvTypes
<1>3. wire' = [wire EXCEPT ![s] = x] BY <1>1, InvTypes DEF Put
<1>4. UNCHANGED <<entry, term, thread, keys, pane>> BY DEF daemon
<1>5. SameStreams /\ \A t \in Terms : term'[t].sender \in {None, term[t].sender}
  BY <1>4, InvTypes DEF SameStreams
<1>6. SockOK(term', l, s) BY <1>4
<1>7. \A v \in Panes : pane[v].socket = s => Linked(term', pane[v], x, l, s) BY <1>1, <1>4, InvTypes
<1> QED BY <1>2, <1>3, <1>4, <1>5, <1>6, <1>7, InvTypes, TaskKeeps

LEMMA SendInfoKeeps ==
  ASSUME TerminalInv, NEW s \in Sockets, SendInfo(s)
  PROVE  TerminalInv'
<1>1. PICK k \in SockRec : k = sock[s] BY InvTypes
<1>2. PICK l : l = [k EXCEPT !.pc = IF k.from = k.to THEN "live" ELSE "replay"] OBVIOUS
<1>3. /\ l \in SockRec /\ l.pc = (IF k.from = k.to THEN "live" ELSE "replay") /\ l.term = k.term
      /\ l.from = k.from /\ l.to = k.to /\ l.queue = k.queue /\ l.buffered = k.buffered
  BY <1>2 DEF SockRec
<1>4. k.pc = "info" /\ k.term \in Terms BY <1>1 DEF SendInfo, TerminalInv, SocksOK
<1>5. PICK f : f = [kind |-> "attached", term |-> k.term, from |-> k.from, to |-> k.to] OBVIOUS
<1>6. f \in Frame /\ f.kind = "attached" /\ f.term = k.term /\ f.from = k.from /\ f.to = k.to /\ EndOf(f) = k.from
  BY <1>4, <1>5 DEF Frame, DataFrame, SockRec, EndOf
<1>7. sock' = [sock EXCEPT ![s] = l] /\ Put(s, f) BY <1>1, <1>2, <1>5, InvTypes DEF SendInfo
<1>8. SockOK(term, l, s)
  <2>1. SockOK(term, k, s) BY <1>1, SocksOne DEF TerminalInv
  <2> QED BY <1>3, <1>4, <2>1 DEF SockOK
<1>9. ASSUME NEW v \in Panes, NEW w \in Seq(Frame), pane[v].socket = s, w = wire[s]
      PROVE  Linked(term, pane[v], Append(w, f), l, s)
  <2>1. Linked(term, pane[v], w, k, s) BY <1>1, <1>9, NoneIsNone DEF TerminalInv, Attachments
  <2>2. w = <<>> /\ k.from <= k.to /\ Flow(term, k.queue, k.term, k.to) BY <1>4, <2>1 DEF Linked, Fed
  <2>3. k.to <= term[k.term].out BY <2>2 DEF Flow
  <2>4. l.pc = "live" => Flow(term, l.queue, l.term, EndOf(f)) BY <1>3, <1>6, <2>2
  <2>5. l.pc = "replay" => EndOf(f) = l.from /\ l.from <= l.to /\ Flow(term, l.queue, l.term, l.to)
    BY <1>3, <1>6, <2>2
  <2>6. term[k.term].sender = s => AllThere(term, l.queue, l.term, IF l.pc = "live" THEN EndOf(f) ELSE l.to)
    <3>1. term[k.term].sender = s => AllThere(term, k.queue, k.term, k.to)
      BY <1>4, <2>1 DEF Linked, Current, Start
    <3> QED BY <1>3, <1>6, <3>1
  <2>7. pane[v] \in PaneRec /\ term \in [Terms -> TermRec] BY InvTypes
  <2> QED BY <1>3, <1>4, <1>6, <2>1, <2>2, <2>3, <2>4, <2>5, <2>6, <2>7, SentLinked
<1> QED BY <1>3, <1>6, <1>7, <1>8, <1>9, SendKeeps DEF SendInfo

\* What a task sends of its terminal's bytes
LEMMA BytesFrame ==
  ASSUME TerminalInv, NEW s \in Sockets, NEW m \in Nat, NEW n \in Nat, sock[s].term \in Terms
  PROVE  LET f == Bytes(s, m, n) IN
         f \in Frame /\ f.kind = "bytes" /\ f.term = sock[s].term /\ f.from = m /\ f.to = n /\ EndOf(f) = n
BY DEF Bytes, Frame, DataFrame, EndOf

LEMMA SendReplayKeeps ==
  ASSUME TerminalInv, NEW s \in Sockets, SendReplay(s)
  PROVE  TerminalInv'
<1>1. PICK k \in SockRec : k = sock[s] BY InvTypes
<1>2. PICK l : l = [k EXCEPT !.pc = "live"] OBVIOUS
<1>3. /\ l \in SockRec /\ l.pc = "live" /\ l.term = k.term
      /\ l.from = k.from /\ l.to = k.to /\ l.queue = k.queue /\ l.buffered = k.buffered
  BY <1>2 DEF SockRec
<1>4. k.pc = "replay" /\ k.term \in Terms /\ k.from \in Nat /\ k.to \in Nat
  BY <1>1 DEF SendReplay, TerminalInv, SocksOK, SockRec
<1>5. PICK f : f = Bytes(s, k.from, k.to) OBVIOUS
<1>6. f \in Frame /\ f.kind = "bytes" /\ f.term = k.term /\ f.from = k.from /\ f.to = k.to /\ EndOf(f) = k.to
  BY <1>1, <1>4, <1>5, BytesFrame
<1>7. sock' = [sock EXCEPT ![s] = l] /\ Put(s, f) BY <1>1, <1>2, <1>5, InvTypes DEF SendReplay
<1>8. SockOK(term, l, s)
  <2>1. SockOK(term, k, s) BY <1>1, SocksOne DEF TerminalInv
  <2> QED BY <1>3, <1>4, <2>1 DEF SockOK
<1>9. ASSUME NEW v \in Panes, NEW w \in Seq(Frame), pane[v].socket = s, w = wire[s]
      PROVE  Linked(term, pane[v], Append(w, f), l, s)
  <2>1. Linked(term, pane[v], w, k, s) BY <1>1, <1>9, NoneIsNone DEF TerminalInv, Attachments
  <2>2. k.from <= k.to /\ Flow(term, k.queue, k.term, k.to) BY <1>4, <2>1 DEF Linked, Fed
  <2>3. k.to <= term[k.term].out BY <2>2 DEF Flow
  <2>4. f.term = PlaceTerm(pane[v], w, Len(w) + 1) /\ f.from = PlaceAt(pane[v], w, Len(w) + 1)
    BY <1>4, <1>6, <2>1 DEF Linked, Fed
  <2>5. term[k.term].sender = s => AllThere(term, l.queue, l.term, EndOf(f))
    <3>1. term[k.term].sender = s => AllThere(term, k.queue, k.term, k.to)
      BY <1>4, <2>1 DEF Linked, Current, Start
    <3> QED BY <1>3, <1>6, <3>1
  <2>6. pane[v] \in PaneRec /\ term \in [Terms -> TermRec] BY InvTypes
  <2>7. Flow(term, l.queue, l.term, EndOf(f)) BY <1>3, <1>6, <2>2
  <2> QED BY <1>3, <1>4, <1>6, <2>1, <2>2, <2>3, <2>4, <2>5, <2>6, <2>7, SentLinked
<1> QED BY <1>3, <1>6, <1>7, <1>8, <1>9, SendKeeps DEF SendReplay

\* Without its first byte a complete queue goes on from one byte later.
LEMMA AllThereTail ==
  ASSUME NEW T \in [Terms -> TermRec], NEW q \in Seq(QueueItem), q # <<>>, q[1].kind = "byte",
         NEW t \in Terms, NEW n \in Nat, AllThere(T, q, t, n)
  PROVE  AllThere(T, Tail(q), t, n + 1)
<1>1. PICK x : x = Tail(q) OBVIOUS
<1>2. x \in Seq(QueueItem) /\ Len(x) = Len(q) - 1 /\ \A i \in 1 .. Len(q) - 1 : x[i] = q[i + 1] BY <1>1
<1>3. CASE (\A i \in DOMAIN q : q[i].kind = "byte") /\ n + Len(q) = T[t].out
  <2>1. \A i \in DOMAIN x : x[i].kind = "byte"
    <3>1. \A i \in DOMAIN x : x[i] = q[i + 1] /\ i + 1 \in DOMAIN q BY <1>2
    <3> QED BY <1>3, <3>1
  <2>2. n + 1 + Len(x) = T[t].out BY <1>2, <1>3
  <2> QED BY <1>1, <2>1, <2>2 DEF AllThere
<1>4. CASE T[t].child = "ended" /\ q[Len(q)].kind = "exited"
  <2>1. PICK m \in Nat : m = Len(q) OBVIOUS
  <2>2. m # 1 /\ m # 0 BY <1>4, <2>1
  <2>3. x[m - 1] = q[m] /\ Len(x) = m - 1 BY <1>2, <2>1, <2>2
  <2>4. x # <<>> BY <2>2, <2>3, <2>1
  <2> QED BY <1>1, <1>4, <2>1, <2>3, <2>4 DEF AllThere
<1> QED BY <1>3, <1>4 DEF AllThere

LEMMA SendByteKeeps ==
  ASSUME TerminalInv, NEW s \in Sockets, SendByte(s)
  PROVE  TerminalInv'
<1>1. PICK k \in SockRec : k = sock[s] BY InvTypes
<1>2. PICK q \in Seq(QueueItem) : q = k.queue BY DEF SockRec
<1>3. q # <<>> /\ q[1].kind = "byte" /\ k.pc = "live" BY <1>1, <1>2 DEF SendByte
<1>4. q[1] \in QueueItem BY <1>3
<1>5. k.term \in Terms BY <1>1, <1>3 DEF TerminalInv, SocksOK
<1>6. PICK r : r = Tail(q) OBVIOUS
<1>7. PICK l : l = [k EXCEPT !.queue = r, !.buffered = @ - 1] OBVIOUS
<1>8. /\ l \in SockRec /\ l.pc = "live" /\ l.term = k.term /\ l.queue = r /\ l.buffered = k.buffered - 1
  <2>1. r \in Seq(QueueItem) BY <1>3, <1>6, HeadTailProperties
  <2>2. PICK b \in Int : b = k.buffered - 1 BY DEF SockRec
  <2>3. l = [k EXCEPT !.queue = r, !.buffered = b] BY <1>7, <2>2
  <2>4. l \in SockRec BY <2>1, <2>3 DEF SockRec
  <2> QED BY <1>3, <2>2, <2>3, <2>4 DEF SockRec
<1>9. PICK f : f = Bytes(s, q[1].at - 1, q[1].at) OBVIOUS
<1>10. sock' = [sock EXCEPT ![s] = l]
  <2>1. sock' = [sock EXCEPT ![s] = [sock[s] EXCEPT !.queue = Tail(@), !.buffered = @ - 1]]
    BY InvTypes DEF SendByte
  <2> QED BY <1>1, <1>2, <1>6, <1>7, <2>1
<1>11. Put(s, f)
  <2>1. Put(s, Bytes(s, Head(sock[s].queue).at - 1, Head(sock[s].queue).at)) BY DEF SendByte
  <2>2. Head(sock[s].queue) = q[1] BY <1>1, <1>2, <1>3
  <2>3. f = Bytes(s, Head(sock[s].queue).at - 1, Head(sock[s].queue).at) BY <1>9, <2>2, Zenon
  <2> QED BY <2>1, <2>3, Zenon
<1>12. PICK n \in Nat : n + 1 = q[1].at
  <2>1. PICK a : a = q[1].at OBVIOUS
  <2>2. a \in Nat /\ a > 0 BY <1>3, <1>4, <2>1 DEF QueueItem
  <2>3. a - 1 \in Nat /\ (a - 1) + 1 = a BY <2>2
  <2> QED BY <2>1, <2>3
<1>13. f \in Frame /\ f.kind = "bytes" /\ f.term = k.term /\ f.from = n /\ f.to = n + 1 /\ EndOf(f) = n + 1
  <2>1. q[1].at - 1 = n /\ q[1].at = n + 1 BY <1>12
  <2>2. f = Bytes(s, n, n + 1) BY <1>9, <2>1
  <2> QED BY <1>1, <1>5, <2>2, BytesFrame
<1>14. SockOK(term, l, s)
  <2>1. SockOK(term, k, s) BY <1>1, SocksOne DEF TerminalInv
  <2>2. k.buffered \in Int /\ SendBuffer \in Nat BY TerminalAssumption DEF SockRec
  <2> QED BY <1>3, <1>8, <2>1, <2>2 DEF SockOK
<1>15. ASSUME NEW v \in Panes, NEW w \in Seq(Frame), pane[v].socket = s, w = wire[s]
      PROVE  Linked(term, pane[v], Append(w, f), l, s)
  <2>1. Linked(term, pane[v], w, k, s) BY <1>1, <1>15, NoneIsNone DEF TerminalInv, Attachments
  <2>2. pane[v] \in PaneRec /\ term \in [Terms -> TermRec] BY InvTypes
  <2>3. PICK m \in Nat : m = PlaceAt(pane[v], w, Len(w) + 1)
    <3>1. \A i \in DOMAIN w : w[i].kind # "close" BY <1>3, <2>1 DEF Linked, Fed
    <3> QED BY <2>2, <3>1, PlaceType
  <2>4. Flow(term, q, k.term, m) /\ PlaceTerm(pane[v], w, Len(w) + 1) = k.term
    BY <1>2, <1>3, <2>1, <2>3 DEF Linked, Fed
  <2>5. q[1].at = m + 1 /\ Flow(term, r, k.term, m + 1) BY <1>3, <1>5, <1>6, <2>2, <2>4, FlowTail
  <2>6. m = n BY <1>12, <2>5
  <2>7. n + 1 <= term[k.term].out BY <2>5, <2>6 DEF Flow
  <2>8. term[k.term].sender = s => AllThere(term, r, k.term, n + 1)
    <3>1. term[k.term].sender = s => AllThere(term, q, k.term, n)
      BY <1>2, <1>3, <1>5, <2>1, <2>3, <2>6 DEF Linked, Current, Start
    <3> QED BY <1>3, <1>5, <1>6, <2>2, <3>1, AllThereTail
  <2>9. Flow(term, l.queue, l.term, EndOf(f)) BY <1>8, <1>13, <2>5, <2>6
  <2>10. term[k.term].sender = s => AllThere(term, l.queue, l.term, EndOf(f)) BY <1>8, <1>13, <2>8
  <2>11. f.term = PlaceTerm(pane[v], w, Len(w) + 1) /\ f.from = PlaceAt(pane[v], w, Len(w) + 1)
    BY <1>13, <2>3, <2>4, <2>6
  <2>12. f.from <= f.to /\ f.to <= term[k.term].out BY <1>13, <2>7
  <2> QED BY <1>3, <1>5, <1>8, <1>13, <2>1, <2>2, <2>9, <2>10, <2>11, <2>12, SentLinked
<1> QED BY <1>8, <1>10, <1>11, <1>13, <1>14, <1>15, SendKeeps DEF SendByte

\* The one attached before is told, the new one gets the ring and what follows it.
LEMMA AttachKeeps ==
  ASSUME TerminalInv, NEW s \in Sockets, Attach(s)
  PROVE  TerminalInv'
<1>1. PICK t \in Terms : t = entry BY InvTypes DEF Attach
<1>2. PICK f : f = Signal("superseded") OBVIOUS
<1>3. f \in QueueItem /\ f.kind = "superseded" BY <1>2 DEF Signal, QueueItem, Signals
<1>4. PICK S \in [Sockets -> SockRec] :
        /\ S = Sent(t, f, 0)
        /\ \A x \in Sockets : IF term[t].sender = x THEN Joins(sock[x], S[x], f, 0) ELSE S[x] = sock[x]
  BY <1>3, SendsTo
<1>5. PICK g \in Nat : g = term[t].gen + 1
  <2>1. term[t].gen \in Nat BY InvTypes
  <2> QED BY <2>1
<1>6. PICK n \in Nat : n = term[t].out BY InvTypes
<1>7. PICK m \in Nat : m = RingStart(t) /\ m <= n
  BY <1>6, TerminalAssumption DEF RingStart
<1>8. PICK l : l = [Free EXCEPT !.pc = "info", !.term = t, !.gen = g, !.from = m, !.to = n] OBVIOUS
<1>9. /\ l \in SockRec /\ l.pc = "info" /\ l.term = t /\ l.from = m /\ l.to = n /\ l.queue = <<>>
      /\ l.buffered = 0
  <2>1. l = [pc |-> "info", term |-> t, gen |-> g, from |-> m, to |-> n, queue |-> <<>>, buffered |-> 0]
    BY <1>8 DEF Free
  <2>2. <<>> \in Seq(QueueItem) OBVIOUS
  <2> QED BY <2>1, <2>2 DEF SockRec
<1>10. sock' = [S EXCEPT ![s] = l]
  BY <1>1, <1>2, <1>4, <1>5, <1>6, <1>7, <1>8 DEF Attach, NextGeneration
<1>11. PICK r : r = [term[t] EXCEPT !.gen = g, !.sender = s] OBVIOUS
<1>12. /\ r \in TermRec /\ r.child = term[t].child /\ r.out = n /\ r.written = term[t].written /\ r.sender = s
  <2>1. PICK o \in TermRec : o = term[t] BY InvTypes
  <2>2. r = [o EXCEPT !.gen = g, !.sender = s] BY <1>11, <2>1
  <2> QED BY <1>6, <2>1, <2>2 DEF TermRec
<1>13. term' = [term EXCEPT ![t] = r] BY <1>1, <1>5, <1>11, InvTypes DEF Attach, NextGeneration
<1>14. term' \in [Terms -> TermRec] /\ term'[t] = r /\ \A u \in Terms \ {t} : term'[u] = term[u]
  BY <1>12, <1>13, InvTypes
<1>15. SameStreams BY <1>6, <1>12, <1>14 DEF SameStreams
<1>16. TermsOK' /\ Later(term, term') BY <1>15, SameStreamsKeep
<1>17. /\ sock' \in [Sockets -> SockRec] /\ sock'[s] = l
       /\ \A x \in Sockets \ {s} : sock'[x] = S[x]
       /\ UNCHANGED <<entry, thread, wire, keys, pane>>
  <2>1. UNCHANGED <<entry, thread, wire, keys, pane>> BY DEF Attach
  <2> QED BY <1>9, <1>10, <2>1
<1>18. Typed' BY <1>14, <1>17 DEF TerminalInv, Typed
<1>19. sock[s].pc = "hello" BY DEF Attach
<1>20. \A u \in Terms : term[u].sender # s BY <1>19 DEF TerminalInv, SocksOK
<1>21. \A u \in Terms : \A x \in Sockets \ {s} : term'[u].sender = x => u # t /\ term[u].sender = x
  BY <1>12, <1>14
<1>22. ASSUME NEW x \in Sockets \ {s} PROVE SockOK(term', S[x], x)
  <2>1. SockOK(term, sock[x], x) BY SocksOne DEF TerminalInv
  <2>2. CASE term[t].sender # x
    <3>1. S[x] = sock[x] BY <1>4, <2>2
    <3> QED BY <1>21, <2>1, <3>1 DEF SockOK
  <2>3. CASE term[t].sender = x
    <3>1. Joins(sock[x], S[x], f, 0) BY <1>4, <2>3
    <3>2. sock[x].term = t /\ sock[x].pc \in {"info", "replay", "live"} BY <2>1, <2>3 DEF SockOK
    <3>3. \A u \in Terms : term'[u].sender # x BY <1>21, <2>1, <3>2 DEF SockOK
    <3>4. sock[x].buffered \in Int BY InvTypes DEF SockRec
    <3> QED BY <2>1, <3>1, <3>2, <3>3, <3>4 DEF SockOK, Joins
  <2> QED BY <2>2, <2>3
<1>23. SockOK(term', l, s)
  <2>1. \A u \in Terms : term'[u].sender = s => u = t BY <1>14, <1>20
  <2>2. SendBuffer \in Nat BY TerminalAssumption
  <2> QED BY <1>9, <2>1, <2>2 DEF SockOK
<1>24. SocksOK'
  <2>1. \A x \in Sockets : SockOK(term', sock'[x], x) BY <1>17, <1>22, <1>23
  <2> QED BY <2>1 DEF SocksOK, SockOK
<1>25. ASSUME NEW v \in Panes, NEW x \in Sockets, pane[v].socket = x
       PROVE  Linked(term', pane[v], wire'[x], sock'[x], x)
  <2>1. PICK U : U = term' OBVIOUS
  <2>2. PICK p \in PaneRec : p = pane[v] BY InvTypes
  <2>3. PICK w \in Seq(Frame) : w = wire[x] /\ w = wire'[x] BY <1>17, InvTypes
  <2>4. PICK k \in SockRec : k = sock[x] BY InvTypes
  <2>5. U \in [Terms -> TermRec] /\ term \in [Terms -> TermRec] /\ Later(term, U)
    BY <1>14, <1>16, <2>1, InvTypes
  <2>6. Linked(term, p, w, k, x) BY <1>25, <2>2, <2>3, <2>4, NoneIsNone DEF TerminalInv, Attachments
  <2>7. CASE x = s
    <3>1. k.pc = "hello" BY <1>19, <2>4, <2>7
    <3>2. w = <<>> BY <2>6, <3>1 DEF Linked, Fed
    <3>3. Carried(U, p, w) BY <2>5, <2>6, LaterCarried DEF Linked
    <3>4. U[t].out = n BY <1>12, <1>14, <2>1
    <3>5. Flow(U, l.queue, l.term, l.to) BY <1>9, <3>4 DEF Flow
    <3>6. Fed(U, p, w, l) BY <1>7, <1>9, <3>2, <3>5 DEF Fed
    <3>7. Current(U, p, w, l)
      <4>1. Start(p, w, l) = n BY <1>9 DEF Start
      <4>2. (\A i \in DOMAIN l.queue : l.queue[i].kind = "byte") /\ n + Len(l.queue) = U[t].out BY <1>9, <3>4
      <4> QED BY <1>9, <4>1, <4>2 DEF Current, AllThere
    <3>8. Linked(U, p, w, l, s) BY <3>3, <3>6, <3>7 DEF Linked
    <3> QED BY <1>17, <2>1, <2>2, <2>3, <2>7, <3>8
  <2>8. CASE x # s /\ term[t].sender = x
    <3>1. PICK j \in SockRec : j = S[x] OBVIOUS
    <3>2. Joins(k, j, f, 0) BY <1>4, <2>4, <2>8, <3>1
    <3>3. k.pc \in {"info", "replay", "live"} /\ k.term = t BY <2>4, <2>8 DEF TerminalInv, SocksOK
    <3>4. U[t].sender # x BY <1>12, <1>14, <2>1, <2>8
    <3>5. Linked(U, p, w, j, x) BY <1>3, <2>5, <2>6, <2>8, <3>2, <3>3, <3>4, JoinsLinked
    <3> QED BY <1>17, <2>1, <2>2, <2>3, <2>8, <3>1, <3>5
  <2>9. CASE x # s /\ term[t].sender # x
    <3>1. sock'[x] = sock[x] /\ wire'[x] = wire[x] BY <1>4, <1>17, <2>9
    <3>2. \A u \in Terms : term'[u].sender = x => term[u].sender = x /\ term'[u].out = term[u].out
      BY <1>15, <1>21, <2>9 DEF SameStreams
    <3> QED BY <1>14, <1>16, <1>25, <3>1, <3>2, Elsewhere
  <2> QED BY <2>7, <2>8, <2>9
<1> QED BY <1>16, <1>17, <1>18, <1>24, <1>25, PanesStay
-------------------------------------------------------------------------------
(* What a pane receives *)

LEMMA FirstFrame ==
  ASSUME NEW T \in [Terms -> TermRec], NEW p \in PaneRec, NEW w \in Seq(Frame), w # <<>>, Carried(T, p, w)
  PROVE  /\ w[1] \in Frame
         /\ w[1].kind = "bytes" => w[1].term = p.term /\ w[1].from = p.stream
         /\ w[1].kind # "close" => w[1].from <= w[1].to /\ w[1].to <= T[w[1].term].out
         /\ w[1].kind = "close" /\ w[1].code = "exited" => Over(T, p.term, p.stream)
<1>1. 1 \in DOMAIN w OBVIOUS
<1>2. PlaceTerm(p, w, 1) = p.term /\ PlaceAt(p, w, 1) = p.stream BY DEF PlaceTerm, PlaceAt
<1> QED BY <1>1, <1>2 DEF Carried

LEMMA StoppedPane ==
  ASSUME NEW T, NEW p \in PaneRec, PaneOK(T, p), p.socket # None
  PROVE  Stopped(p) \in PaneRec /\ PaneOK(T, Stopped(p)) /\ Stopped(p).socket = None
BY DEF Stopped, PaneRec, PaneOK

\* Nothing is shown before the first attachment.
LEMMA NothingShown ==
  ASSUME NEW T, NEW p \in PaneRec, PaneOK(T, p), p.term = None
  PROVE  p.shown = <<>>
<1>1. p.shown \in Seq(Terms \X Nat) BY DEF PaneRec
<1>2. ASSUME NEW i \in DOMAIN p.shown PROVE FALSE
  <2>1. p.shown[i] \in Terms \X Nat BY <1>1
  <2>2. p.shown[i] = <<None, p.offset - (Len(p.shown) - i)>> BY DEF PaneOK
  <2> QED BY <2>1, <2>2, NoneIsNone
<1>3. p.shown # <<>> => 1 \in DOMAIN p.shown
  <2>1. p.shown # <<>> => Len(p.shown) \in Nat \ {0} BY <1>1, EmptySeq
  <2> QED BY <1>1, <2>1
<1> QED BY <1>2, <1>3

LEMMA AttachedPane ==
  ASSUME NEW T \in [Terms -> TermRec], NEW p \in PaneRec, PaneOK(T, p), p.socket # None,
         NEW f \in Frame, f.kind = "attached", f.from <= f.to, f.to <= T[f.term].out
  PROVE  LET r == Attached(p, f) IN
         /\ r \in PaneRec /\ PaneOK(T, r) /\ r.socket \in {None, p.socket}
         /\ r.socket # None => Took(p, f, r)
<1>1. f.term \in Terms /\ f.from \in Nat /\ f.to \in Nat /\ EndOf(f) = f.from BY FrameKinds DEF EndOf
<1>2. p.offset \in Nat /\ p.stream \in Nat BY DEF PaneRec
<1>3. CASE Discontinuous(p, f)
  <2>1. Attached(p, f) = Stopped(p) BY <1>3 DEF Attached
  <2> QED BY <2>1, StoppedPane
<1>4. CASE ~Discontinuous(p, f) /\ p.term # None
  <2>1. PICK r : r = [p EXCEPT !.stream = f.from] OBVIOUS
  <2>2. Attached(p, f) = r BY <1>4, <2>1 DEF Attached
  <2>3. r \in PaneRec BY <1>1, <2>1 DEF PaneRec
  <2>4. /\ r.stream = f.from /\ r.socket = p.socket /\ r.due = p.due /\ r.term = p.term
        /\ r.offset = p.offset /\ r.shown = p.shown /\ r.end = p.end
    BY <2>1 DEF PaneRec
  <2>5. p.term = f.term /\ f.from <= p.offset BY <1>1, <1>2, <1>4 DEF Discontinuous
  <2>6. PaneOK(T, r) BY <2>4, <2>5 DEF PaneOK
  <2> QED BY <1>1, <2>2, <2>3, <2>4, <2>5, <2>6 DEF Took
<1>5. CASE ~Discontinuous(p, f) /\ p.term = None
  <2>1. PICK r : r = [p EXCEPT !.stream = f.from, !.term = f.term, !.offset = f.from] OBVIOUS
  <2>2. Attached(p, f) = r BY <1>5, <2>1 DEF Attached
  <2>3. r \in PaneRec BY <1>1, <2>1 DEF PaneRec
  <2>4. /\ r.stream = f.from /\ r.socket = p.socket /\ r.due = p.due /\ r.term = f.term
        /\ r.offset = f.from /\ r.shown = p.shown /\ r.end = p.end
    BY <2>1 DEF PaneRec
  <2>5. p.shown = <<>> BY <1>5, NothingShown
  <2>6. f.from <= T[f.term].out BY <1>1 DEF TermRec
  <2>7. p.end = "none"  BY DEF PaneOK
  <2>8. PaneOK(T, r) BY <1>1, <2>4, <2>5, <2>6, <2>7 DEF PaneOK
  <2> QED BY <1>1, <2>2, <2>3, <2>4, <2>8 DEF Took
<1> QED BY <1>3, <1>4, <1>5

\* What is appended goes on from what is shown, whatever the pane skips.
LEMMA ShownPane ==
  ASSUME NEW T \in [Terms -> TermRec], NEW p \in PaneRec, PaneOK(T, p), p.socket # None,
         NEW f \in Frame, f.kind = "bytes", f.from <= f.to, f.to <= T[f.term].out,
         f.term = p.term, f.from = p.stream
  PROVE  LET r == Shown(p, f) IN
         r \in PaneRec /\ PaneOK(T, r) /\ r.socket = p.socket /\ Took(p, f, r)
<1>1. PICK t \in Terms : t = f.term /\ t = p.term BY FrameKinds
<1>2. PICK m \in Nat, n \in Nat : m = f.from /\ n = f.to /\ m = p.stream BY FrameKinds
<1>3. PICK o \in Nat : o = p.offset BY DEF PaneRec
<1>4. m <= o /\ m <= n /\ n <= T[t].out /\ o <= T[t].out BY <1>1, <1>2, <1>3, NoneIsNone DEF PaneOK
<1>5. Skip(p) = o - m BY <1>2, <1>3, <1>4 DEF Skip
<1>6. PICK c \in Nat : /\ 1 .. (n - m) - (o - m) = 1 .. c
                       /\ n <= o + c /\ o + c <= T[t].out
  <2>1. T[t].out \in Nat BY DEF TermRec
  <2>2. CASE n <= o
    <3>1. 1 .. (n - m) - (o - m) = 1 .. 0 BY <2>2
    <3> QED BY <1>4, <2>1, <2>2, <3>1
  <2>3. CASE o < n
    <3>1. PICK c \in Nat : c = n - o BY <2>3
    <3>2. (n - m) - (o - m) = c BY <3>1
    <3> QED BY <1>4, <2>1, <3>1, <3>2
  <2> QED BY <2>2, <2>3
<1>7. PICK x : x = [i \in 1 .. c |-> <<t, m + (o - m) + i>>] OBVIOUS
<1>8. x \in Seq(Terms \X Nat) /\ Len(x) = c /\ \A i \in 1 .. c : x[i] = <<t, o + i>>
  <2>1. \A i \in 1 .. c : m + (o - m) + i = o + i /\ o + i \in Nat BY <1>4
  <2>2. x \in [1 .. c -> Terms \X Nat] BY <1>7, <2>1
  <2> QED BY <1>7, <2>1, <2>2
<1>9. PICK y : y = p.shown \o x OBVIOUS
<1>10. PICK h \in Seq(Terms \X Nat) : h = p.shown BY DEF PaneRec
<1>11. /\ y \in Seq(Terms \X Nat) /\ Len(y) = Len(h) + c
       /\ \A i \in 1 .. Len(h) : y[i] = h[i]
       /\ \A i \in DOMAIN y : i > Len(h) => y[i] = x[i - Len(h)]
  <2>1. y = h \o x BY <1>9, <1>10
  <2>2. y \in Seq(Terms \X Nat) /\ Len(y) = Len(h) + Len(x) BY <1>8, <2>1, ConcatProperties
  <2>3. \A i \in 1 .. Len(h) + Len(x) : y[i] = IF i <= Len(h) THEN h[i] ELSE x[i - Len(h)]
    BY <1>8, <2>1, ConcatProperties
  <2>4. \A i \in 1 .. Len(h) : i \in 1 .. Len(h) + Len(x) /\ i <= Len(h) BY <1>8
  <2>5. DOMAIN y = 1 .. Len(h) + Len(x) /\ Len(h) \in Nat BY <2>2
  <2>6. \A i \in DOMAIN y : i > Len(h) => ~(i <= Len(h)) BY <2>5
  <2> QED BY <1>8, <2>2, <2>3, <2>4, <2>5, <2>6
<1>12. PICK r : r = [p EXCEPT !.stream = n, !.offset = o + c, !.shown = y] OBVIOUS
<1>13. Shown(p, f) = r
  <2>1. [i \in 1 .. (f.to - f.from) - Skip(p) |-> <<f.term, f.from + Skip(p) + i>>] = x
    BY <1>1, <1>2, <1>5, <1>6, <1>7
  <2>2. Shown(p, f) = [p EXCEPT !.stream = @ + (f.to - f.from), !.offset = @ + Len(x), !.shown = @ \o x]
    BY <2>1 DEF Shown
  <2>3. p.stream + (f.to - f.from) = n BY <1>2
  <2> QED BY <1>3, <1>8, <1>9, <1>12, <2>2, <2>3
<1>14. r \in PaneRec
  <2>1. o + c \in Nat OBVIOUS
  <2> QED BY <1>11, <1>12, <2>1 DEF PaneRec
<1>15. /\ r.stream = n /\ r.offset = o + c /\ r.shown = y /\ r.socket = p.socket /\ r.due = p.due
       /\ r.term = t /\ r.end = p.end
  BY <1>1, <1>12 DEF PaneRec
<1>16. ASSUME NEW i \in DOMAIN y PROVE y[i] = <<t, (o + c) - (Len(y) - i)>>
  <2>1. PICK k \in Nat : k = Len(h) OBVIOUS
  <2>2. i \in Nat /\ Len(y) = k + c BY <1>11, <2>1
  <2>3. CASE i <= k
    <3>1. y[i] = h[i] /\ i \in DOMAIN h BY <1>11, <2>1, <2>2, <2>3
    <3>2. h[i] = <<t, o - (k - i)>> BY <1>1, <1>3, <1>10, <2>1, <3>1 DEF PaneOK
    <3>3. o - (k - i) = (o + c) - (Len(y) - i) BY <2>2
    <3> QED BY <3>1, <3>2, <3>3
  <2>4. CASE i > k
    <3>1. PICK j \in 1 .. c : j = i - k BY <1>11, <2>1, <2>2, <2>4
    <3>2. y[i] = <<t, o + j>> BY <1>8, <1>11, <2>1, <2>4, <3>1
    <3>3. o + j = (o + c) - (Len(y) - i) BY <2>2, <3>1
    <3> QED BY <3>2, <3>3
  <2> QED BY <2>1, <2>2, <2>3, <2>4
<1>17. p.end = "none" /\ ~p.due BY DEF PaneOK
<1>18. PaneOK(T, r) BY <1>6, <1>15, <1>16, <1>17 DEF PaneOK
<1>19. Took(p, f, r) BY <1>1, <1>2, <1>15 DEF Took, EndOf
<1> QED BY <1>13, <1>14, <1>15, <1>18, <1>19

LEMMA ClosedPane ==
  ASSUME NEW T \in [Terms -> TermRec], NEW p \in PaneRec, PaneOK(T, p), p.socket # None,
         NEW code \in {"gone"} \cup Signals, code = "exited" => Over(T, p.term, p.stream)
  PROVE  Closed(p, code) \in PaneRec /\ PaneOK(T, Closed(p, code)) /\ Closed(p, code).socket = None
<1>1. CASE code = "gone"
  <2>1. Closed(p, code) = [NewPane EXCEPT !.due = FALSE] BY <1>1 DEF Closed
  <2>2. <<>> \in Seq(Terms \X Nat) OBVIOUS
  <2>3. PICK r : r = Closed(p, code) OBVIOUS
  <2>4. r = [socket |-> None, due |-> FALSE, again |-> FALSE, term |-> None,
             offset |-> 0, stream |-> 0, shown |-> <<>>, end |-> "none"]
    BY <2>1, <2>3 DEF NewPane
  <2>5. r \in PaneRec BY <2>2, <2>4 DEF PaneRec
  <2>6. PaneOK(T, r) BY <2>4 DEF PaneOK
  <2> QED BY <2>3, <2>4, <2>5, <2>6
<1>2. CASE code \in Signals
  <2>1. PICK r : r = [p EXCEPT !.socket = None, !.end = code] OBVIOUS
  <2>2. Closed(p, code) = r BY <1>2, <2>1 DEF Closed, Signals
  <2>3. r \in PaneRec BY <1>2, <2>1 DEF PaneRec
  <2>4. /\ r.stream = p.stream /\ r.socket = None /\ r.due = p.due /\ r.term = p.term
        /\ r.offset = p.offset /\ r.shown = p.shown /\ r.end = code
    BY <2>1 DEF PaneRec
  <2>5. ~p.due /\ p.offset \in Nat /\ p.stream \in Nat BY DEF PaneOK, PaneRec
  <2>6. ASSUME code = "exited"
        PROVE  p.term # None /\ T[p.term].child = "ended" /\ p.offset = T[p.term].out
    <3>1. p.term \in Terms /\ T[p.term].child = "ended" /\ p.stream = T[p.term].out BY <2>6 DEF Over
    <3>2. p.stream <= p.offset /\ p.offset <= T[p.term].out BY <3>1, NoneIsNone DEF PaneOK
    <3> QED BY <2>5, <3>1, <3>2, NoneIsNone
  <2>7. PaneOK(T, r) BY <2>4, <2>5, <2>6 DEF PaneOK
  <2> QED BY <2>2, <2>3, <2>4, <2>7
<1> QED BY <1>1, <1>2
-------------------------------------------------------------------------------
(* Panes *)

\* One pane moves; the sockets the others hold stay as they are.
LEMMA PaneKeeps ==
  ASSUME TerminalInv, NEW v \in Panes, NEW r \in PaneRec, pane' = [pane EXCEPT ![v] = r],
         UNCHANGED <<entry, term, thread>>,
         sock' \in [Sockets -> SockRec], wire' \in [Sockets -> Seq(Frame)], keys' \in [Sockets -> Int],
         SocksOK', PaneOK(term, r),
         \A s \in Sockets : r.socket = s =>
           Linked(term, r, wire'[s], sock'[s], s) /\ \A u \in Panes \ {v} : pane[u].socket # s,
         \A s \in Sockets : (\E u \in Panes \ {v} : pane[u].socket = s) =>
           wire'[s] = wire[s] /\ sock'[s] = sock[s]
  PROVE  TerminalInv'
<1>1. pane' \in [Panes -> PaneRec] /\ pane'[v] = r /\ \A u \in Panes \ {v} : pane'[u] = pane[u]
  BY InvTypes
<1>2. Typed' BY <1>1 DEF TerminalInv, Typed
<1>3. TermsOK' BY DEF TerminalInv, TermsOK
<1>4. PanesOK'
  <2> SUFFICES ASSUME NEW u \in Panes PROVE PaneOK(term, pane'[u]) BY DEF PanesOK
  <2>1. CASE u = v BY <1>1, <2>1
  <2>2. CASE u # v BY <1>1, <2>2 DEF TerminalInv
  <2> QED BY <2>1, <2>2
<1>5. Attachments'
  <2> SUFFICES ASSUME NEW u \in Panes, NEW s \in Sockets, pane'[u].socket = s
               PROVE  /\ Linked(term, pane'[u], wire'[s], sock'[s], s)
                      /\ \A x \in Panes : pane'[x].socket = s => x = u
    <3>1. \A u \in Panes : pane'[u].socket \in {None} \cup Sockets BY <1>1 DEF PaneRec
    <3>2. \A u \in Panes : pane'[u].socket # None =>
            /\ Linked(term, pane'[u], wire'[pane'[u].socket], sock'[pane'[u].socket], pane'[u].socket)
            /\ \A x \in Panes : pane'[x].socket = pane'[u].socket => x = u
      BY <3>1
    <3> QED BY <3>2 DEF Attachments
  <2>1. CASE u = v BY <1>1, <2>1
  <2>2. CASE u # v
    <3>1. pane[u].socket = s /\ pane'[u] = pane[u] BY <1>1, <2>2
    <3>2. wire'[s] = wire[s] /\ sock'[s] = sock[s] BY <2>2, <3>1
    <3>3. Linked(term, pane[u], wire[s], sock[s], s) BY <3>1, NoneIsNone DEF TerminalInv, Attachments
    <3>4. \A x \in Panes : pane[x].socket = s => x = u BY <3>1, NoneIsNone DEF TerminalInv, Attachments
    <3>5. r.socket # s BY <2>2, <3>1
    <3> QED BY <1>1, <3>1, <3>2, <3>3, <3>4, <3>5
  <2> QED BY <2>1, <2>2
<1> QED BY <1>2, <1>3, <1>4, <1>5 DEF TerminalInv, PanesOK

LEMMA OpenSocketKeeps ==
  ASSUME TerminalInv, NEW v \in Panes, NEW s \in Sockets, OpenSocket(v, s)
  PROVE  TerminalInv'
<1>1. PICK p \in PaneRec : p = pane[v] BY InvTypes
<1>2. PaneOK(term, p) BY <1>1 DEF TerminalInv
<1>3. PICK r : r = [p EXCEPT !.socket = s, !.due = FALSE, !.stream = 0] OBVIOUS
<1>4. r \in PaneRec BY <1>3 DEF PaneRec
<1>5. /\ r.socket = s /\ r.due = FALSE /\ r.stream = 0 /\ r.again = p.again /\ r.term = p.term
      /\ r.offset = p.offset /\ r.shown = p.shown /\ r.end = p.end
  BY <1>3 DEF PaneRec
<1>6. p.due /\ p.offset \in Nat BY <1>1 DEF OpenSocket, PaneRec
<1>7. PaneOK(term, r) BY <1>2, <1>5, <1>6 DEF PaneOK
<1>8. pane' = [pane EXCEPT ![v] = r]
  <2>1. pane' = [pane EXCEPT ![v] = [pane[v] EXCEPT !.socket = s, !.due = FALSE, !.stream = 0]]
    BY InvTypes DEF OpenSocket
  <2> QED BY <1>1, <1>3, <2>1
<1>9. PICK l : l = [Free EXCEPT !.pc = "hello"] OBVIOUS
<1>10. l \in SockRec /\ l.pc = "hello" /\ l.term = None /\ l.buffered = 0
  <2>1. l = [pc |-> "hello", term |-> None, gen |-> 0, from |-> 0, to |-> 0, queue |-> <<>>, buffered |-> 0]
    BY <1>9 DEF Free
  <2>2. <<>> \in Seq(QueueItem) OBVIOUS
  <2> QED BY <2>1, <2>2 DEF SockRec
<1>11. sock' = [sock EXCEPT ![s] = l]
  <2>1. sock' = [sock EXCEPT ![s] = [sock[s] EXCEPT !.pc = "hello"]] BY InvTypes DEF OpenSocket
  <2>2. sock[s] = Free BY DEF OpenSocket
  <2> QED BY <1>9, <2>1, <2>2
<1>12. sock' \in [Sockets -> SockRec] /\ sock'[s] = l /\ \A x \in Sockets \ {s} : sock'[x] = sock[x]
  BY <1>10, <1>11, InvTypes
<1>13. wire' = [wire EXCEPT ![s] = <<>>] /\ UNCHANGED <<entry, term, thread, keys>>
  BY DEF OpenSocket, daemon
<1>14. /\ wire' \in [Sockets -> Seq(Frame)] /\ wire'[s] = <<>> /\ \A x \in Sockets \ {s} : wire'[x] = wire[x]
       /\ keys' \in [Sockets -> Int]
  BY <1>13, InvTypes
<1>15. SocksOK'
  <2>1. sock[s].pc = "free" BY DEF OpenSocket, Free
  <2>2. \A t \in Terms : term[t].sender # s BY <2>1 DEF TerminalInv, SocksOK
  <2>3. SockOK(term, l, s) BY <1>9, <1>10, <2>2, TerminalAssumption DEF SockOK
  <2>4. ASSUME NEW x \in Sockets PROVE SockOK(term', sock'[x], x)
    BY <1>12, <1>13, <2>3, SocksOne DEF TerminalInv
  <2> QED BY <2>4 DEF SocksOK, SockOK
<1>16. Linked(term, r, <<>>, l, s)
  <2>1. Carried(term, r, <<>>) BY DEF Carried
  <2>2. Fed(term, r, <<>>, l) BY <1>10 DEF Fed
  <2> QED BY <1>10, <2>1, <2>2, NoneIsNone DEF Linked
<1>17. \A u \in Panes : pane[u].socket # s BY DEF OpenSocket, Unowned
<1>18. \A x \in Sockets : r.socket = x =>
         Linked(term, r, wire'[x], sock'[x], x) /\ \A u \in Panes \ {v} : pane[u].socket # x
  BY <1>5, <1>12, <1>14, <1>16, <1>17
<1>19. \A x \in Sockets : (\E u \in Panes \ {v} : pane[u].socket = x) =>
         wire'[x] = wire[x] /\ sock'[x] = sock[x]
  BY <1>12, <1>14, <1>17
<1>20. sock' \in [Sockets -> SockRec] /\ wire' \in [Sockets -> Seq(Frame)] /\ keys' \in [Sockets -> Int]
  BY <1>12, <1>14
<1>21. UNCHANGED <<entry, term, thread>> BY <1>13
<1> QED BY <1>4, <1>7, <1>8, <1>15, <1>18, <1>19, <1>20, <1>21, PaneKeeps

\* What a pane does by itself, and lets go of its socket
LEMMA LetsGo ==
  ASSUME TerminalInv, NEW v \in Panes, NEW r \in PaneRec, pane' = [pane EXCEPT ![v] = r],
         UNCHANGED <<daemon, net>>, PaneOK(term, r), r.socket = None
  PROVE  TerminalInv'
<1>1. UNCHANGED <<entry, term, thread, sock, wire, keys>> BY DEF daemon, net
<1>2. SocksOK' BY <1>1 DEF TerminalInv, SocksOK
<1> QED BY <1>1, <1>2, InvTypes, NoneIsNone, PaneKeeps

LEMMA LostKeeps ==
  ASSUME TerminalInv, NEW v \in Panes, Lost(v)
  PROVE  TerminalInv'
<1>1. PICK p \in PaneRec : p = pane[v] BY InvTypes
<1>2. PaneOK(term, p) /\ p.socket # None BY <1>1 DEF TerminalInv, Lost
<1>3. PICK r : r = [p EXCEPT !.socket = None, !.due = ~p.again, !.again = TRUE] OBVIOUS
<1>4. r \in PaneRec BY <1>3 DEF PaneRec
<1>5. /\ r.socket = None /\ r.stream = p.stream /\ r.term = p.term
      /\ r.offset = p.offset /\ r.shown = p.shown /\ r.end = p.end
  BY <1>3 DEF PaneRec
<1>6. PaneOK(term, r) BY <1>2, <1>5 DEF PaneOK
<1>7. pane' = [pane EXCEPT ![v] = r]
  <2>1. pane' = [pane EXCEPT ![v] = [pane[v] EXCEPT !.socket = None, !.due = ~pane[v].again, !.again = TRUE]]
    BY InvTypes DEF Lost
  <2> QED BY <1>1, <1>3, <2>1
<1> QED BY <1>4, <1>5, <1>6, <1>7, LetsGo DEF Lost

LEMMA NewPaneOK == NewPane \in PaneRec /\ PaneOK(term, NewPane) /\ NewPane.socket = None
<1>1. <<>> \in Seq(Terms \X Nat) OBVIOUS
<1> QED BY <1>1 DEF NewPane, PaneRec, PaneOK

LEMMA ReloadKeeps ==
  ASSUME TerminalInv, NEW v \in Panes, Reload(v)
  PROVE  TerminalInv'
BY NewPaneOK, LetsGo DEF Reload

LEMMA TypesKeeps ==
  ASSUME TerminalInv, NEW v \in Panes, Types(v)
  PROVE  TerminalInv'
<1>1. UNCHANGED <<entry, term, thread, sock, wire, pane>> BY DEF Types, daemon
<1>2. keys' \in [Sockets -> Int]
  <2>1. PICK s \in Sockets : s = pane[v].socket BY InvTypes DEF Types, PaneRec
  <2>2. keys' = [keys EXCEPT ![s] = @ + 1] BY <2>1 DEF Types
  <2>3. keys \in [Sockets -> Int] BY InvTypes
  <2> QED BY <2>2, <2>3
<1>3. Typed' BY <1>1, <1>2 DEF TerminalInv, Typed
<1>4. TermsOK' BY <1>1 DEF TerminalInv, TermsOK
<1>5. SocksOK' BY <1>1 DEF TerminalInv, SocksOK
<1>6. PanesOK' BY <1>1 DEF TerminalInv, PanesOK
<1>7. Attachments' BY <1>1 DEF TerminalInv, Attachments
<1> QED BY <1>3, <1>4, <1>5, <1>6, <1>7 DEF TerminalInv, PanesOK

LEMMA ReceiveKeeps ==
  ASSUME TerminalInv, NEW v \in Panes, Receive(v)
  PROVE  TerminalInv'
<1>1. PICK s \in Sockets : s = pane[v].socket BY InvTypes DEF Receive, PaneRec
<1>2. PICK p \in PaneRec : p = pane[v] BY InvTypes
<1>3. PICK w \in Seq(Frame) : w = wire[s] BY InvTypes
<1>4. PICK k \in SockRec : k = sock[s] BY InvTypes
<1>5. w # <<>> BY <1>1, <1>3 DEF Receive
<1>6. p.socket # None /\ PaneOK(term, p) BY <1>1, <1>2, NoneIsNone DEF TerminalInv
<1>7. Linked(term, p, w, k, s) BY <1>1, <1>2, <1>3, <1>4, NoneIsNone DEF TerminalInv, Attachments
<1>8. term \in [Terms -> TermRec] BY InvTypes
<1>9. PICK f \in Frame : f = w[1] BY <1>5
<1>10. /\ f.kind = "bytes" => f.term = p.term /\ f.from = p.stream
       /\ f.kind # "close" => f.from <= f.to /\ f.to <= term[f.term].out
       /\ f.kind = "close" /\ f.code = "exited" => Over(term, p.term, p.stream)
  BY <1>5, <1>7, <1>8, <1>9, FirstFrame DEF Linked
<1>11. PICK r \in PaneRec :
         /\ pane' = [pane EXCEPT ![v] = r] /\ PaneOK(term, r) /\ r.socket \in {None, s}
         /\ r.socket # None => Took(p, f, r)
  <2>1. f = Head(wire[s]) BY <1>3, <1>5, <1>9
  <2>2. \/ f.kind = "attached" /\ pane' = [pane EXCEPT ![v] = Attached(p, f)]
        \/ f.kind = "bytes" /\ pane' = [pane EXCEPT ![v] = Shown(p, f)]
        \/ f.kind = "bytes" /\ pane' = [pane EXCEPT ![v] = Stopped(p)]
        \/ f.kind = "close" /\ pane' = [pane EXCEPT ![v] = Closed(p, f.code)]
    BY <1>1, <1>2, <2>1, InvTypes DEF Receive
  <2>3. CASE f.kind = "attached" /\ pane' = [pane EXCEPT ![v] = Attached(p, f)]
    <3>1. PICK r : r = Attached(p, f) OBVIOUS
    <3>2. /\ r \in PaneRec /\ PaneOK(term, r) /\ r.socket \in {None, p.socket}
          /\ r.socket # None => Took(p, f, r)
      BY <1>6, <1>8, <1>10, <2>3, <3>1, AttachedPane
    <3> QED BY <1>1, <1>2, <2>3, <3>1, <3>2
  <2>4. CASE f.kind = "bytes" /\ pane' = [pane EXCEPT ![v] = Shown(p, f)]
    <3>1. PICK r : r = Shown(p, f) OBVIOUS
    <3>2. r \in PaneRec /\ PaneOK(term, r) /\ r.socket = p.socket /\ Took(p, f, r)
      BY <1>6, <1>8, <1>10, <2>4, <3>1, ShownPane
    <3> QED BY <1>1, <1>2, <2>4, <3>1, <3>2
  <2>5. CASE f.kind = "bytes" /\ pane' = [pane EXCEPT ![v] = Stopped(p)]
    BY <1>6, <2>5, StoppedPane
  <2>6. CASE f.kind = "close" /\ pane' = [pane EXCEPT ![v] = Closed(p, f.code)]
    <3>1. f.code \in {"gone"} \cup Signals BY <2>6, FrameKinds
    <3> QED BY <1>6, <1>8, <1>10, <2>6, <3>1, ClosedPane
  <2> QED BY <2>2, <2>3, <2>4, <2>5, <2>6
<1>12. UNCHANGED <<entry, term, thread, sock, keys>> BY DEF Receive, daemon
<1>13. PICK x \in Seq(Frame) : x = Tail(w) BY <1>5, HeadTailProperties
<1>14. wire' = [wire EXCEPT ![s] = x] BY <1>1, <1>3, <1>13 DEF Receive
<1>15. wire' \in [Sockets -> Seq(Frame)] /\ wire'[s] = x /\ \A y \in Sockets \ {s} : wire'[y] = wire[y]
  BY <1>14, InvTypes
<1>16. SocksOK' BY <1>12 DEF TerminalInv, SocksOK
<1>17. \A u \in Panes \ {v} : pane[u].socket # s BY <1>1, NoneIsNone DEF TerminalInv, Attachments
<1>18. ASSUME NEW y \in Sockets, r.socket = y PROVE Linked(term, r, wire'[y], sock'[y], y) /\ y = s
  <2>1. y = s /\ Took(p, w[1], r) BY <1>9, <1>11, <1>18, NoneIsNone
  <2>2. Linked(term, r, x, k, s) BY <1>5, <1>7, <1>8, <1>13, <2>1, TookLinked
  <2> QED BY <1>4, <1>12, <1>15, <2>1, <2>2
<1>19. \A y \in Sockets : (\E u \in Panes \ {v} : pane[u].socket = y) => wire'[y] = wire[y] /\ sock'[y] = sock[y]
  BY <1>12, <1>15, <1>17
<1>20. \A y \in Sockets : r.socket = y =>
         Linked(term, r, wire'[y], sock'[y], y) /\ \A u \in Panes \ {v} : pane[u].socket # y
  BY <1>17, <1>18
<1>21. sock' \in [Sockets -> SockRec] /\ wire' \in [Sockets -> Seq(Frame)] /\ keys' \in [Sockets -> Int]
  BY <1>12, <1>15, InvTypes
<1>22. UNCHANGED <<entry, term, thread>> BY <1>12
<1> QED BY <1>11, <1>16, <1>19, <1>20, <1>21, <1>22, PaneKeeps
-------------------------------------------------------------------------------
(* The invariant holds *)

LEMMA TerminalInvInit ==
  ASSUME TerminalInit
  PROVE  TerminalInv
<1>1. Free \in SockRec /\ Free.pc = "free" /\ Free.buffered = 0
  <2>1. <<>> \in Seq(QueueItem) OBVIOUS
  <2> QED BY <2>1 DEF Free, SockRec
<1>2. NoTerm \in TermRec /\ NoTerm.child = "none" /\ NoTerm.out = 0 /\ NoTerm.written = 0 /\ NoTerm.sender = None
  BY DEF NoTerm, TermRec
<1>3. NoCall \in ThreadRec BY DEF NoCall, ThreadRec
<1>4. <<>> \in Seq(Frame) OBVIOUS
<1>5. Typed BY <1>1, <1>2, <1>3, <1>4, NewPaneOK DEF TerminalInit, Typed, ThreadRec
<1>6. TermsOK
  <2>1. \A t \in Terms : term[t] = NoTerm BY DEF TerminalInit
  <2>2. \A t \in Terms : term[t].child # "none" <=> t <= 0 BY <1>2, <2>1 DEF Terms
  <2>3. 0 \in 0 .. MaxTerms BY TerminalAssumption
  <2> QED BY <1>2, <2>1, <2>2, <2>3 DEF TermsOK
<1>7. SocksOK
  <2>1. \A s \in Sockets : sock[s] = Free BY DEF TerminalInit
  <2>2. \A t \in Terms : term[t].sender = None BY <1>2 DEF TerminalInit
  <2> QED BY <1>1, <2>1, <2>2, NoneIsNone, TerminalAssumption DEF SocksOK
<1>8. PanesOK BY NewPaneOK DEF TerminalInit, PanesOK
<1>9. Attachments BY NewPaneOK DEF TerminalInit, Attachments
<1> QED BY <1>5, <1>6, <1>7, <1>8, <1>9, InvParts

LEMMA TerminalInvNext ==
  ASSUME TerminalInv, TerminalNext
  PROVE  TerminalInv'
<1>1. ASSUME NEW a \in Threads,
             \/ \E spawns \in BOOLEAN : TakeEntry(a, spawns)
             \/ Drained(a) \/ OpenFails(a) \/ Insert(a)
             \/ \E t \in Terms : OpenChild(a, t)
      PROVE  TerminalInv'
  BY <1>1, TakeEntryKeeps, DrainedKeeps, OpenFailsKeeps, InsertKeeps, OpenChildKeeps
<1>2. ASSUME NEW t \in Terms, Writes(t) \/ Push(t) \/ ChildExits(t) \/ ReportExit(t)
      PROVE  TerminalInv'
  BY <1>2, WritesKeeps, PushKeeps, ChildExitsKeeps, ReportExitKeeps
<1>3. ASSUME NEW s \in Sockets, Sends(s) \/ ReadKey(s) \/ PeerGone(s)
      PROVE  TerminalInv'
  BY <1>3, NoLiveTerminalKeeps, AttachKeeps, SendInfoKeeps, SendReplayKeeps, SendByteKeeps, SendEndKeeps,
     ReadKeyKeeps, PeerGoneKeeps DEF Sends
<1>4. ASSUME NEW v \in Panes,
             \/ Receive(v) \/ Types(v) \/ Lost(v) \/ Reload(v)
             \/ \E s \in Sockets : OpenSocket(v, s)
      PROVE  TerminalInv'
  BY <1>4, ReceiveKeeps, TypesKeeps, LostKeeps, ReloadKeeps, OpenSocketKeeps
<1> QED BY <1>1, <1>2, <1>3, <1>4 DEF TerminalNext

LEMMA TerminalInvariance == TerminalSpec => []TerminalInv
<1>1. TerminalInit => TerminalInv BY TerminalInvInit
<1>2. TerminalInv /\ [TerminalNext]_terminalVars => TerminalInv'
  <2> SUFFICES ASSUME TerminalInv, [TerminalNext]_terminalVars PROVE TerminalInv' OBVIOUS
  <2>1. CASE TerminalNext BY <2>1, TerminalInvNext
  <2>2. CASE UNCHANGED terminalVars
    <3>1. UNCHANGED <<entry, term, thread, sock, wire, keys, pane>> BY <2>2 DEF terminalVars, daemon, net
    <3>2. Typed' BY <3>1 DEF TerminalInv, Typed
    <3>3. TermsOK' BY <3>1 DEF TerminalInv, TermsOK
    <3>4. SocksOK' BY <3>1 DEF TerminalInv, SocksOK
    <3>5. PanesOK' BY <3>1 DEF TerminalInv, PanesOK
    <3>6. Attachments' BY <3>1 DEF TerminalInv, Attachments
    <3> QED BY <3>2, <3>3, <3>4, <3>5, <3>6 DEF TerminalInv, PanesOK
  <2> QED BY <2>1, <2>2
<1> QED BY <1>1, <1>2, PTL DEF TerminalSpec

\* What a pane shows is one unbroken stretch of one child's output, through rings
\* that lost their oldest bytes, reattachments while the child writes, dropped
\* consumers, and sessions that end and begin (Sink's lock, useTerminal's offsets).
THEOREM Unbroken == TerminalSpec => []Contiguous
<1>1. TerminalInv => Contiguous BY DEF TerminalInv, PaneOK, Contiguous
<1> QED BY <1>1, TerminalInvariance, PTL

\* A pane that was told of the exit has the child's last byte: on Unix, which is what
\* Terminal models, the exit thread joins the reader before it sends the frame.
THEOREM ExitComesLast == TerminalSpec => []ExitLast
<1>1. ASSUME TerminalInv, NEW v \in Panes, pane[v].end = "exited"
      PROVE  pane[v].term # None /\ pane[v].offset = term[pane[v].term].written
  <2>1. /\ pane[v].term # None /\ term[pane[v].term].child = "ended"
        /\ pane[v].offset = term[pane[v].term].out
    BY <1>1 DEF TerminalInv, PaneOK
  <2>2. pane[v].term \in Terms BY <1>1, <2>1, InvTypes DEF PaneRec
  <2> QED BY <1>1, <2>1, <2>2, InvTypes
<1>2. TerminalInv => ExitLast BY <1>1 DEF ExitLast
<1> QED BY <1>2, TerminalInvariance, PTL

\* An attached pane to which nothing is under way shows all that was read from its
\* child, or its task has an end to send; and no consumer holds more than its budget
\* and one read.
THEOREM NobodyWaits == TerminalSpec => []NeverLeftWaiting
<1>1. ASSUME TerminalInv, NEW v \in Panes, NEW s \in Sockets, pane[v].socket = s,
             sock[s].pc = "live", sock[s].queue = <<>>, wire[s] = <<>>, ~NoSender(s)
      PROVE  pane[v].offset = term[sock[s].term].out
  <2>1. PICK k \in SockRec : k = sock[s] BY <1>1, InvTypes
  <2>2. PICK p \in PaneRec : p = pane[v] BY <1>1, InvTypes
  <2>3. Linked(term, p, <<>>, k, s) /\ PaneOK(term, p)
    BY <1>1, <2>1, <2>2, NoneIsNone DEF TerminalInv, Attachments
  <2>4. k.term \in Terms /\ k.pc = "live" /\ k.queue = <<>> BY <1>1, <2>1 DEF TerminalInv, SocksOK
  <2>5. term[k.term].sender = s BY <1>1, <2>1 DEF NoSender
  <2>6. p.term = k.term /\ Start(p, <<>>, k) = p.stream
    BY <2>3, <2>4 DEF Linked, Fed, PlaceTerm, PlaceAt, Start
  <2>7. p.stream \in Nat /\ p.offset \in Nat /\ term[k.term].out \in Nat BY <1>1, <2>4, InvTypes DEF PaneRec
  <2>8. p.stream + 0 = term[k.term].out BY <2>3, <2>4, <2>5, <2>6 DEF Linked, Current, AllThere
  <2>9. p.stream <= p.offset /\ p.offset <= term[k.term].out BY <2>3, <2>4, <2>6, NoneIsNone DEF PaneOK
  <2> QED BY <2>1, <2>2, <2>7, <2>8, <2>9
<1>2. ASSUME TerminalInv, NEW v \in Panes, pane[v].socket # None
      PROVE  pane[v].socket \in Sockets /\ sock[pane[v].socket].buffered <= SendBuffer + 1
  BY <1>2, InvTypes DEF TerminalInv, SocksOK, PaneRec
<1>3. TerminalInv => NeverLeftWaiting BY <1>1, <1>2 DEF NeverLeftWaiting
<1> QED BY <1>3, TerminalInvariance, PTL
===============================================================================
