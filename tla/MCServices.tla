----------------------------- MODULE MCServices -----------------------------
(* Small instances of Keyd, TeachKnowledge, TeachSkills, AgentdRecords and *)
(* AgentLoop.  In a behaviour one of them, `focus', moves, and the others, *)
(* which share nothing with it, stay in their first state.                 *)
EXTENDS Keyd, TeachKnowledge, TeachSkills, AgentdRecords, AgentLoop, TLC

CONSTANTS r1, r2, w1, eth, alice, nginx, Nginx, byHand, a1, a2,
          chat1, chat2, chat3, sysLogs, svcLogs, list, shell, i1, i2,
          loop1, t1, t2, Foci

VARIABLE focus

serviceVars == <<keydVars, teachVars, skillVars, recordVars, loopVars, focus>>

\* Keys.  As in the default policy, sends are limited by number and amount, and
\* signatures by number; the limit that a day meets first is the amount, 2.0.
TheRequests == {r1, r2}
TheWallets == {w1}
OneChain == {eth}
AllEthereum == [w \in TheWallets |-> eth]
TheRules ==
    {[action |-> "send", chain |-> {eth}, max_per_day |-> {3}, max_amount |-> {20},
      allowed_destinations |-> {{alice}}],
     [action |-> "sign", chain |-> {}, max_per_day |-> {1}, max_amount |-> {},
      allowed_destinations |-> {}]}
TheAmounts == {[whole |-> 1, fraction |-> 0, digits |-> 0]}
TheDestinations == {alice}

\* Teaching: a unit with a capital letter, and its name in lower case.
TheUnits == {nginx, Nginx}
TheLower == [n \in TheUnits |-> nginx]
Mention(a, b) == (nginx :> a) @@ (Nginx :> b)
TheWritten == {byHand}
TheApplyRequests == {a1, a2}
TheSightings ==
    {[source |-> "service", mentions |-> Mention(0, 1)],
     [source |-> "journal", mentions |-> Mention(0, 2)],
     [source |-> "cpu", busy |-> TRUE]}
MemorySightings == {[source |-> "memory", used |-> u] : u \in {10, 20, 30}}
TheTitles == {[of |-> "memory"]}

\* Skills: three chats with the same calls, of which one misses the last; two tools
\* with one stem.
TheTools == {sysLogs, svcLogs, list, shell}
TheStems == [t \in TheTools |-> IF t = svcLogs THEN sysLogs ELSE t]
Whole == <<sysLogs, list, shell, svcLogs, list, shell>>
TheLogs == {[s \in {chat1, chat2, chat3} |->
               IF s = chat3 THEN SubSeq(Whole, 1, 5) ELSE Whole]}
TheChats == {chat1, chat2, chat3}

\* Records of agentd: two incidents.
TheIncidents == {i1, i2}

\* The gateway: one loop, and two turns at a time, of the loop or of clients.
TheLoops == {loop1}
TheTurns == {t1, t2}

ServicesInit ==
    /\ KeydInit /\ TeachKnowledgeInit /\ TeachSkillsInit /\ RecordsInit
    /\ AgentLoopInit
    /\ focus \in Foci
    /\ focus # "records" => version = 0 /\ ledger = <<>> /\ format = "piped"

KeydMoves ==
    /\ focus = "keyd" /\ KeydNext
    /\ UNCHANGED <<teachVars, skillVars, recordVars, loopVars, focus>>
TeachMoves ==
    /\ focus = "teach" /\ TeachKnowledgeNext
    /\ UNCHANGED <<keydVars, skillVars, recordVars, loopVars, focus>>
SkillsMove ==
    /\ focus = "skills" /\ TeachSkillsNext
    /\ UNCHANGED <<keydVars, teachVars, recordVars, loopVars, focus>>
RecordsMove ==
    /\ focus = "records" /\ RecordsNext
    /\ UNCHANGED <<keydVars, teachVars, skillVars, loopVars, focus>>
GatewayMoves ==
    /\ focus = "gateway" /\ AgentLoopNext
    /\ UNCHANGED <<keydVars, teachVars, skillVars, recordVars, focus>>

\* The bound of the model, not the end of the daemon.
NoMoreRecords == focus = "records" /\ ~ HasRoom /\ UNCHANGED serviceVars

ServicesNext ==
    \/ KeydMoves \/ TeachMoves \/ SkillsMove \/ RecordsMove \/ NoMoreRecords
    \/ GatewayMoves

ServicesSpec == ServicesInit /\ [][ServicesNext]_serviceVars
=============================================================================
