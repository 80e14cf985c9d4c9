---------------------------- MODULE MCAgentTurn -----------------------------
(* Conversations of one user.  A reading conversation varies the grant, the *)
(* deployment and what Feishu holds and lets the model answer in one piece; *)
(* a chatting one reads nothing and varies the model's answer over two      *)
(* turns.                                                                   *)
EXTENDS AgentTurn, TLC

Prompt(text, context, refs, chunks) ==
    [text |-> text, context |-> context, refs |-> refs, chunks |-> chunks]
Ref(type, form, path) == [type |-> type, form |-> form, host |-> "sub.feishu.cn", path |-> path]
As(id, as) == [id |-> id, as |-> as]

Okr == {"OkrPeriodRead", "OkrContentRead", "OkrProgressRead"}
MCScopeSets == {FeishuOauthScopes, Okr, {"OkrPeriodRead", "OkrContentRead", "DocxDocumentRead"},
                {"TaskRead", "minutes:minutes:readonly"}}

(* OKR data: a key result below the second objective only, two of them, a   *)
(* second cycle, an objective and a cycle without id, lists without data.   *)
Kr(id, records) == [id |-> id, records |-> records]
Objective(id, krs) == [id |-> id, hollow |-> FALSE, krs |-> krs, records |-> 1]
Cycle(id, objectives) == [id |-> id, hollow |-> FALSE, objectives |-> objectives]
Small == <<Cycle("c1", <<Objective("o1", <<>>), Objective("o2", <<Kr("k1", 1)>>)>>)>>
MCCycles ==
    {<<>>, Small,
     <<Cycle("c1", <<Objective("o1", <<Kr("k1", 2)>>)>>)>>,
     <<Cycle("c1", <<Objective("o1", <<Kr("k1", 1), Kr("k2", 1), Kr("k3", 1)>>)>>)>>,
     <<Cycle("c1", <<Objective("o1", <<Kr("k1", 1), Kr("", 1)>>), Objective("", <<>>)>>)>>,
     <<Cycle("c1", <<Objective("o1", <<Kr("k1", 1)>>)>>),
       Cycle("c2", <<Objective("o1", <<Kr("k1", 1)>>), Objective("o2", <<>>), Objective("o3", <<>>)>>)>>,
     <<Cycle("c1", <<>>), Cycle("", <<Objective("o1", <<>>)>>), Cycle("c3", <<Objective("o2", <<>>)>>)>>,
     <<[id |-> "c1", hollow |-> TRUE, objectives |-> <<Objective("o1", <<>>)>>],
       Cycle("c2", <<[Objective("o2", <<Kr("k1", 1)>>) EXCEPT !.hollow = TRUE]>>)>>}

(* Lists of one page, of more pages than are read, with a page that has no  *)
(* token although more follow, and with nothing on the pages read.          *)
Listed(items, token) == [items |-> items, token |-> token]
OnePage == <<Listed(1, FALSE)>>
MCLists == {OnePage, <<Listed(2, TRUE), Listed(1, FALSE)>>,
            <<Listed(1, TRUE), Listed(0, TRUE), Listed(1, FALSE)>>,
            <<Listed(1, FALSE), Listed(1, FALSE)>>,
            <<Listed(0, TRUE), Listed(0, TRUE), Listed(1, FALSE)>>}

(* Texts that just fit with their note, and texts cut before it.            *)
Short == [counts |-> 1, examples |-> 2, note |-> 1]
Long == [counts |-> 2, examples |-> 2, note |-> 2]

Holding(cycles, pages) ==
    [cycles |-> cycles, tasks |-> pages, minutes |-> pages, wording |-> Short,
     secret |-> {}, alike |-> TRUE]
World(login, store, who, scopes, stale, keyOk, holding, others) ==
    [deployment |-> [store |-> store, login |-> login], account |-> who, scopes |-> scopes,
     stale |-> stale, keyOk |-> keyOk, feishu |-> holding, outside |-> others]
Workspace == [kind |-> "workspace", others |-> 0]
Single(others) == [kind |-> "single", others |-> others]
Usual(holding, scopes) == World(TRUE, TRUE, Workspace, scopes, FALSE, TRUE, holding, 0)

Env(named, openai, anthropic) == [named |-> named, openai |-> openai, anthropic |-> anthropic]
Default == [settings |-> "none", user |-> "", env |-> Env("", "full", "none")]
Reading(text, refs, chunks) == <<Prompt(text, {}, refs, chunks)>>
BothOkr == {"okr", "self", "read", "content", "progress"}
Docs == <<Ref("wiki", "https", <<Written("space"), Written("wiki"), Written("d1")>>),
          Ref("docx", "docx://", <<As("d2", "capital")>>)>>
Mixed == <<Ref("lark_task", "task://", <<Written("t1")>>), Ref("task", "feishu://task/", <<Written("t1")>>),
           Ref("meeting", "https", <<Written("minutes"), Written("m1")>>),
           Ref("doc", "docx://", <<Written("d1")>>)>>
Unread == <<Ref("okr", "okr://", <<Written("p"), Written("objectives"), Written("o"), Written("krs"), As("k", "encoded")>>),
            Ref("okr", "okr:", <<Written("p"), Written("objective"), Written("o"), Written("kr"), Written("k")>>),
            Ref("fax", "fax://", <<Written("f")>>)>>
Events == <<Ref("calendar", "calendar://", <<Written("c"), Written("events"), As("e1", "encoded")>>),
            Ref("minutes", "minutes://", <<As("m1", "capital")>>)>>

(* The grant's own troubles, while others act.                              *)
GrantScenarios ==
    {[prompts |-> Reading(p[1], p[2], 0), provider |-> Default, world |-> w] :
        p \in {<<BothOkr, <<>>>>, <<{"task", "self", "read", "minutes", "recent"}, Docs>>,
               <<{"task"}, Unread>>},
        w \in {World(login, TRUE, Workspace, scopes, stale, TRUE, Holding(Small, OnePage), 2) :
                  login \in BOOLEAN, scopes \in MCScopeSets, stale \in BOOLEAN}
              \cup {World(TRUE, TRUE, Single(others), FeishuOauthScopes, TRUE, TRUE,
                          Holding(Small, OnePage), 0) : others \in 0 .. 1}
              \cup {World(TRUE, FALSE, Workspace, FeishuOauthScopes, FALSE, TRUE,
                          Holding(Small, OnePage), 0),
                    World(TRUE, TRUE, Workspace, FeishuOauthScopes, FALSE, FALSE,
                          Holding(Small, OnePage), 0)}}

(* What Feishu holds and answers, long texts, and texts that are hidden.    *)
DataScenarios ==
    {[prompts |-> Reading(BothOkr, <<>>, 1), provider |-> Default,
      world |-> Usual([Holding(cycles, OnePage) EXCEPT !.wording = words], FeishuOauthScopes)] :
        cycles \in MCCycles, words \in {Short, Long}}
    \cup {[prompts |-> Reading(BothOkr, refs, 2), provider |-> Default,
           world |-> Usual([Holding(Small, <<>>) EXCEPT !.secret = secret, !.alike = FALSE],
                           FeishuOauthScopes)] :
             refs \in {<<>>, Docs}, secret \in {OkrTools, {""}, OkrTools \cup {""}}}
    \cup {[prompts |-> Reading({"task", "self", "read", "minutes", "recent"}, <<>>, 0),
           provider |-> Default,
           world |-> Usual([Holding(<<>>, pages) EXCEPT !.wording = words], FeishuOauthScopes)] :
             pages \in MCLists, words \in {Short, Long}}
    \cup {[prompts |-> Reading(text, refs, 0), provider |-> Default,
           world |-> Usual(Holding(<<>>, OnePage), FeishuOauthScopes)] :
             text \in {{"task", "self", "read", "minutes", "recent"},
                       {"calendar", "self", "freebusy", "run", "CalendarEvents"},
                       {"OkrSummary", "run", "others"}},
             refs \in {<<>>, Mixed, Events}}

(* The model's answer, the second turn following whatever became of the     *)
(* first: its count question is about OKRs only if those were mentioned.    *)
ChatScenarios ==
    {[prompts |-> <<Prompt({"okr"}, {}, <<>>, 3), Prompt({"progress"}, {}, <<>>, 1)>>,
      provider |-> p, world |-> Usual(Holding(<<>>, <<>>), {})] :
        p \in {[settings |-> "set", user |-> "openai", env |-> Env("", "none", "none")],
               [settings |-> "broken", user |-> "", env |-> Env("anthropic", "full", "full")]}
              \cup {[settings |-> "unset", user |-> "", env |-> Env(named, o, a)] :
                        named \in {"", "anthropic", "other"}, o \in {"none", "full"},
                        a \in {"none", "partial", "full"}}}
    \cup {[prompts |-> <<Prompt(first, {}, <<>>, 1), Prompt({"feishu", "self", "count"}, {}, <<>>, 1)>>,
           provider |-> Default, world |-> Usual(Holding(Small, <<>>), Okr)] :
             first \in {{"okr"}, {"recent"}}}

MCScenarios == GrantScenarios \cup DataScenarios \cup ChatScenarios
MCPieces == {{}, {"reply"}}
=============================================================================
