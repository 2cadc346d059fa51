--------------------------- MODULE MCChatHandler ---------------------------
EXTENDS ChatHandler, TLC

\* Priority and weighted aliases; "mix" fails over between the families.
MCAliases ==
  [chat |-> [weighted |-> FALSE, targets |-> <<"oai", "groq">>,
             weights |-> <<0, 0>>],
   mix  |-> [weighted |-> TRUE, targets |-> <<"oai", "gem">>,
             weights |-> <<1, 2>>]]

MCFamily == [oai |-> "openai", groq |-> "openai", gem |-> "gemini"]

MCReplies == {[status |-> 400, cause |-> "INVALID_ARGUMENT"],
              [status |-> 429, cause |-> "insufficient_quota"]}

Ask == [tenant |-> "t1", model |-> "mix", prompt |-> "a", temp |-> 0,
        maxTok |-> 0, sampling |-> "plain", stream |-> FALSE,
        noCache |-> FALSE]
AskStream == [Ask EXCEPT !.model = "chat", !.stream = TRUE]

\* Near prompts, other limits, temperatures and tenants, and an opt-out.
MCQuestions ==
  {Ask,
   [Ask EXCEPT !.prompt = "b", !.maxTok = 1, !.temp = 1],
   [Ask EXCEPT !.maxTok = 1],
   [Ask EXCEPT !.tenant = "t2"],
   [Ask EXCEPT !.temp = 2],
   [Ask EXCEPT !.noCache = TRUE],
   [Ask EXCEPT !.temp = 3],
   [Ask EXCEPT !.model = "none"],
   AskStream}

\* A model spelt in another case, which the router does not know.
MCSpellings == {[Ask EXCEPT !.model = "chat"], [Ask EXCEPT !.model = "Chat"]}

MCNormal == [m \in {"chat", "Chat", "mix", "none"} |->
               IF m = "Chat" THEN "chat" ELSE m]

\* Streams of an alias with a Gemini target.
MCStreams == {[Ask EXCEPT !.stream = TRUE]}

MCScore == [a |-> [a |-> 3, b |-> 2, c |-> 1],
            b |-> [a |-> 2, b |-> 3, c |-> 1],
            c |-> [a |-> 1, b |-> 1, c |-> 3]]

MCLengths == {0, 1, 2}

MCSymmetry == Permutations(Requests)
=============================================================================
