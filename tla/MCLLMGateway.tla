---------------------------- MODULE MCLLMGateway ----------------------------
(* Two callers of one strategy and agent; one token is a unit of price 1.   *)
EXTENDS LLMGateway

Provider(enabled, client, retries, price) ==
    [enabled |-> enabled, client |-> client, max_retries |-> retries, price |-> price]

\* A cheap provider with a retry, one that is disabled, a dear fallback.
MCProviders == <<Provider(TRUE, TRUE, 1, 1), Provider(FALSE, TRUE, 0, 1),
                 Provider(TRUE, TRUE, 0, 2)>>

Answer(prompt, completion, reported) ==
    [prompt |-> prompt, completion |-> completion, reported |-> reported]

MCAnswers == {Answer(1, 1, TRUE), Answer(1, 1, FALSE)}

Row(tokens, cost, hard) == [daily |-> tokens, monthly |-> cost, hard |-> hard]
MCLimitRows == {Row(2, Null, TRUE), Row(Null, 3, TRUE)}

=============================================================================
