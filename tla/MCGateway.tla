------------------------------- MODULE MCGateway -------------------------------
EXTENDS LLMGateway

Ok(status) == [sent |-> "ok", status |-> status, hints |-> {}, after |-> 0, body |-> "json"]

\* One reply of each kind the classification tells apart.
MCReplies ==
    {Ok(200), [Ok(200) EXCEPT !.body = "large"], [Ok(200) EXCEPT !.body = "shape"],
     [Ok(429) EXCEPT !.after = 3], [Ok(429) EXCEPT !.hints = {"quota"}],
     [Ok(400) EXCEPT !.hints = {"auth"}], Ok(302), Ok(404),
     [Ok(503) EXCEPT !.body = "text"], [Ok(503) EXCEPT !.hints = {"context"}],
     [Ok(200) EXCEPT !.sent = "timeout"], [Ok(200) EXCEPT !.sent = "failed"],
     [Ok(200) EXCEPT !.sent = "keyless"]}
================================================================================
