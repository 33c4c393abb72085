--------------------------------- MODULE MCWeb ---------------------------------
(***************************************************************************)
(* The instance of Web that TLC checks.                                    *)
(***************************************************************************)
EXTENDS Web

\* A shell script that mentions both variables, of which a reading as Node.js
\* finds one, and a script that mentions none.
MCScript == {[c \in Kind |-> {}], [c \in Kind |-> IF c = "shell" THEN Variable ELSE {"A"}]}
\* A list as a client of the API may have stored it: a padded entry, and one of two
\* lines of which one is blank; and what remains of them.
Line(w, pad) == [word |-> w, padded |-> pad]
Untidy == <<<<Line("a", TRUE)>>, <<Line("b", FALSE), Line("", FALSE)>>>>
Tidy   == <<<<Line("a", FALSE)>>, <<Line("b", FALSE)>>>>
MCList == {<<>>, Untidy, Tidy}
MCText == {<<>>, <<Line("a", TRUE), Line("b", FALSE), Line("", FALSE)>>, <<Line("a", FALSE), Line("b", FALSE)>>}
MCOffered == <<"p">>

Silent == [e \in {"onSuccess", "onFailure"} |-> NotSet]
MCBlank == [script |-> [c \in Kind |-> {}], commandType |-> "shell", enabled |-> TRUE,
            env |-> [k \in Variable |-> NotSet], parameters |-> <<>>, dependencies |-> <<>>, notify |-> Silent]

Wildcards(ms) == [parses |-> TRUE, wildcards |-> TRUE, days |-> 0 .. HorizonDays, minutes |-> ms]
OnDays(ds, ms) == [parses |-> TRUE, wildcards |-> FALSE, days |-> ds, minutes |-> ms]
\* Every day at one minute, or at all; one day; often enough on two days to be cut
\* off; every day, but by its dates; and one that does not parse.
MCCron == {Wildcards({0}), Wildcards(0 .. MinutesPerDay - 1),
           OnDays({1}, {0}), OnDays({1, 2}, {0, 1}), OnDays(0 .. HorizonDays, {0}),
           [Wildcards({0}) EXCEPT !.parses = FALSE]}

\* One of two tasks exists; in the form it has a variable, lists, and a plugin for
\* each event.
Listed == [Blank EXCEPT !.env["A"] = "v", !.parameters = Untidy, !.dependencies = Untidy,
                        !.notify = [Silent EXCEPT !["onSuccess"] = "q", !["onFailure"] = "p"]]
MCInit ==
    /\ part \in {"keys", "form", "buttons", "dashboard"}
    /\ unused = {"i2"}
    /\ stored = [i \in FormId |-> IF i \in unused THEN Gone ELSE IF part = "form" THEN Listed ELSE Blank]
    /\ SystemInit

MCSpec == MCInit /\ [][SystemNext]_all /\ Polling
===============================================================================
