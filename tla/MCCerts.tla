------------------------------ MODULE MCCerts ------------------------------
(* Two programs that start three times in all, and certificates made of    *)
(* any one or two details.                                                 *)
EXTENDS CertProperties

MCText == {"", "webmafia.com", "hostname", "Log", Domain, Host}
NewKey == 90         \* the further client's own key
SomeDetails ==
    {CreateCsr(NewKey), BadCsr}
        \cup {Options(b, None, {}, t) : b \in {None, <<>>, <<5, 6>>},
                                        t \in {"Unset", "Client", "Server", "Root"}}
        \cup {Options(<<7>>, NewKey, {}, "Client"),
              [Options(<<7>>, None, {}, "Client") EXCEPT !.expiry = Past]}
MCRequests == {<<a>> : a \in SomeDetails} \cup {<<a, b>> : a, b \in SomeDetails}
============================================================================
