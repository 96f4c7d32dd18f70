----------------------------- MODULE MCExchange -----------------------------
(***************************************************************************)
(* Model checking of Exchange: the images and tags of a small registry.    *)
(***************************************************************************)
EXTENDS Exchange

(* Two spellings of one version, one that is older as a string and newer   *)
(* as a version, one that is none.                                         *)
MCParts == "1.8" :> <<1, 8>> @@ "v1.8.0" :> <<1, 8, 0>> @@ "1.9" :> <<1, 9>> @@ "1.10" :> <<1, 10>>
           @@ "2.0-rc" :> <<2, NaN>> @@ "latest" :> <<NaN>>

Ref(host, path, tag, digest) == [host |-> host, path |-> path, tag |-> tag, digest |-> digest]

Registered == <<"reg.example", ":", "5000">>

(* With and without a registry, an owner, a tag, a digest.                 *)
MCImages == { Ref(<<>>, <<"app">>, <<"1.8">>, <<>>),
              Ref(Registered, <<"owner", "/", "app">>, <<"v1.8.0">>, <<>>),
              Ref(<<"docker.io">>, <<"app">>, <<>>, <<>>),
              Ref(Registered, <<"app">>, <<>>, <<>>),
              Ref(<<>>, <<"owner", "/", "app">>, <<>>, <<"sha256:a">>),
              Ref(<<"localhost">>, <<"app">>, <<"1.8">>, <<"sha256:a">>) }

MCCatalogs == {[t \in Tags |-> IF t \in published THEN "sha256:a" ELSE Gone] :
                 published \in {{"latest"}, {"1.8", "latest"}, Tags}}

(* The names of networks without an address are lines of their own.        *)
MCNetworks == {<<>>, <<"bridge 172.17.0.2">>, <<"IMAGE_META">>,
               <<"IMAGE_META", "backend">>, <<"REGISTRY", "backend">>}

CopierSymmetry == Permutations(Copiers)

=============================================================================
