--------------------------- MODULE MCGitHubTokens ---------------------------
(* GitHubTokens for TLC: an organization and a user, two installations of   *)
(* the app on the organization (it may be removed and installed again) and  *)
(* one on the user, and requests on both sides of every rule of the parser. *)
EXTENDS GitHubTokens, TLC

Perm(name, level) == [name |-> <<name>>, level |-> level]
Request(repositories, permissions) ==
  [repositories |-> repositories, permissions |-> permissions]

MCInstallationOwner == ("i1" :> "org") @@ ("i2" :> "org") @@ ("i3" :> "user")

Read == Perm("contents", "read")
Write == Perm("contents", "write")
Pulls == Perm("pulls", "write")

MCParts == {"org", "user", "a", "b", "contents", "pulls", "read", "write"}

MCAppPermissions == {Read, Write, Pulls}

MCTokenRequests ==
  { Request(<< <<"org", "a">> >>, <<Read>>),
    Request(<< <<"org", "a">>, <<"org", "b">> >>, <<Write, Pulls>>),
    Request(<< <<"user", "a">> >>, << >>),
    Request(<< <<"org", "a">>, <<"user", "a">> >>, <<Read>>),
    Request(<< <<"org", "a", "b">> >>, <<Read>>),
    Request(<< <<"a">> >>, <<Read>>),
    Request(<< >>, <<Read>>),
    Request(<< <<"org", "a">> >>, <<Read, Write>>),
    Request(<< <<"org", "a">> >>, <<Perm("contents", Nothing)>>),
    Request(<< <<"org", "a">> >>,
            <<[name |-> <<"org", "contents">>, level |-> "read"]>>) }
============================================================================
