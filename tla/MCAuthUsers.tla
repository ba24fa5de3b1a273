---------------------------- MODULE MCAuthUsers ----------------------------
(***************************************************************************)
(* AuthUsers on a small instance: an administrator, in one account or in   *)
(* two sessions of it, registers one name in two spellings and assigns     *)
(* roles, to itself among others.                                          *)
(***************************************************************************)
EXTENDS AuthUsers, TLC

MCSpellings == {"admin", "test", "kim", "Kim"}
MCLowerCase == [s \in MCSpellings |-> IF s = "Kim" THEN "kim" ELSE s]

MCRegisterBodies == {[username |-> "kim", roles |-> NoList],
                     [username |-> "Kim", roles |-> {"OPERATOR"}],
                     [username |-> "test", roles |-> {"USER"}]}

MCRoleBodies == {[username |-> "admin", roles |-> {"AUDITOR"}],
                 [username |-> "test", roles |-> {"ADMIN", "USER"}],
                 [username |-> "test", roles |-> {"OPERATOR"}],
                 [username |-> "test", roles |-> {"USER", "OTHER"}],
                 [username |-> "test", roles |-> NoList],
                 [username |-> "Kim", roles |-> {"ADMIN"}]}

MCLoginBodies == {[username |-> "admin", password |-> "right"],
                  [username |-> "kim", password |-> "right"],
                  [username |-> "test", password |-> "wrong"],
                  [username |-> "kim", password |-> NotAString],
                  [username |-> NotAString, password |-> "right"]}

MCLookups == {"Kim"}

CallSymmetry == Permutations(AuthRequests)

=============================================================================
