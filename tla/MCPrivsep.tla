------------------------------ MODULE MCPrivsep ------------------------------
(* Configurations of sshd: AuthenticationMethods, PermitRootLogin,         *)
(* PermitEmptyPasswords and the enabled methods.                           *)
EXTENDS Privsep

Conf(lists, root, empty, enabled) ==
    [lists |-> lists, root |-> root, empty |-> empty, enabled |-> enabled]

Both == {"password", "publickey"}

MCConfigs == {
    Conf(<<>>, "prohibit-password", FALSE, Both),
    Conf(<<>>, "yes", TRUE, Both),
    Conf(<<<<"publickey", "password">>, <<"publickey", "publickey">>>>,
         "no", FALSE, Both),
    Conf(<<<<"password", "publickey">>, <<"publickey">>>>,
         "prohibit-password", FALSE, {"publickey"}),
    Conf(<<<<"publickey", "publickey">>>>, "prohibit-password", FALSE, Both),
    Conf(<<<<"password">>>>, "no", TRUE, Both) }

\* Empty passwords permitted, without AuthenticationMethods and with.
MCEmptyPasswords == {
    Conf(<<>>, "yes", TRUE, Both),
    Conf(<<<<"password", "publickey">>>>, "no", TRUE, Both) }
=============================================================================
