-------------------------- MODULE MCConfigRollout --------------------------
(* The mail form writes both objects, the general form the ConfigMap, that *)
(* of the Redis password the Secret.                                       *)
EXTENDS ConfigRollout, TLC

CONSTANTS h1, h2

Nothing == [k \in {} |-> Unset]

Form(why, config, secret) == [reason |-> why, config |-> config, secret |-> secret]

MailForm  == Form("mail", "host" :> "new", "password" :> "new")
EmptyMail == Form("mail", Nothing, Nothing)
RedisForm == Form("redis-password", Nothing, "redis" :> "new")
PollForm  == Form("general", "poll" :> "new", Nothing)
EmptyForm == Form("general", Nothing, Nothing)

AllForms  == {MailForm, EmptyMail, RedisForm, PollForm, EmptyForm}

ZeroFatal == [k \in Keys |-> IF k = "poll" THEN {"0"} ELSE {}]

============================================================================
