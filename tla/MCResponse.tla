----------------------------- MODULE MCResponse -----------------------------
(* One request; the model writes messages with these headers.              *)
EXTENDS Response

MCHeaders == {
  <<"CHANNEL", "analysis">>,
  <<"CHANNEL", "final">>,
  <<"CHANNEL", "commentary", "to", "CONSTRAIN", "json">>,
  <<"CHANNEL", "commentary", "to", "CONSTRAIN", "text">>,
  <<"CHANNEL", "commentary", "CONSTRAIN", "json">>,
  <<"CHANNEL", "final", "to", "CONSTRAIN", "json">>,
  <<"CHANNEL", "CHANNEL">>,
  <<"assistant", "CHANNEL", "final">>,
  <<"assistant", "to", "CHANNEL", "commentary", "CONSTRAIN", "json">>,
  <<"text", "CHANNEL", "final">>}

MCBody == {"text", "lead", "trail", "seam"}

\* One character, whole or split, is a JSON text, and a character that was replaced too.
MCJson == {<<"text">>, <<"lead", "trail">>, <<"replacement">>}
=============================================================================
