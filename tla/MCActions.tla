------------------------------ MODULE MCActions ------------------------------
EXTENDS Actions, TLC

SmallPlans == {<<"app", "app">>, <<"search", "page">>, <<"gui">>, <<"look">>, <<"research">>,
               <<"analyse">>, <<"open">>, <<"explain">>}
=============================================================================
