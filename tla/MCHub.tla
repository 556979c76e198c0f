--------------------------------- MODULE MCHub ---------------------------------
(* Model checking Hub: two emitters; messages for everyone, and messages for *)
(* one of them that also name an emitter that is not registered.             *)
EXTENDS Hub

MCEmitters == <<"stdout", "grpc">>

MCEmitterName == {"stdout", "grpc"}

MCRoutes == {{}, {"grpc", "nowhere"}}
===============================================================================
