-------------------------------- MODULE Builtins --------------------------------
(***************************************************************************)
(* The table of builtin functions (backend/builtin.cpp): the name and type *)
(* under which code generation declares one in the LLVM module, and the    *)
(* C++ function whose address the executor maps that name to.              *)
(***************************************************************************)
EXTENDS BythonTypes

\* (mutant) put_f64_impl is mended to take a double; its entry keeps its name
ImplementationOfDoubles ==
  [put_u64_impl |-> [takes |-> IntTy(64), prints |-> "unsigned"],
   put_i64_impl |-> [takes |-> IntTy(64), prints |-> "signed"],
   put_f32_impl |-> [takes |-> FloatTy,   prints |-> "float"],
   put_f64_impl |-> [takes |-> DoubleTy,  prints |-> "float"]]

\* The C++ functions: what each takes for its argument, and how it prints it
Implementation ==
  [put_u64_impl |-> [takes |-> IntTy(64), prints |-> "unsigned"],
   put_i64_impl |-> [takes |-> IntTy(64), prints |-> "signed"],
   put_f32_impl |-> [takes |-> FloatTy,   prints |-> "float"],
   put_f64_impl |-> [takes |-> IntTy(64), prints |-> "signed"]]

\* (mutant) the addresses of the integer printers change places
PrintersSwapped ==
  [put_i64 |-> [name |-> "put_i64", signature |-> FunctionTy(<<IntTy(64)>>, VoidTy),
                address |-> "put_u64_impl"],
   put_u64 |-> [name |-> "put_u64", signature |-> FunctionTy(<<IntTy(64)>>, VoidTy),
                address |-> "put_i64_impl"],
   put_f32 |-> [name |-> "put_f32", signature |-> FunctionTy(<<FloatTy>>, VoidTy),
                address |-> "put_f32_impl"],
   put_f64 |-> [name |-> "put_i64", signature |-> FunctionTy(<<DoubleTy>>, VoidTy),
                address |-> "put_f64_impl"]]

\* (mutant) the entry of put_f64 has the address of put_f32's function
OnePrinterOfFloats ==
  [put_i64 |-> [name |-> "put_i64", signature |-> FunctionTy(<<IntTy(64)>>, VoidTy),
                address |-> "put_i64_impl"],
   put_u64 |-> [name |-> "put_u64", signature |-> FunctionTy(<<IntTy(64)>>, VoidTy),
                address |-> "put_i64_impl"],
   put_f32 |-> [name |-> "put_f32", signature |-> FunctionTy(<<FloatTy>>, VoidTy),
                address |-> "put_f32_impl"],
   put_f64 |-> [name |-> "put_i64", signature |-> FunctionTy(<<DoubleTy>>, VoidTy),
                address |-> "put_f32_impl"]]

\* The entry of put_f64 goes by the name put_i64; put_u64 has put_i64's address
BuiltinFunction ==
  [put_i64 |-> [name |-> "put_i64", signature |-> FunctionTy(<<IntTy(64)>>, VoidTy),
                address |-> "put_i64_impl"],
   put_u64 |-> [name |-> "put_u64", signature |-> FunctionTy(<<IntTy(64)>>, VoidTy),
                address |-> "put_i64_impl"],
   put_f32 |-> [name |-> "put_f32", signature |-> FunctionTy(<<FloatTy>>, VoidTy),
                address |-> "put_f32_impl"],
   put_f64 |-> [name |-> "put_i64", signature |-> FunctionTy(<<DoubleTy>>, VoidTy),
                address |-> "put_f64_impl"]]
================================================================================
