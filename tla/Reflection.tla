----------------------------- MODULE Reflection -----------------------------
(* The tables of flatbuffers/reflection_generated.h: a schema described as *)
(* a buffer of its own.                                                    *)
EXTENDS Schemas

Type ==
  TableType(<<Number("base_type", 4, int8, 0), Number("element", 6, int8, 0),
              Number("index", 8, int32, -1), Number("fixed_length", 10, uint16, 0),
              Number("base_size", 12, uint32, 4), Number("element_size", 14, uint32, 0)>>,
            <<"element_size", "base_size", "index", "fixed_length", "element", "base_type">>,
            NoKey)

KeyValue ==
  TableType(<<Mandatory(Text("key", 4)), Text("value", 6)>>, <<"value", "key">>, "key")

EnumVal ==
  TableType(<<Mandatory(Text("name", 4)), Number("value", 6, int64, 0),
              Table("union_type", 10, "Type"), Texts("documentation", 12),
              Tables("attributes", 14, "KeyValue")>>,
            <<"value", "attributes", "documentation", "union_type", "name">>, "value")

Enum ==
  TableType(<<Mandatory(Text("name", 4)), Mandatory(Tables("values", 6, "EnumVal")),
              Number("is_union", 8, uint8_t, 0), Mandatory(Table("underlying_type", 10, "Type")),
              Tables("attributes", 12, "KeyValue"), Texts("documentation", 14),
              Text("declaration_file", 16)>>,
            <<"declaration_file", "documentation", "attributes", "underlying_type", "values",
              "name", "is_union">>, "name")

Field ==
  TableType(<<Mandatory(Text("name", 4)), Mandatory(Table("type", 6, "Type")),
              Number("id", 8, uint16, 0), Number("offset", 10, uint16, 0),
              Number("default_integer", 12, int64, 0), Number("default_real", 14, double, 0),
              Number("deprecated", 16, uint8_t, 0), Number("required", 18, uint8_t, 0),
              Number("key", 20, uint8_t, 0), Tables("attributes", 22, "KeyValue"),
              Texts("documentation", 24), Number("optional", 26, uint8_t, 0),
              Number("padding", 28, uint16, 0)>>,
            <<"default_real", "default_integer", "documentation", "attributes", "type", "name",
              "padding", "offset", "id", "optional", "key", "required", "deprecated">>, "name")

Object ==
  TableType(<<Mandatory(Text("name", 4)), Mandatory(Tables("fields", 6, "Field")),
              Number("is_struct", 8, uint8_t, 0), Number("minalign", 10, int32, 0),
              Number("bytesize", 12, int32, 0), Tables("attributes", 14, "KeyValue"),
              Texts("documentation", 16), Text("declaration_file", 18)>>,
            <<"declaration_file", "documentation", "attributes", "bytesize", "minalign",
              "fields", "name", "is_struct">>, "name")

RPCCall ==
  TableType(<<Mandatory(Text("name", 4)), Mandatory(Table("request", 6, "Object")),
              Mandatory(Table("response", 8, "Object")), Tables("attributes", 10, "KeyValue"),
              Texts("documentation", 12)>>,
            <<"documentation", "attributes", "response", "request", "name">>, "name")

Service ==
  TableType(<<Mandatory(Text("name", 4)), Tables("calls", 6, "RPCCall"),
              Tables("attributes", 8, "KeyValue"), Texts("documentation", 10),
              Text("declaration_file", 12)>>,
            <<"declaration_file", "documentation", "attributes", "calls", "name">>, "name")

SchemaFile ==
  TableType(<<Mandatory(Text("filename", 4)), Texts("included_filenames", 6)>>,
            <<"included_filenames", "filename">>, "filename")

Schema ==
  TableType(<<Mandatory(Tables("objects", 4, "Object")), Mandatory(Tables("enums", 6, "Enum")),
              Text("file_ident", 8), Text("file_ext", 10), Table("root_table", 12, "Object"),
              Tables("services", 14, "Service"), Number("advanced_features", 16, uint64, 0),
              Tables("fbs_files", 18, "SchemaFile")>>,
            <<"advanced_features", "fbs_files", "services", "root_table", "file_ext",
              "file_ident", "enums", "objects">>, NoKey)

(* "BFBS" *)
SchemaIdentifier == <<66, 70, 66, 83>>

ReflectionTypes ==
  [Type |-> Type, KeyValue |-> KeyValue, EnumVal |-> EnumVal, Enum |-> Enum,
   Field |-> Field, Object |-> Object, RPCCall |-> RPCCall, Service |-> Service,
   SchemaFile |-> SchemaFile, Schema |-> Schema]
=============================================================================
